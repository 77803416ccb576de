---------------------------- MODULE Gates_proofs -----------------------------
(***************************************************************************)
(* Safety of the gates: what a read of a file that is written to accepts,  *)
(* what a supervisor reports of a command, what a corpus that is accepted  *)
(* under the reviewed roots holds, and what the proof snapshot lets be     *)
(* built.  The parts share no variable; each is argued for any values of   *)
(* its constants.                                                          *)
(***************************************************************************)
EXTENDS StableRead, SealedCommand, CorpusTree, ProofSnapshot, FiniteSetTheorems,
        SequenceTheorems, TLAPS

(***************************************************************************)
(* StableRead: what a read accepts is what the paths held at one moment.   *)
(***************************************************************************)
(* The reader's position: how much of its program is left.                 *)
Program == IF Pair THEN PairReads ELSE Single
Left == Len(steps)
OpenBy(p) == IF Pair THEN (IF p = "top" THEN 12 ELSE 10) ELSE 3
ReadAt(p) == IF Pair THEN (IF p = "top" THEN 9 ELSE 8) ELSE 3

(* The time a change to a file cannot but leave, as long as nobody sets    *)
(* back the one that stable_read relies on.                                *)
Trust == setBack => job # "single"
Stamp(x) == IF job = "single" THEN x.mtime ELSE x.ctime

(* The path still has the file that was opened, and nothing has been done  *)
(* to it since.                                                            *)
OfOpened(p) == entry[p] = opened[p].ino /\ Stamp(inode[opened[p].ino]) = Stamp(opened[p])
BytesRead(p) == inode[opened[p].ino].bytes

Jobs == {"single", "pair", "report"}
Kinds == {"file", "link"}
Modes == {"600", "644", "755"}
Owners == {Owner, "other"}
Operations == {"lstat", "open", "links", "read", "compare", "check", "again", "write", "chmod"}
Inode == [kind : Kinds, mode : Modes, owner : Owners, links : Int, bytes : Seq(Payload),
         mtime : Nat, ctime : Nat]
Status == [ino : Inodes, kind : Kinds, mode : Modes, owner : Owners, links : Int, size : Nat,
           mtime : Nat, ctime : Nat]

FilesOK ==
  /\ inode \in [Inodes -> Inode]
  /\ entry \in [Paths -> Inodes \cup {Absent}]
  /\ job \in Jobs /\ writes \in 0..ReadEdits[job] /\ setBack \in BOOLEAN
  /\ \A i \in Inodes : inode[i].mtime < now /\ inode[i].ctime < now
  /\ ~Pair => entry["dep"] \in Inodes

MomentsOK == (\A p \in Paths : entry[p] # Absent) => HeldNow \in moments

StepsOK ==
  /\ steps \in Seq(Operations \X Paths) /\ Left <= Len(Program)
  /\ \A k \in 1..Left : steps[k] = Program[Len(Program) - Left + k]
  /\ outcome # "none" => steps = << >>
  /\ outcome = "rejected" \/ ~Pair => sealed = Absent

DataOK ==
  /\ opened \in [Paths -> Status \cup {Absent}] /\ DOMAIN before = Paths
  /\ Trust => data \in [Paths -> Seq(Payload)]

ReadTypeOK == FilesOK /\ MomentsOK /\ StepsOK /\ DataOK

(* Of one path: what has been read is the beginning of what is there, as   *)
(* long as that is kept.                                                   *)
Opened(p) == opened[p] \in Status /\ Stamp(opened[p]) < now
Begins(p) ==
  /\ Len(data[p]) <= Len(BytesRead(p))
  /\ \A k \in 1..Len(data[p]) : data[p][k] = BytesRead(p)[k]
PathOK(p) ==
  /\ Left <= OpenBy(p) => Opened(p)
  /\ Left > ReadAt(p) => data[p] = << >>
  /\ Left <= ReadAt(p) /\ OfOpened(p) => Begins(p)
  /\ Left < ReadAt(p) /\ OfOpened(p) => data[p] = BytesRead(p)

(* What is written out.                                                    *)
Written(mode, n) == [mode |-> mode, bytes |-> SubSeq(data["top"], 1, n)]
SealingOK ==
  /\ Left >= 3 => sealed = Absent
  /\ Left = 2 => sealed = Absent \/ \E n \in 1..Len(data["top"]) : sealed = Written("600", n)
  /\ Left = 1 => sealed = Written("600", Len(data["top"]))
  /\ Left = 0 => sealed = Written("555", Len(data["top"]))

(* Of the pair: when the first path is found as it was opened, so is the   *)
(* second, if it will be.                                                  *)
HeldOnce == \E m \in moments : m["top"] = data["top"] /\ (Pair => m["dep"] = data["top"])
PairOK ==
  /\ Left = 13 => before["top"].size > 0
  /\ Left <= 12 => opened["top"].size > 0
  /\ Left <= 8 => Len(data["top"]) = opened["top"].size
  /\ Left <= 6 => data["top"] = data["dep"]
  /\ Left = 3 /\ OfOpened("dep") => HeldOnce

Found == Left <= (IF Pair THEN 2 ELSE 0) => HeldOnce

ReadInv ==
  /\ ReadTypeOK
  /\ Trust /\ outcome # "rejected" =>
       /\ \A p \in Watched : PathOK(p)
       /\ Pair => PairOK /\ SealingOK
       /\ Found

-----------------------------------------------------------------------------
(* Where in its program the reader is.                                     *)
LEMMA Programs ==
  /\ Len(PairReads) = 14 /\ Len(Single) = 5
  /\ PairReads[1] = <<"lstat", "top">> /\ PairReads[2] = <<"open", "top">>
  /\ PairReads[3] = <<"lstat", "dep">> /\ PairReads[4] = <<"open", "dep">>
  /\ PairReads[5] = <<"links", "top">> /\ PairReads[6] = <<"read", "top">>
  /\ PairReads[7] = <<"read", "dep">> /\ PairReads[8] = <<"compare", "top">>
  /\ PairReads[9] = <<"check", "top">> /\ PairReads[10] = <<"check", "dep">>
  /\ PairReads[11] = <<"again", "top">> /\ PairReads[12] = <<"again", "dep">>
  /\ PairReads[13] = <<"write", "top">> /\ PairReads[14] = <<"chmod", "top">>
  /\ Single[1] = <<"lstat", "top">> /\ Single[2] = <<"open", "top">>
  /\ Single[3] = <<"read", "top">> /\ Single[4] = <<"check", "top">>
  /\ Single[5] = <<"again", "top">>
  BY DEF PairReads, Single

LEMMA TurnIsNext ==
  ASSUME StepsOK, NEW op, NEW p, Turn(op, p)
  PROVE  /\ Left \in Nat /\ Left >= 1 /\ Left <= Len(Program)
         /\ Program[Len(Program) - Left + 1] = <<op, p>>
<1>1. steps \in Seq(Operations \X Paths) /\ steps # << >> /\ Head(steps) = <<op, p>>
  BY DEF StepsOK, Turn
<1>2. Left \in Nat /\ Left >= 1 /\ steps[1] = <<op, p>>
  BY <1>1, LenProperties, EmptySeq DEF Left
<1> QED BY <1>2 DEF StepsOK

LEMMA TurnOfSingle ==
  ASSUME StepsOK, ~Pair, NEW op, NEW p, Turn(op, p)
  PROVE  /\ op \in {"lstat", "open", "read", "check", "again"} /\ p = "top"
         /\ op = "lstat" => Left = 5
         /\ op = "open" => Left = 4
         /\ op = "read" => Left = 3
         /\ op = "check" => Left = 2
         /\ op = "again" => Left = 1
<1>0. Program = Single /\ Len(Program) = 5
  BY Programs DEF Program
<1>1. Left \in 1..5 /\ Single[6 - Left] = <<op, p>>
  <2>1. /\ Left \in Nat /\ Left >= 1 /\ Left <= Len(Program)
        /\ Program[Len(Program) - Left + 1] = <<op, p>>
    BY TurnIsNext
  <2>2. 5 - Left + 1 = 6 - Left
    BY <2>1
  <2> QED BY <1>0, <2>1, <2>2
<1>2. Left = 1 \/ Left = 2 \/ Left = 3 \/ Left = 4 \/ Left = 5
  BY <1>1
<1> QED BY <1>1, <1>2, Programs

LEMMA TurnOfPair ==
  ASSUME StepsOK, Pair, NEW op, NEW p, Turn(op, p)
  PROVE  /\ p \in Paths
         /\ op = "lstat" => Left = (IF p = "top" THEN 14 ELSE 12)
         /\ op = "open" => Left = (IF p = "top" THEN 13 ELSE 11)
         /\ op = "links" => Left = 10
         /\ op = "read" => Left = (IF p = "top" THEN 9 ELSE 8)
         /\ op = "compare" => Left = 7
         /\ op = "check" => Left = (IF p = "top" THEN 6 ELSE 5)
         /\ op = "again" => Left = (IF p = "top" THEN 4 ELSE 3)
         /\ op = "write" => Left = 2
         /\ op = "chmod" => Left = 1
<1>0. Program = PairReads /\ Len(Program) = 14
  BY Programs DEF Program
<1>1. Left \in 1..14 /\ PairReads[15 - Left] = <<op, p>>
  <2>1. /\ Left \in Nat /\ Left >= 1 /\ Left <= Len(Program)
        /\ Program[Len(Program) - Left + 1] = <<op, p>>
    BY TurnIsNext
  <2>2. 14 - Left + 1 = 15 - Left
    BY <2>1
  <2> QED BY <1>0, <2>1, <2>2
<1>2. CASE Left \in 1..5
  <2>1. Left = 1 \/ Left = 2 \/ Left = 3 \/ Left = 4 \/ Left = 5
    BY <1>2
  <2> QED BY <1>1, <2>1, Programs DEF Paths
<1>3. CASE Left \in 6..10
  <2>1. Left = 6 \/ Left = 7 \/ Left = 8 \/ Left = 9 \/ Left = 10
    BY <1>3
  <2> QED BY <1>1, <2>1, Programs DEF Paths
<1>4. CASE Left \in 11..14
  <2>1. Left = 11 \/ Left = 12 \/ Left = 13 \/ Left = 14
    BY <1>4
  <2> QED BY <1>1, <2>1, Programs DEF Paths
<1> QED BY <1>1, <1>2, <1>3, <1>4

(* A step of it done, or the whole given up.                               *)
LEMMA ProceedSteps ==
  ASSUME StepsOK, job' = job, sealed' = sealed \/ Pair, outcome # "rejected", steps # << >>, Proceed
  PROVE  StepsOK' /\ Left' = Left - 1 /\ Left \in Nat \ {0} /\ outcome' # "rejected"
<1> DEFINE S == Operations \X Paths
<1>1. steps \in Seq(S) /\ steps # << >> /\ steps' = Tail(steps)
  BY DEF StepsOK, Proceed
<1>2. /\ steps' \in Seq(S) /\ Len(steps) \in Nat \ {0} /\ Len(steps') = Len(steps) - 1
      /\ \A k \in 1..Len(steps') : steps'[k] = steps[k + 1]
  <2> HIDE DEF S
  <2> QED BY <1>1, HeadTailProperties, EmptySeq, LenProperties
<1>3. Left' = Left - 1 /\ Left \in Nat \ {0}
  BY <1>2 DEF Left
<1>4. outcome' # "rejected"
  BY DEF Proceed
<1>5. Program' = Program /\ Len(Program) \in Nat
  BY Programs DEF Program, Pair
<1>6. \A k \in 1..Left' : steps'[k] = Program[Len(Program) - Left' + k]
  BY <1>2, <1>3, <1>5 DEF StepsOK, Left
<1>7. outcome' = "rejected" \/ ~Pair' => sealed' = Absent
  BY <1>4 DEF StepsOK, Pair
<1>8. outcome' # "none" => steps' = << >>
  BY DEF StepsOK, Proceed
<1> QED BY <1>2, <1>3, <1>4, <1>5, <1>6, <1>7, <1>8 DEF StepsOK

LEMMA RejectSteps ==
  ASSUME StepsOK, job' = job, sealed' = Absent, Reject
  PROVE  StepsOK' /\ outcome' = "rejected"
<1>1. steps' = << >> /\ outcome' = "rejected"
  BY DEF Reject
<1>2. steps' \in Seq(Operations \X Paths) /\ Len(steps') = 0
  BY <1>1, EmptySeq
<1>3. Len(Program)' \in Nat
  BY Programs DEF Program, Pair
<1> QED BY <1>1, <1>2, <1>3 DEF StepsOK, Left

-----------------------------------------------------------------------------
(* The writer leaves a new time on every file whose contents it changes,   *)
(* and on every file it moves to a path.                                   *)
LEMMA Clock ==
  ASSUME FilesOK
  PROVE  /\ now \in Nat /\ now > 0
         /\ \A files : Touches(files) => writes' \in 0..ReadEdits[job] /\ now' = now + 1
<1>1. ReadEdits[job] \in Nat /\ writes \in 0..ReadEdits[job]
  BY ReadAssumption DEF FilesOK, Jobs
<1> QED BY <1>1 DEF now, Touches

LEMMA FilesTouched ==
  ASSUME FilesOK, NEW files, Touches(files), files \in [Inodes -> Inode],
         \A k \in Inodes : files[k].mtime <= now /\ files[k].ctime <= now,
         entry' \in [Paths -> Inodes \cup {Absent}], ~Pair => entry'["dep"] = entry["dep"],
         setBack' \in BOOLEAN
  PROVE  FilesOK'
<1>1. inode' = files /\ job' = job
  BY DEF Touches
<1>2. now \in Nat /\ now' = now + 1 /\ writes' \in 0..ReadEdits[job]
  BY Clock
<1>3. \A k \in Inodes : files[k].mtime \in Nat /\ files[k].ctime \in Nat
  BY DEF Inode
<1>4. \A k \in Inodes : inode'[k].mtime < now' /\ inode'[k].ctime < now'
  BY <1>1, <1>2, <1>3
<1>5. ~Pair' => entry'["dep"] \in Inodes
  BY <1>1 DEF FilesOK, Pair
<1> QED BY <1>1, <1>2, <1>4, <1>5 DEF FilesOK

(* What a step of the writer amounts to.                                   *)
Leaves ==
  /\ FilesOK' /\ now' = now + 1
  /\ UNCHANGED <<job, steps, before, opened, data, sealed, outcome>> /\ moments \subseteq moments'
  /\ Trust' => Trust
  /\ Trust' => \A k \in Inodes :
       \/ inode'[k].bytes = inode[k].bytes /\ Stamp(inode'[k]) = Stamp(inode[k])
       \/ Stamp(inode'[k]) = now
  /\ \A p \in Paths : \/ entry'[p] = entry[p] \/ entry'[p] = Absent
                      \/ entry'[p] \in Inodes /\ Stamp(inode'[entry'[p]]) = now
  /\ MomentsOK'

LEMMA RewrittenIsData ==
  ASSUME NEW old \in Seq(Payload), NEW bytes \in Rewritten(old)
  PROVE  bytes \in Seq(Payload)
<1>1. Len(old) \in Nat /\ DOMAIN old = 1..Len(old)
  BY LenProperties
<1>2. \/ \E k \in DOMAIN old, x \in Payload : bytes = [old EXCEPT ![k] = x]
      \/ \E x \in Payload : bytes = Append(old, x)
      \/ bytes = SubSeq(old, 1, Len(old) - 1)
  BY DEF Rewritten
<1>3. ASSUME NEW k \in DOMAIN old, NEW x \in Payload PROVE [old EXCEPT ![k] = x] \in Seq(Payload)
  BY <1>1, ExceptSeq
<1>4. \A x \in Payload : Append(old, x) \in Seq(Payload)
  BY AppendProperties
<1>5. SubSeq(old, 1, Len(old) - 1) \in Seq(Payload)
  BY <1>1
<1> QED BY <1>2, <1>3, <1>4, <1>5

LEMMA WritesInPlace == ASSUME FilesOK, MomentsOK, WriteInPlace PROVE Leaves
<1>0. PICK p \in Watched : entry[p] # Absent /\ \E bytes \in Rewritten(inode[entry[p]].bytes) : Overwrite(p, bytes)
  BY DEF WriteInPlace
<1>1. PICK bytes \in Rewritten(inode[entry[p]].bytes) : Overwrite(p, bytes)
  BY <1>0
<1> DEFINE i == entry[p]
           old == inode[i].bytes
<1>2. p \in Paths
  BY DEF Watched, Paths
<1>3. i \in Inodes /\ inode[i] \in Inode /\ old \in Seq(Payload)
  BY <1>0, <1>2 DEF FilesOK, Inode
<1>4. bytes \in Seq(Payload)
  BY <1>1, <1>3, RewrittenIsData
<1> DEFINE new == [[inode[i] EXCEPT !.bytes = bytes, !.mtime = now] EXCEPT !.ctime = now]
           files == [inode EXCEPT ![i] = new]
<1>5. now \in Nat /\ now > 0
  BY Clock
<1>6. new \in Inode /\ new.bytes = bytes /\ new.mtime = now /\ new.ctime = now
  BY <1>3, <1>4, <1>5 DEF Inode
<1>7. /\ Touches(files) /\ UNCHANGED <<entry, setBack>>
      /\ moments' = moments \cup {[q \in Paths |-> IF entry[q] = i THEN bytes ELSE HeldNow[q]]}
  BY <1>1 DEF Overwrite, Changed
<1> HIDE DEF new
<1>8. files \in [Inodes -> Inode] /\ files[i] = new /\ \A k \in Inodes \ {i} : files[k] = inode[k]
  BY <1>3, <1>6 DEF FilesOK
<1>9. \A k \in Inodes : files[k].mtime <= now /\ files[k].ctime <= now
  BY <1>5, <1>6, <1>8 DEF FilesOK, Inode
<1> HIDE DEF files
<1>10. inode' = files /\ UNCHANGED <<job, steps, before, opened, data, sealed, outcome, entry, setBack>>
  BY <1>7 DEF Touches
<1>11. FilesOK' /\ now' = now + 1
  BY <1>7, <1>8, <1>9, <1>10, FilesTouched, Clock DEF FilesOK
<1>12. Trust' => Trust
  BY <1>10 DEF Trust
<1>13. \A k \in Inodes :
         \/ inode'[k].bytes = inode[k].bytes /\ Stamp(inode'[k]) = Stamp(inode[k])
         \/ Stamp(inode'[k]) = now
  BY <1>6, <1>8, <1>10 DEF Stamp
<1>14. MomentsOK'
  <2> SUFFICES ASSUME \A q \in Paths : entry'[q] # Absent PROVE HeldNow' \in moments'
    BY DEF MomentsOK
  <2>1. \A q \in Paths : HeldNow'[q] = IF entry[q] = i THEN bytes ELSE HeldNow[q]
    BY <1>6, <1>8, <1>10 DEF HeldNow, FilesOK
  <2>2. HeldNow' = [q \in Paths |-> IF entry[q] = i THEN bytes ELSE HeldNow[q]]
    BY <2>1 DEF HeldNow
  <2> QED BY <1>7, <2>2
<1>15. moments \subseteq moments'
  BY <1>7
<1> QED BY <1>10, <1>11, <1>12, <1>13, <1>14, <1>15 DEF Leaves

LEMMA Restats == ASSUME FilesOK, MomentsOK, Restat PROVE Leaves
<1>1. PICK p \in Watched : entry[p] # Absent /\
        /\ \/ Touches(Changed(entry[p], [inode[entry[p]] EXCEPT !.mode = "644"])) /\ UNCHANGED setBack
           \/ Touches(Changed(entry[p], [inode[entry[p]] EXCEPT !.links = @ + 1])) /\ UNCHANGED setBack
           \/ Touches(Changed(entry[p], [inode[entry[p]] EXCEPT !.mtime = 0])) /\ setBack' = TRUE
        /\ UNCHANGED <<entry, moments>>
  BY DEF Restat
<1> DEFINE i == entry[p]
<1>2. i \in Inodes /\ inode[i] \in Inode
  BY <1>1 DEF FilesOK, Watched, Paths
<1>3. now \in Nat /\ now > 0
  BY Clock
<1>4. PICK new \in Inode :
        /\ Touches([inode EXCEPT ![i] = new])
        /\ new.bytes = inode[i].bytes /\ new.ctime = now /\ new.mtime <= now
        /\ \/ new.mtime = inode[i].mtime /\ UNCHANGED setBack
           \/ setBack' = TRUE
  <2> DEFINE To(file) == [file EXCEPT !.ctime = now]
             First == [inode[i] EXCEPT !.mode = "644"]
             Second == [inode[i] EXCEPT !.links = @ + 1]
             Third == [inode[i] EXCEPT !.mtime = 0]
  <2>1. \A file \in Inode : /\ To(file) \in Inode /\ To(file).bytes = file.bytes
                           /\ To(file).ctime = now /\ To(file).mtime = file.mtime
    BY <1>3 DEF Inode
  <2>2. First \in Inode /\ First.bytes = inode[i].bytes /\ First.mtime = inode[i].mtime
    BY <1>2 DEF Inode, Modes
  <2>3. Second \in Inode /\ Second.bytes = inode[i].bytes /\ Second.mtime = inode[i].mtime
    BY <1>2 DEF Inode
  <2>4. Third \in Inode /\ Third.bytes = inode[i].bytes /\ Third.mtime = 0
    BY <1>2 DEF Inode
  <2>5. \/ Touches([inode EXCEPT ![i] = To(First)]) /\ UNCHANGED setBack
        \/ Touches([inode EXCEPT ![i] = To(Second)]) /\ UNCHANGED setBack
        \/ Touches([inode EXCEPT ![i] = To(Third)]) /\ setBack' = TRUE
    BY <1>1 DEF Changed
  <2>6. inode[i].mtime <= now
    BY <1>2, <1>3 DEF FilesOK, Inode
  <2> HIDE DEF To, First, Second, Third
  <2>7. CASE Touches([inode EXCEPT ![i] = To(First)]) /\ UNCHANGED setBack
    <3>1. /\ To(First) \in Inode /\ To(First).bytes = inode[i].bytes
          /\ To(First).ctime = now /\ To(First).mtime <= now
      BY <2>1, <2>2, <2>6
    <3>2. To(First).mtime = inode[i].mtime /\ UNCHANGED setBack
      BY <2>1, <2>2, <2>6, <2>7
    <3> QED BY <2>7, <3>1, <3>2
  <2>8. CASE Touches([inode EXCEPT ![i] = To(Second)]) /\ UNCHANGED setBack
    <3>1. /\ To(Second) \in Inode /\ To(Second).bytes = inode[i].bytes
          /\ To(Second).ctime = now /\ To(Second).mtime <= now
      BY <2>1, <2>3, <2>6
    <3>2. To(Second).mtime = inode[i].mtime /\ UNCHANGED setBack
      BY <2>1, <2>3, <2>6, <2>8
    <3> QED BY <2>8, <3>1, <3>2
  <2>9. CASE Touches([inode EXCEPT ![i] = To(Third)]) /\ setBack' = TRUE
    <3>1. /\ To(Third) \in Inode /\ To(Third).bytes = inode[i].bytes
          /\ To(Third).ctime = now /\ To(Third).mtime <= now
      BY <1>3, <2>1, <2>4
    <3>2. setBack' = TRUE
      BY <1>3, <2>1, <2>4, <2>9
    <3> QED BY <2>9, <3>1, <3>2
  <2> QED BY <2>5, <2>7, <2>8, <2>9
<1> DEFINE files == [inode EXCEPT ![i] = new]
<1>5. files \in [Inodes -> Inode] /\ files[i] = new /\ \A k \in Inodes \ {i} : files[k] = inode[k]
  BY <1>2, <1>4 DEF FilesOK
<1>6. Touches(files)
  BY <1>4
<1>7. \A k \in Inodes : files[k].mtime <= now /\ files[k].ctime <= now
  BY <1>2, <1>3, <1>4, <1>5 DEF FilesOK, Inode
<1> HIDE DEF files
<1>8. inode' = files /\ UNCHANGED <<job, steps, before, opened, data, sealed, outcome, entry, moments>>
  BY <1>1, <1>6 DEF Touches
<1>9. setBack' \in BOOLEAN /\ (setBack => setBack')
  <2>1. setBack' = setBack \/ setBack' = TRUE
    BY <1>4
  <2> QED BY <2>1, Zenon DEF FilesOK
<1>10. FilesOK' /\ now' = now + 1
  BY <1>5, <1>6, <1>7, <1>8, <1>9, FilesTouched, Clock DEF FilesOK
<1>11. Trust' => Trust
  BY <1>8, <1>9 DEF Trust
<1>12. ASSUME Trust', NEW k \in Inodes
       PROVE  \/ inode'[k].bytes = inode[k].bytes /\ Stamp(inode'[k]) = Stamp(inode[k])
              \/ Stamp(inode'[k]) = now
  <2>1. CASE job = "single"
    <3>1. new.mtime = inode[i].mtime
      BY <1>4, <1>8, <1>12, <2>1 DEF Trust
    <3> QED BY <1>4, <1>5, <1>8, <2>1, <3>1 DEF Stamp
  <2>2. CASE job # "single"
    BY <1>4, <1>5, <1>8, <2>2 DEF Stamp
  <2> QED BY <2>1, <2>2
<1>13. MomentsOK'
  <2>1. \A k \in Inodes : inode'[k].bytes = inode[k].bytes
    BY <1>4, <1>5, <1>8
  <2>2. HeldNow' = HeldNow
    BY <1>8, <2>1 DEF HeldNow, FilesOK
  <2> QED BY <1>8, <2>2 DEF MomentsOK
<1> QED BY <1>8, <1>10, <1>11, <1>12, <1>13 DEF Leaves

LEMMA DropLeaves ==
  ASSUME FilesOK, NEW p \in Paths
  PROVE  /\ Dropped(p) \in [Inodes -> Inode]
         /\ \A k \in Inodes : /\ Dropped(p)[k].bytes = inode[k].bytes
                              /\ Dropped(p)[k].mtime = inode[k].mtime
                              /\ Dropped(p)[k].ctime = inode[k].ctime \/ Dropped(p)[k].ctime = now
<1>1. CASE entry[p] = Absent
  BY <1>1 DEF Dropped, FilesOK
<1>2. CASE entry[p] # Absent
  <2> DEFINE i == entry[p]
             less == [inode[i] EXCEPT !.links = @ - 1]
             new == [less EXCEPT !.ctime = now]
  <2>1. i \in Inodes /\ inode[i] \in Inode /\ now \in Nat
    BY <1>2, Clock DEF FilesOK
  <2>2. new \in Inode /\ new.bytes = inode[i].bytes /\ new.ctime = now /\ new.mtime = inode[i].mtime
    <3>1. less \in Inode /\ less.bytes = inode[i].bytes /\ less.mtime = inode[i].mtime
      BY <2>1 DEF Inode
    <3> HIDE DEF less
    <3> QED BY <2>1, <3>1 DEF Inode
  <2>3. Dropped(p) = [inode EXCEPT ![i] = new]
    BY <1>2 DEF Dropped, Changed
  <2> HIDE DEF new
  <2> QED BY <2>1, <2>2, <2>3 DEF FilesOK
<1> QED BY <1>1, <1>2

LEMMA Unlinks == ASSUME FilesOK, MomentsOK, Unlink PROVE Leaves
<1>1. PICK p \in Watched :
        /\ entry' = [entry EXCEPT ![p] = Absent]
        /\ Touches(Dropped(p)) /\ UNCHANGED <<setBack, moments>>
  BY DEF Unlink
<1>2. p \in Paths /\ (~Pair => p = "top")
  BY DEF Watched, Paths
<1>3. inode' = Dropped(p) /\ UNCHANGED <<job, steps, before, opened, data, sealed, outcome, moments, setBack>>
  BY <1>1 DEF Touches
<1>4. /\ entry' \in [Paths -> Inodes \cup {Absent}] /\ entry'[p] = Absent
      /\ \A q \in Paths \ {p} : entry'[q] = entry[q]
  BY <1>1, <1>2 DEF FilesOK
<1>5. \A k \in Inodes : Dropped(p)[k].mtime <= now /\ Dropped(p)[k].ctime <= now
  <2>1. \A k \in Inodes : inode[k].mtime \in Nat /\ inode[k].ctime \in Nat
    BY DEF FilesOK, Inode
  <2> QED BY <1>2, <2>1, DropLeaves, Clock DEF FilesOK
<1>6. FilesOK' /\ now' = now + 1
  <2>1. setBack' \in BOOLEAN
    BY <1>1 DEF FilesOK
  <2>2. ~Pair => entry'["dep"] = entry["dep"]
    BY <1>2, <1>4 DEF Paths
  <2> QED BY <1>1, <1>2, <1>4, <1>5, <2>1, <2>2, FilesTouched, DropLeaves, Clock
<1>7. Trust' => Trust
  BY <1>3 DEF Trust
<1>8. \A k \in Inodes :
        \/ inode'[k].bytes = inode[k].bytes /\ Stamp(inode'[k]) = Stamp(inode[k])
        \/ Stamp(inode'[k]) = now
  BY <1>2, <1>3, DropLeaves DEF Stamp
<1>9. MomentsOK'
  BY <1>2, <1>4 DEF MomentsOK
<1> QED BY <1>2, <1>3, <1>4, <1>6, <1>7, <1>8, <1>9 DEF Leaves

LEMMA Replaces == ASSUME FilesOK, MomentsOK, Replace PROVE Leaves
<1>1. PICK p \in Watched, kind \in {"file", "link"}, x \in Payload, owner \in {Owner, "other"} :
        \E i \in Inodes \ InUse :
          /\ Touches([Dropped(p) EXCEPT ![i] =
                        [kind |-> kind, mode |-> Mode, owner |-> owner, links |-> 1,
                         bytes |-> <<x, x>>, mtime |-> now, ctime |-> now]])
          /\ entry' = [entry EXCEPT ![p] = i]
          /\ moments' = moments \cup {[HeldNow EXCEPT ![p] = <<x, x>>]}
          /\ UNCHANGED setBack
  BY DEF Replace
<1> DEFINE new == [kind |-> kind, mode |-> Mode, owner |-> owner, links |-> 1,
                   bytes |-> <<x, x>>, mtime |-> now, ctime |-> now]
<1>2. PICK i \in Inodes \ InUse :
          /\ Touches([Dropped(p) EXCEPT ![i] = new])
          /\ entry' = [entry EXCEPT ![p] = i]
          /\ moments' = moments \cup {[HeldNow EXCEPT ![p] = <<x, x>>]}
          /\ UNCHANGED setBack
  BY <1>1
<1>3. p \in Paths /\ (~Pair => p = "top")
  BY DEF Watched, Paths
<1>4. now \in Nat /\ now > 0
  BY Clock
<1>5. new \in Inode /\ new.bytes = <<x, x>> /\ new.mtime = now /\ new.ctime = now
  BY <1>4 DEF Inode, Kinds, Modes, Owners, Mode
<1> HIDE DEF new
<1> DEFINE files == [Dropped(p) EXCEPT ![i] = new]
<1>6. files \in [Inodes -> Inode] /\ files[i] = new /\ \A k \in Inodes \ {i} : files[k] = Dropped(p)[k]
  BY <1>3, <1>5, DropLeaves
<1>7. \A k \in Inodes : files[k].mtime <= now /\ files[k].ctime <= now
  <2>1. \A k \in Inodes : inode[k].mtime \in Nat /\ inode[k].ctime \in Nat
    BY DEF FilesOK, Inode
  <2> QED BY <1>3, <1>4, <1>5, <1>6, <2>1, DropLeaves DEF FilesOK
<1>8. Touches(files)
  BY <1>2
<1> HIDE DEF files
<1>9. inode' = files /\ UNCHANGED <<job, steps, before, opened, data, sealed, outcome, setBack>>
  BY <1>2, <1>8 DEF Touches
<1>10. /\ entry' \in [Paths -> Inodes \cup {Absent}] /\ entry'[p] = i
       /\ \A q \in Paths \ {p} : entry'[q] = entry[q] /\ entry[q] # i
  BY <1>2, <1>3 DEF FilesOK, InUse
<1>11. FilesOK' /\ now' = now + 1
  <2>1. setBack' \in BOOLEAN
    BY <1>9 DEF FilesOK
  <2>2. ~Pair => entry'["dep"] = entry["dep"]
    BY <1>3, <1>10 DEF Paths
  <2> QED BY <1>6, <1>7, <1>8, <1>10, <2>1, <2>2, FilesTouched, Clock
<1>12. Trust' => Trust
  BY <1>9 DEF Trust
<1>13. \A k \in Inodes :
         \/ inode'[k].bytes = inode[k].bytes /\ Stamp(inode'[k]) = Stamp(inode[k])
         \/ Stamp(inode'[k]) = now
  BY <1>3, <1>5, <1>6, <1>9, DropLeaves DEF Stamp
<1>14. Stamp(inode'[i]) = now
  BY <1>5, <1>6, <1>9 DEF Stamp
<1>15. MomentsOK'
  <2> SUFFICES ASSUME \A q \in Paths : entry'[q] # Absent PROVE HeldNow' \in moments'
    BY DEF MomentsOK
  <2>1. ASSUME NEW q \in Paths PROVE HeldNow'[q] = [HeldNow EXCEPT ![p] = <<x, x>>][q]
    <3>1. HeldNow'[q] = inode'[entry'[q]].bytes /\ entry'[q] \in Inodes
      BY <1>10 DEF HeldNow
    <3>2. CASE q = p
      BY <3>1, <3>2, <1>3, <1>5, <1>6, <1>9, <1>10 DEF HeldNow
    <3>3. CASE q # p
      <4>1. entry'[q] = entry[q] /\ entry[q] # i /\ entry[q] \in Inodes /\ entry[q] # Absent
        BY <1>10, <3>3, <3>1
      <4>2. inode'[entry[q]].bytes = inode[entry[q]].bytes
        BY <1>3, <1>6, <1>9, <4>1, DropLeaves
      <4> QED BY <1>3, <3>1, <3>3, <4>1, <4>2 DEF HeldNow
    <3> QED BY <3>2, <3>3
  <2>2. HeldNow' = [HeldNow EXCEPT ![p] = <<x, x>>]
    BY <2>1, <1>3 DEF HeldNow
  <2> QED BY <1>2, <2>2
<1> QED BY <1>2, <1>3, <1>9, <1>10, <1>11, <1>12, <1>13, <1>14, <1>15 DEF Leaves

LEMMA WriterLeaves == ASSUME FilesOK, MomentsOK, Writer PROVE Leaves
  BY WritesInPlace, Restats, Replaces, Unlinks DEF Writer

(* So what is found as it was opened was never written to.                 *)
LEMMA KeptIsUnchanged ==
  ASSUME FilesOK, Leaves, Trust', NEW p \in Paths, Opened(p)
  PROVE  Opened(p)' /\ (OfOpened(p)' => OfOpened(p) /\ BytesRead(p)' = BytesRead(p))
<1> DEFINE k == opened[p].ino
<1>1. now \in Nat /\ now' = now + 1 /\ job' = job /\ opened' = opened
  BY Clock DEF Leaves
<1>2. k \in Inodes /\ Stamp(opened[p]) \in Nat /\ Stamp(opened[p]) < now
  BY DEF Opened, Stamp, Status
<1>3. Opened(p)'
  BY <1>1, <1>2 DEF Opened, Stamp
<1>4. ASSUME OfOpened(p)' PROVE OfOpened(p) /\ BytesRead(p)' = BytesRead(p)
  <2>1. entry'[p] = k /\ Stamp(inode'[k]) = Stamp(opened[p])
    BY <1>1, <1>4 DEF OfOpened, Stamp
  <2>2. Stamp(inode'[k]) # now
    BY <1>1, <1>2, <2>1
  <2>3. inode'[k].bytes = inode[k].bytes /\ Stamp(inode'[k]) = Stamp(inode[k])
    BY <1>2, <2>2 DEF Leaves
  <2>4. entry[p] = k
    BY <1>2, <2>1, <2>2, ReadAssumption DEF Leaves
  <2> QED BY <1>1, <2>1, <2>3, <2>4 DEF OfOpened, BytesRead
<1> QED BY <1>3, <1>4

LEMMA WriterOnPath ==
  ASSUME FilesOK, Leaves, Trust', StepsOK, NEW p \in Watched, PathOK(p)
  PROVE  PathOK(p)'
<1>1. p \in Paths
  BY DEF Watched, Paths
<1>2. /\ Left' = Left /\ data' = data /\ OpenBy(p)' = OpenBy(p) /\ ReadAt(p)' = ReadAt(p)
      /\ Left \in Nat /\ ReadAt(p) \in Nat /\ OpenBy(p) \in Nat /\ ReadAt(p) <= OpenBy(p)
  <2>1. Left \in Nat
    BY LenProperties DEF StepsOK, Left
  <2> QED BY <2>1 DEF Leaves, Left, OpenBy, ReadAt, Pair
<1>3. CASE Left <= OpenBy(p)
  <2>1. Opened(p)' /\ (OfOpened(p)' => OfOpened(p) /\ BytesRead(p)' = BytesRead(p))
    BY <1>1, <1>3, KeptIsUnchanged DEF PathOK
  <2> QED BY <1>2, <2>1 DEF PathOK, Begins
<1>4. CASE Left > OpenBy(p)
  BY <1>2, <1>4 DEF PathOK
<1> QED BY <1>2, <1>3, <1>4

LEMMA WriterStep ==
  ASSUME ReadInv, Writer, steps # << >>
  PROVE  ReadInv'
<1>1. Leaves /\ FilesOK /\ StepsOK /\ DataOK /\ MomentsOK
  BY WriterLeaves DEF ReadInv, ReadTypeOK
<1>2. UNCHANGED <<job, steps, before, opened, data, sealed, outcome>>
  BY <1>1 DEF Leaves
<1>3. StepsOK' /\ DataOK' /\ Left' = Left /\ Watched' = Watched
  BY <1>1, <1>2 DEF StepsOK, DataOK, Left, Program, Pair, Watched, Leaves
<1>4. ReadTypeOK'
  BY <1>1, <1>3 DEF Leaves, ReadTypeOK
<1>5. ASSUME Trust', outcome' # "rejected"
      PROVE  (\A p \in Watched' : PathOK(p)') /\ (Pair' => PairOK' /\ SealingOK') /\ Found'
  <2>1. Trust /\ outcome # "rejected"
    BY <1>1, <1>2, <1>5 DEF Leaves
  <2>2. (\A p \in Watched : PathOK(p)) /\ (Pair => PairOK /\ SealingOK) /\ Found
    BY <2>1 DEF ReadInv
  <2>3. \A p \in Watched' : PathOK(p)'
    BY <1>1, <1>3, <1>5, <2>2, WriterOnPath
  <2>4. HeldOnce => HeldOnce'
    BY <1>1, <1>2 DEF HeldOnce, Leaves, Pair
  <2>5. Found'
    BY <1>2, <1>3, <2>2, <2>4 DEF Found, Pair
  <2>6. ASSUME Pair PROVE PairOK' /\ SealingOK'
    <3>1. SealingOK'
      BY <1>2, <1>3, <2>2, <2>6 DEF SealingOK, Written
    <3>2. Left = 3 => (OfOpened("dep")' => OfOpened("dep"))
      <4>1. "dep" \in Watched /\ "dep" \in Paths
        BY <2>6 DEF Watched, Paths
      <4>2. Left = 3 => Opened("dep")
        BY <2>2, <2>6, <4>1 DEF PathOK, OpenBy
      <4> QED BY <1>1, <1>5, <4>1, <4>2, KeptIsUnchanged
    <3>3. PairOK'
      BY <1>2, <1>3, <2>2, <2>4, <2>6, <3>2 DEF PairOK
    <3> QED BY <3>1, <3>3
  <2>7. Pair' = Pair
    BY <1>2 DEF Pair
  <2> QED BY <2>3, <2>5, <2>6, <2>7
<1> QED BY <1>4, <1>5 DEF ReadInv

-----------------------------------------------------------------------------
(* The reader leaves the files alone.                                      *)
Reads == UNCHANGED <<fileSystem, job>>

LEMMA ReadsLeaveFiles ==
  ASSUME FilesOK, Reads
  PROVE  /\ FilesOK' /\ now' = now /\ Trust' = Trust /\ Pair' = Pair /\ Watched' = Watched
         /\ (moments' = moments => (MomentsOK => MomentsOK'))
         /\ HeldNow' = HeldNow
  BY DEF Reads, fileSystem, FilesOK, now, Trust, Pair, Watched, MomentsOK, HeldNow

LEMMA TurnsAreTaken ==
  ASSUME StepsOK, NEW op, NEW p, Turn(op, p)
  PROVE  steps # << >> /\ outcome # "rejected" /\ Left \in Nat \ {0}
  BY TurnIsNext DEF StepsOK, Turn

(* Giving up is always right.                                              *)
LEMMA RejectStep ==
  ASSUME ReadTypeOK, Reads, Reject, sealed' = Absent, DataOK', MomentsOK'
  PROVE  ReadInv'
<1>1. FilesOK' /\ job' = job
  BY ReadsLeaveFiles DEF ReadTypeOK, Reads
<1>2. StepsOK' /\ outcome' = "rejected"
  BY <1>1, RejectSteps DEF ReadTypeOK
<1> QED BY <1>1, <1>2 DEF ReadInv, ReadTypeOK

(* Before anything is written out there is nothing.                        *)
LEMMA NothingSealed ==
  ASSUME ReadInv, outcome # "rejected", ~Pair \/ Left >= 3
  PROVE  sealed = Absent
<1>1. CASE ~Pair
  BY <1>1 DEF ReadInv, ReadTypeOK, StepsOK
<1>2. CASE Pair
  <2>1. Trust
    BY <1>2 DEF Trust, Pair
  <2> QED BY <1>2, <2>1 DEF ReadInv, SealingOK
<1> QED BY <1>1, <1>2

LEMMA EmptyBegins ==
  ASSUME FilesOK, NEW p \in Paths, Opened(p), data[p] = << >>
  PROVE  Begins(p)
<1>1. BytesRead(p) \in Seq(Payload)
  BY DEF Opened, Status, BytesRead, FilesOK, Inode
<1> QED BY <1>1, LenProperties DEF Begins

(* A path that is neither opened nor read to its end by a step.            *)
LEMMA PathProceeds ==
  ASSUME FilesOK, Reads, NEW p \in Watched, PathOK(p),
         opened'[p] = opened[p], data'[p] = data[p],
         Left \in Nat \ {0}, Left' = Left - 1, Left # OpenBy(p) + 1, Left # ReadAt(p)
  PROVE  PathOK(p)'
<1>1. /\ OpenBy(p)' = OpenBy(p) /\ ReadAt(p)' = ReadAt(p) /\ OpenBy(p) \in Nat /\ ReadAt(p) \in Nat
      /\ ReadAt(p) <= OpenBy(p)
  BY DEF Reads, OpenBy, ReadAt, Pair
<1>2. /\ Opened(p)' = Opened(p) /\ OfOpened(p)' = OfOpened(p) /\ BytesRead(p)' = BytesRead(p) /\ Begins(p)' = Begins(p)
  BY DEF Reads, fileSystem, Opened, OfOpened, BytesRead, Begins, Stamp, now
<1>3. p \in Paths
  BY DEF Watched, Paths
<1>4. CASE Left = ReadAt(p) + 1
  <2>1. Opened(p) /\ data[p] = << >>
    BY <1>1, <1>4 DEF PathOK
  <2> QED BY <1>1, <1>2, <1>3, <1>4, <2>1, EmptyBegins DEF PathOK
<1>5. CASE Left # ReadAt(p) + 1
  BY <1>1, <1>2, <1>5 DEF PathOK
<1> QED BY <1>4, <1>5

(* Of a file that is there its status is one.                              *)
LEMMA StatIsStatus ==
  ASSUME FilesOK, NEW i \in Inodes
  PROVE  Stat(i) \in Status /\ Stamp(Stat(i)) < now /\ Stamp(Stat(i)) = Stamp(inode[i])
<1>1. inode[i] \in Inode /\ Len(inode[i].bytes) \in Nat
  BY LenProperties DEF FilesOK, Inode
<1> QED BY <1>1 DEF Stat, Status, Stamp, Inode, FilesOK

LEMMA LstatStep ==
  ASSUME ReadInv, NEW p \in Paths, Lstat(p)
  PROVE  ReadInv'
<1>1. ReadTypeOK /\ FilesOK /\ StepsOK /\ DataOK /\ MomentsOK /\ Turn("lstat", p)
  BY DEF ReadInv, ReadTypeOK, Lstat
<1>2. Reads /\ UNCHANGED <<opened, data, sealed>>
  BY DEF Lstat, Reads
<1>3. steps # << >> /\ outcome # "rejected" /\ Left \in Nat \ {0}
  BY <1>1, TurnsAreTaken
<1>4. (~Pair /\ p = "top" /\ Left = 5) \/ (Pair /\ Left = (IF p = "top" THEN 14 ELSE 12))
  <2>1. CASE ~Pair
    BY <1>1, <2>1, TurnOfSingle
  <2>2. CASE Pair
    BY <1>1, <2>2, TurnOfPair
  <2> QED BY <2>1, <2>2
<1>5. DataOK'
  BY <1>1, <1>2, ReadsLeaveFiles DEF DataOK, Lstat
<1>6. MomentsOK'
  BY <1>1, <1>2, ReadsLeaveFiles DEF MomentsOK, Lstat, Reads, fileSystem
<1>7. sealed = Absent
  BY <1>3, <1>4, NothingSealed
<1>8. CASE Reject
  BY <1>1, <1>2, <1>5, <1>6, <1>7, <1>8, RejectStep
<1>9. CASE Proceed /\ entry[p] # Absent /\ Admissible(Stat(entry[p]))
  <2>1. StepsOK' /\ Left' = Left - 1 /\ outcome' # "rejected"
    BY <1>1, <1>2, <1>3, <1>9, ProceedSteps DEF Reads
  <2>2. ReadTypeOK'
    BY <1>1, <1>2, <1>5, <1>6, <2>1, ReadsLeaveFiles DEF ReadTypeOK
  <2>3. ASSUME Trust
        PROVE  (\A q \in Watched' : PathOK(q)') /\ (Pair' => PairOK' /\ SealingOK') /\ Found'
    <3>1. (\A q \in Watched : PathOK(q)) /\ (Pair => PairOK /\ SealingOK)
      BY <1>3, <2>3 DEF ReadInv
    <3>2. ASSUME NEW q \in Watched PROVE PathOK(q)'
      <4>1. Left # OpenBy(q) + 1 /\ Left # ReadAt(q)
        BY <1>4 DEF OpenBy, ReadAt
      <4> QED BY <1>1, <1>2, <1>3, <2>1, <3>1, <4>1, PathProceeds
    <3>3. Watched' = Watched /\ Pair' = Pair
      BY <1>1, <1>2, ReadsLeaveFiles
    <3>4. Found' /\ (Pair => SealingOK')
      BY <1>2, <1>4, <1>7, <2>1, <3>3 DEF Found, SealingOK
    <3>5. ASSUME Pair PROVE PairOK'
      <4>1. CASE p = "top"
        <5>1. before'["top"].size > 0
          BY <1>1, <1>9, <3>5, <4>1 DEF Lstat, Admissible, DataOK
        <5> QED BY <1>4, <2>1, <3>5, <4>1, <5>1 DEF PairOK
      <4>2. CASE p # "top"
        BY <1>2, <1>4, <2>1, <3>1, <3>5, <4>2 DEF PairOK
      <4> QED BY <4>1, <4>2
    <3> QED BY <3>2, <3>3, <3>4, <3>5
  <2> QED BY <1>1, <1>2, <2>2, <2>3, ReadsLeaveFiles DEF ReadInv
<1> QED BY <1>8, <1>9 DEF Lstat, Either

(* What a step done has to keep.                                           *)
StepKeeps ==
  /\ \A q \in Watched : PathOK(q)'
  /\ Pair => PairOK' /\ SealingOK'
  /\ Found'

LEMMA GoodStep ==
  ASSUME ReadInv, Reads, Proceed, steps # << >>, sealed' = sealed \/ Pair, DataOK', MomentsOK',
         Trust => StepKeeps
  PROVE  ReadInv'
<1>1. FilesOK /\ StepsOK /\ MomentsOK
  BY DEF ReadInv, ReadTypeOK
<1>2. FilesOK' /\ Trust' = Trust /\ Pair' = Pair /\ Watched' = Watched
  BY <1>1, ReadsLeaveFiles
<1>3. outcome # "rejected" /\ job' = job
  BY <1>1 DEF StepsOK, Reads
<1>4. StepsOK'
  BY <1>1, <1>3, ProceedSteps
<1> QED BY <1>2, <1>4 DEF ReadInv, ReadTypeOK, StepKeeps

LEMMA OpenStep ==
  ASSUME ReadInv, NEW p \in Paths, OpenPath(p)
  PROVE  ReadInv'
<1>1. ReadTypeOK /\ FilesOK /\ StepsOK /\ DataOK /\ MomentsOK /\ Turn("open", p)
  BY DEF ReadInv, ReadTypeOK, OpenPath
<1>2. Reads /\ UNCHANGED <<data, moments, sealed>>
  BY DEF OpenPath, Reads
<1>3. steps # << >> /\ outcome # "rejected" /\ Left \in Nat \ {0}
  BY <1>1, TurnsAreTaken
<1>4. (~Pair /\ p = "top" /\ Left = 4) \/ (Pair /\ Left = (IF p = "top" THEN 13 ELSE 11))
  <2>1. CASE ~Pair
    BY <1>1, <2>1, TurnOfSingle
  <2>2. CASE Pair
    BY <1>1, <2>2, TurnOfPair
  <2> QED BY <2>1, <2>2
<1>5. entry[p] # Absent => entry[p] \in Inodes /\ Stat(entry[p]) \in Status
  BY <1>1, StatIsStatus DEF FilesOK
<1>6. DataOK'
  BY <1>1, <1>2, <1>5, ReadsLeaveFiles DEF DataOK, OpenPath
<1>7. MomentsOK'
  BY <1>1, <1>2, ReadsLeaveFiles
<1>8. sealed = Absent
  BY <1>3, <1>4, NothingSealed
<1>9. CASE Reject
  BY <1>1, <1>2, <1>6, <1>7, <1>8, <1>9, RejectStep
<1>10. CASE Proceed /\ entry[p] # Absent /\ Same(before[p], Stat(entry[p]))
  <2>1. Left' = Left - 1
    BY <1>1, <1>2, <1>3, <1>10, ProceedSteps DEF Reads
  <2>2. /\ opened'[p] = Stat(entry[p]) /\ opened'[p] \in Status
        /\ \A q \in Paths \ {p} : opened'[q] = opened[q]
    BY <1>1, <1>5, <1>10 DEF OpenPath, DataOK
  <2>3. ASSUME Trust PROVE StepKeeps
    <3>1. (\A q \in Watched : PathOK(q)) /\ (Pair => PairOK /\ SealingOK)
      BY <1>3, <2>3 DEF ReadInv
    <3>2. Pair' = Pair /\ now' = now
      BY <1>1, <1>2, ReadsLeaveFiles
    <3>3. ASSUME NEW q \in Watched, q # p PROVE PathOK(q)'
      <4>1. Left # OpenBy(q) + 1 /\ Left # ReadAt(q) /\ q \in Paths
        BY <1>4, <3>3 DEF OpenBy, ReadAt, Watched, Paths
      <4> QED BY <1>1, <1>2, <1>3, <2>1, <2>2, <3>1, <3>3, <4>1, PathProceeds
    <3>4. ASSUME p \in Watched PROVE PathOK(p)'
      <4>1. Opened(p)'
        BY <1>1, <1>2, <1>5, <1>10, <2>2, <3>2, StatIsStatus DEF Opened, Stamp, Reads
      <4>2. data[p] = << >> /\ data'[p] = << >>
        BY <1>2, <1>4, <3>1, <3>4 DEF PathOK, ReadAt
      <4>3. FilesOK'
        BY <1>1, <1>2, ReadsLeaveFiles
      <4>4. Begins(p)'
        <5>1. BytesRead(p)' \in Seq(Payload)
          BY <4>1, <4>3 DEF Opened, Status, BytesRead, FilesOK, Inode
        <5> QED BY <4>2, <5>1, LenProperties DEF Begins
      <4>5. ReadAt(p)' = ReadAt(p) /\ Left' >= ReadAt(p) /\ Left' \in Nat /\ ReadAt(p) \in Nat
        BY <1>3, <1>4, <2>1, <3>2 DEF ReadAt
      <4> QED BY <4>1, <4>2, <4>4, <4>5 DEF PathOK
    <3>5. Found' /\ (Pair => SealingOK')
      BY <1>2, <1>4, <1>8, <2>1, <3>2 DEF Found, SealingOK
    <3>6. ASSUME Pair PROVE PairOK'
      <4>1. Left' \in {12, 10}
        BY <1>4, <2>1, <3>6
      <4>2. opened'["top"].size > 0
        <5>1. CASE p = "top"
          <6>1. before["top"].size > 0
            BY <1>4, <3>1, <3>6, <5>1 DEF PairOK
          <6>2. before["top"].size = Stat(entry["top"]).size
            BY <1>10, <3>6, <5>1 DEF Same, BinaryIdentity, Identity, Pair
          <6> QED BY <2>2, <5>1, <6>1, <6>2
        <5>2. CASE p # "top"
          BY <1>4, <2>2, <3>1, <3>6, <5>2 DEF PairOK, Paths
        <5> QED BY <5>1, <5>2
      <4> QED BY <4>1, <4>2 DEF PairOK
    <3> QED BY <3>3, <3>4, <3>5, <3>6 DEF StepKeeps
  <2> QED BY <1>2, <1>3, <1>6, <1>7, <1>10, <2>3, GoodStep
<1> QED BY <1>9, <1>10 DEF OpenPath, Either

LEMMA LinksStep ==
  ASSUME ReadInv, Links
  PROVE  ReadInv'
<1>1. ReadTypeOK /\ FilesOK /\ StepsOK /\ DataOK /\ MomentsOK /\ Turn("links", "top")
  BY DEF ReadInv, ReadTypeOK, Links
<1>2. Reads /\ UNCHANGED <<before, opened, data, moments, sealed>>
  BY DEF Links, Reads
<1>3. steps # << >> /\ outcome # "rejected" /\ Left \in Nat \ {0}
  BY <1>1, TurnsAreTaken
<1>4. Pair /\ Left = 10
  BY <1>1, TurnOfSingle, TurnOfPair
<1>5. DataOK' /\ MomentsOK'
  BY <1>1, <1>2, ReadsLeaveFiles DEF DataOK
<1>6. CASE Reject
  BY <1>1, <1>2, <1>3, <1>4, <1>5, <1>6, RejectStep, NothingSealed
<1>7. CASE Proceed
  <2>1. Left' = Left - 1
    BY <1>1, <1>2, <1>3, <1>7, ProceedSteps DEF Reads
  <2>2. ASSUME Trust PROVE StepKeeps
    <3>1. (\A q \in Watched : PathOK(q)) /\ PairOK /\ SealingOK
      BY <1>3, <1>4, <2>2 DEF ReadInv
    <3>2. Pair'
      BY <1>1, <1>2, <1>4, ReadsLeaveFiles
    <3>3. ASSUME NEW q \in Watched PROVE PathOK(q)'
      <4>1. Left # OpenBy(q) + 1 /\ Left # ReadAt(q)
        BY <1>4 DEF OpenBy, ReadAt
      <4> QED BY <1>1, <1>2, <1>3, <2>1, <3>1, <4>1, PathProceeds
    <3>4. PairOK' /\ SealingOK' /\ Found'
      BY <1>2, <1>4, <2>1, <3>1, <3>2 DEF PairOK, SealingOK, Found
    <3> QED BY <3>3, <3>4 DEF StepKeeps
  <2> QED BY <1>2, <1>3, <1>5, <1>7, <2>2, GoodStep
<1> QED BY <1>6, <1>7 DEF Links, Either

LEMMA CompareStep ==
  ASSUME ReadInv, CompareBytes
  PROVE  ReadInv'
<1>1. ReadTypeOK /\ FilesOK /\ StepsOK /\ DataOK /\ MomentsOK /\ Turn("compare", "top")
  BY DEF ReadInv, ReadTypeOK, CompareBytes
<1>2. Reads /\ UNCHANGED <<before, opened, data, moments, sealed>>
  BY DEF CompareBytes, Reads
<1>3. steps # << >> /\ outcome # "rejected" /\ Left \in Nat \ {0}
  BY <1>1, TurnsAreTaken
<1>4. Pair /\ Left = 7
  BY <1>1, TurnOfSingle, TurnOfPair
<1>5. DataOK' /\ MomentsOK'
  BY <1>1, <1>2, ReadsLeaveFiles DEF DataOK
<1>6. CASE Reject
  BY <1>1, <1>2, <1>3, <1>4, <1>5, <1>6, RejectStep, NothingSealed
<1>7. CASE Proceed /\ data.top = data.dep
  <2>1. Left' = Left - 1
    BY <1>1, <1>2, <1>3, <1>7, ProceedSteps DEF Reads
  <2>2. ASSUME Trust PROVE StepKeeps
    <3>1. (\A q \in Watched : PathOK(q)) /\ PairOK /\ SealingOK
      BY <1>3, <1>4, <2>2 DEF ReadInv
    <3>2. Pair'
      BY <1>1, <1>2, <1>4, ReadsLeaveFiles
    <3>3. ASSUME NEW q \in Watched PROVE PathOK(q)'
      <4>1. Left # OpenBy(q) + 1 /\ Left # ReadAt(q)
        BY <1>4 DEF OpenBy, ReadAt
      <4> QED BY <1>1, <1>2, <1>3, <2>1, <3>1, <4>1, PathProceeds
    <3>4. data["top"] = data["dep"]
      BY <1>7
    <3>5. PairOK' /\ SealingOK' /\ Found'
      BY <1>2, <1>4, <2>1, <3>1, <3>2, <3>4 DEF PairOK, SealingOK, Found
    <3> QED BY <3>3, <3>5 DEF StepKeeps
  <2> QED BY <1>2, <1>3, <1>5, <1>7, <2>2, GoodStep
<1> QED BY <1>6, <1>7 DEF CompareBytes, Either

LEMMA CheckStep ==
  ASSUME ReadInv, NEW p \in Paths, CheckOpened(p)
  PROVE  ReadInv'
<1>1. ReadTypeOK /\ FilesOK /\ StepsOK /\ DataOK /\ MomentsOK /\ Turn("check", p)
  BY DEF ReadInv, ReadTypeOK, CheckOpened
<1>2. Reads /\ UNCHANGED <<before, opened, data, moments, sealed>>
  BY DEF CheckOpened, Reads
<1>3. steps # << >> /\ outcome # "rejected" /\ Left \in Nat \ {0}
  BY <1>1, TurnsAreTaken
<1>4. (~Pair /\ Left = 2) \/ (Pair /\ Left \in {6, 5})
  <2>1. CASE ~Pair
    BY <1>1, <2>1, TurnOfSingle
  <2>2. CASE Pair
    BY <1>1, <2>2, TurnOfPair
  <2> QED BY <2>1, <2>2
<1>5. DataOK' /\ MomentsOK'
  BY <1>1, <1>2, ReadsLeaveFiles DEF DataOK
<1>6. CASE Reject
  BY <1>1, <1>2, <1>3, <1>4, <1>5, <1>6, RejectStep, NothingSealed
<1>7. CASE Proceed
  <2>1. Left' = Left - 1
    BY <1>1, <1>2, <1>3, <1>7, ProceedSteps DEF Reads
  <2>2. ASSUME Trust PROVE StepKeeps
    <3>1. (\A q \in Watched : PathOK(q)) /\ (Pair => PairOK /\ SealingOK)
      BY <1>3, <2>2 DEF ReadInv
    <3>2. Pair' = Pair
      BY <1>1, <1>2, ReadsLeaveFiles
    <3>3. ASSUME NEW q \in Watched PROVE PathOK(q)'
      <4>1. Left # OpenBy(q) + 1 /\ Left # ReadAt(q)
        BY <1>4 DEF OpenBy, ReadAt
      <4> QED BY <1>1, <1>2, <1>3, <2>1, <3>1, <4>1, PathProceeds
    <3>4. Found'
      BY <1>4, <2>1, <3>2 DEF Found
    <3>5. ASSUME Pair PROVE PairOK' /\ SealingOK'
      BY <1>2, <1>4, <2>1, <3>1, <3>2, <3>5 DEF PairOK, SealingOK
    <3> QED BY <3>3, <3>4, <3>5 DEF StepKeeps
  <2> QED BY <1>2, <1>3, <1>5, <1>7, <2>2, GoodStep
<1> QED BY <1>6, <1>7 DEF CheckOpened, Either

(* The next bytes are the next of what was kept, and the end is its end.   *)
LEMMA ReadOn ==
  ASSUME FilesOK, DataOK, Trust, NEW p \in Watched, PathOK(p), Left = ReadAt(p),
         Len(data[p]) < Len(BytesRead(p)), Reads, UNCHANGED <<steps, opened>>,
         data' = [data EXCEPT ![p] = Append(@, BytesRead(p)[Len(data[p]) + 1])]
  PROVE  PathOK(p)'
<1> DEFINE got == Len(data[p])
           next == BytesRead(p)[got + 1]
<1>1. p \in Paths /\ data[p] \in Seq(Payload) /\ got \in Nat
  BY LenProperties DEF Watched, Paths, DataOK
<1>2. Opened(p)
  BY DEF PathOK, OpenBy, ReadAt
<1>3. BytesRead(p) \in Seq(Payload) /\ Len(BytesRead(p)) \in Nat
  BY <1>2, LenProperties DEF Opened, Status, BytesRead, FilesOK, Inode
<1>4. next \in Payload
  BY <1>1, <1>3, ElementOfSeq
<1>5. data'[p] = Append(data[p], next)
  BY <1>1 DEF DataOK
<1>6. /\ Len(data'[p]) = got + 1
      /\ \A k \in 1..got : data'[p][k] = data[p][k]
      /\ data'[p][got + 1] = next
  <2> HIDE DEF next
  <2> QED BY <1>1, <1>4, <1>5, AppendProperties
<1>7. /\ Opened(p)' = Opened(p) /\ OfOpened(p)' = OfOpened(p) /\ BytesRead(p)' = BytesRead(p)
      /\ Left' = Left /\ ReadAt(p)' = ReadAt(p) /\ ReadAt(p) \in Nat
  BY DEF Reads, fileSystem, Opened, OfOpened, BytesRead, Stamp, now, Left, ReadAt, Pair
<1>8. OfOpened(p) => Begins(p)'
  <2> SUFFICES ASSUME OfOpened(p) PROVE Begins(p)'
    OBVIOUS
  <2>1. \A k \in 1..got : data[p][k] = BytesRead(p)[k]
    BY <1>1 DEF PathOK, Begins, ReadAt
  <2>2. ASSUME NEW k \in 1..Len(data'[p]) PROVE data'[p][k] = BytesRead(p)[k]
    <3>1. CASE k = got + 1
      BY <1>6, <3>1
    <3>2. CASE k # got + 1
      BY <1>1, <1>6, <2>1, <3>2
    <3> QED BY <3>1, <3>2
  <2> QED BY <1>1, <1>3, <1>6, <1>7, <2>2 DEF Begins
<1> QED BY <1>2, <1>7, <1>8 DEF PathOK

LEMMA ReadToTheEnd ==
  ASSUME FilesOK, DataOK, Trust, NEW p \in Watched, PathOK(p), Left = ReadAt(p), Left' = Left - 1,
         ~(Len(data[p]) < Len(BytesRead(p))), Reads, UNCHANGED <<opened, data>>
  PROVE  PathOK(p)'
<1>1. p \in Paths /\ data[p] \in Seq(Payload) /\ Len(data[p]) \in Nat
  BY LenProperties DEF Watched, Paths, DataOK
<1>2. Opened(p)
  BY DEF PathOK, OpenBy, ReadAt
<1>3. BytesRead(p) \in Seq(Payload) /\ Len(BytesRead(p)) \in Nat
  BY <1>2, LenProperties DEF Opened, Status, BytesRead, FilesOK, Inode
<1>4. /\ Opened(p)' = Opened(p) /\ OfOpened(p)' = OfOpened(p) /\ BytesRead(p)' = BytesRead(p) /\ Begins(p)' = Begins(p)
      /\ ReadAt(p)' = ReadAt(p) /\ ReadAt(p) \in Nat
  BY DEF Reads, fileSystem, Opened, OfOpened, BytesRead, Begins, Stamp, now, ReadAt, Pair
<1>5. OfOpened(p) => Begins(p)
  BY DEF PathOK, ReadAt
<1>6. OfOpened(p) => data[p] = BytesRead(p)
  <2> SUFFICES ASSUME OfOpened(p) PROVE data[p] = BytesRead(p)
    OBVIOUS
  <2>1. Len(data[p]) = Len(BytesRead(p))
    BY <1>1, <1>3, <1>5 DEF Begins
  <2> QED BY <1>1, <1>3, <1>5, <2>1, SeqEqual DEF Begins
<1> QED BY <1>2, <1>4, <1>5, <1>6 DEF PathOK

LEMMA ChunkStep ==
  ASSUME ReadInv, NEW p \in Paths, Chunk(p)
  PROVE  ReadInv'
<1>1. ReadTypeOK /\ FilesOK /\ StepsOK /\ DataOK /\ MomentsOK /\ Turn("read", p)
  BY DEF ReadInv, ReadTypeOK, Chunk
<1>2. Reads /\ UNCHANGED <<before, opened, moments, sealed>>
  BY DEF Chunk, Reads
<1>3. steps # << >> /\ outcome # "rejected" /\ Left \in Nat \ {0}
  BY <1>1, TurnsAreTaken
<1>4. (~Pair /\ p = "top" /\ Left = 3) \/ (Pair /\ Left = (IF p = "top" THEN 9 ELSE 8))
  <2>1. CASE ~Pair
    BY <1>1, <2>1, TurnOfSingle
  <2>2. CASE Pair
    BY <1>1, <2>2, TurnOfPair
  <2> QED BY <2>1, <2>2
<1>5. p \in Watched /\ Left = ReadAt(p)
  BY <1>4 DEF Watched, ReadAt
<1>6. sealed = Absent
  BY <1>3, <1>4, NothingSealed
<1>7. MomentsOK' /\ Pair' = Pair
  BY <1>1, <1>2, ReadsLeaveFiles
<1>8. CASE Len(data[p]) < Len(BytesRead(p))
  <2>1. /\ data' = [data EXCEPT ![p] = Append(@, BytesRead(p)[Len(data[p]) + 1])]
        /\ Reject \/ UNCHANGED <<steps, outcome>>
    BY <1>8 DEF Chunk, BytesRead
  <2>2. ASSUME Trust PROVE data' \in [Paths -> Seq(Payload)]
    <3>1. Opened(p) /\ data[p] \in Seq(Payload)
      BY <1>1, <1>3, <1>5, <2>2 DEF ReadInv, PathOK, OpenBy, ReadAt, DataOK
    <3>2. BytesRead(p) \in Seq(Payload) /\ Len(BytesRead(p)) \in Nat /\ Len(data[p]) \in Nat
      BY <1>1, <3>1, LenProperties DEF Opened, Status, BytesRead, FilesOK, Inode
    <3>3. BytesRead(p)[Len(data[p]) + 1] \in Payload
      BY <1>8, <3>2, ElementOfSeq
    <3>4. Append(data[p], BytesRead(p)[Len(data[p]) + 1]) \in Seq(Payload)
      BY <3>1, <3>3, AppendProperties
    <3> QED BY <1>1, <2>1, <2>2, <3>4 DEF DataOK
  <2>3. DataOK'
    BY <1>1, <1>2, <2>2, ReadsLeaveFiles DEF DataOK
  <2>4. CASE Reject
    BY <1>1, <1>2, <1>6, <1>7, <2>3, <2>4, RejectStep
  <2>5. CASE UNCHANGED <<steps, outcome>>
    <3>1. StepsOK' /\ Left' = Left
      BY <1>1, <1>2, <2>5 DEF StepsOK, Left, Program, Pair, Reads
    <3>2. ASSUME Trust PROVE StepKeeps
      <4>1. (\A q \in Watched : PathOK(q)) /\ (Pair => PairOK /\ SealingOK) /\ Found
        BY <1>3, <3>2 DEF ReadInv
      <4>2. PathOK(p)'
        BY <1>1, <1>2, <1>5, <1>8, <2>1, <2>5, <3>2, <4>1, ReadOn
      <4>3. ASSUME NEW q \in Watched, q # p PROVE PathOK(q)'
        <5>1. data'[q] = data[q]
          BY <2>1, <4>3 DEF Watched, Paths
        <5> QED BY <1>2, <3>1, <4>1, <5>1
              DEF PathOK, Opened, OfOpened, BytesRead, Begins, Stamp, OpenBy, ReadAt, now, Pair, Reads, fileSystem
      <4>4. Found' /\ (Pair => SealingOK')
        BY <1>2, <1>4, <1>6, <1>7, <3>1 DEF Found, SealingOK
      <4>5. ASSUME Pair PROVE PairOK'
        <5>1. Left <= 8 => data'["top"] = data["top"]
          BY <1>4, <2>1, <4>5
        <5> QED BY <1>2, <1>4, <3>1, <4>1, <4>5, <5>1 DEF PairOK
      <4> QED BY <4>2, <4>3, <4>4, <4>5 DEF StepKeeps
    <3>3. FilesOK' /\ Trust' = Trust /\ Watched' = Watched /\ outcome' = outcome
      BY <1>1, <1>2, <2>5, ReadsLeaveFiles
    <3> QED BY <1>3, <1>7, <2>3, <3>1, <3>2, <3>3 DEF ReadInv, ReadTypeOK, StepKeeps
  <2> QED BY <2>1, <2>4, <2>5
<1>9. CASE ~(Len(data[p]) < Len(BytesRead(p)))
  <2>1. data' = data /\ Either(Pair => Len(data[p]) = opened[p].size)
    BY <1>9 DEF Chunk, BytesRead
  <2>2. DataOK'
    BY <1>1, <1>2, <2>1, ReadsLeaveFiles DEF DataOK
  <2>3. CASE Reject
    BY <1>1, <1>2, <1>6, <1>7, <2>2, <2>3, RejectStep
  <2>4. CASE Proceed /\ (Pair => Len(data[p]) = opened[p].size)
    <3>1. Left' = Left - 1
      BY <1>1, <1>2, <1>3, <2>4, ProceedSteps DEF Reads
    <3>2. ASSUME Trust PROVE StepKeeps
      <4>1. (\A q \in Watched : PathOK(q)) /\ (Pair => PairOK /\ SealingOK)
        BY <1>3, <3>2 DEF ReadInv
      <4>2. PathOK(p)'
        BY <1>1, <1>2, <1>5, <1>9, <2>1, <3>1, <3>2, <4>1, ReadToTheEnd
      <4>3. ASSUME NEW q \in Watched, q # p PROVE PathOK(q)'
        <5>1. Left # OpenBy(q) + 1 /\ Left # ReadAt(q)
          BY <1>4, <4>3 DEF OpenBy, ReadAt, Watched, Paths
        <5> QED BY <1>1, <1>2, <1>3, <2>1, <3>1, <4>1, <4>3, <5>1, PathProceeds
      <4>4. Found' /\ (Pair => SealingOK')
        BY <1>2, <1>4, <1>6, <1>7, <3>1 DEF Found, SealingOK
      <4>5. ASSUME Pair PROVE PairOK'
        BY <1>2, <1>4, <2>1, <2>4, <3>1, <4>1, <4>5 DEF PairOK
      <4> QED BY <4>2, <4>3, <4>4, <4>5 DEF StepKeeps
    <3> QED BY <1>2, <1>3, <1>7, <2>2, <2>4, <3>2, GoodStep
  <2> QED BY <2>1, <2>3, <2>4 DEF Either
<1> QED BY <1>8, <1>9

LEMMA AgainStep ==
  ASSUME ReadInv, NEW p \in Paths, CheckPath(p)
  PROVE  ReadInv'
<1>1. ReadTypeOK /\ FilesOK /\ StepsOK /\ DataOK /\ MomentsOK /\ Turn("again", p)
  BY DEF ReadInv, ReadTypeOK, CheckPath
<1>2. Reads /\ UNCHANGED <<before, opened, data, moments, sealed>>
  BY DEF CheckPath, Reads
<1>3. steps # << >> /\ outcome # "rejected" /\ Left \in Nat \ {0}
  BY <1>1, TurnsAreTaken
<1>4. (~Pair /\ p = "top" /\ Left = 1) \/ (Pair /\ Left = (IF p = "top" THEN 4 ELSE 3))
  <2>1. CASE ~Pair
    BY <1>1, <2>1, TurnOfSingle
  <2>2. CASE Pair
    BY <1>1, <2>2, TurnOfPair
  <2> QED BY <2>1, <2>2
<1>5. DataOK' /\ MomentsOK'
  BY <1>1, <1>2, ReadsLeaveFiles DEF DataOK
<1>6. sealed = Absent
  BY <1>3, <1>4, NothingSealed
<1>7. CASE Reject
  BY <1>1, <1>2, <1>5, <1>6, <1>7, RejectStep
<1>8. CASE Proceed /\ entry[p] # Absent /\ Same(opened[p], Stat(entry[p]))
  <2>1. Left' = Left - 1
    BY <1>1, <1>2, <1>3, <1>8, ProceedSteps DEF Reads
  <2>2. ASSUME Trust PROVE StepKeeps
    <3>1. (\A q \in Watched : PathOK(q)) /\ (Pair => PairOK /\ SealingOK)
      BY <1>3, <2>2 DEF ReadInv
    <3>2. Pair' = Pair
      BY <1>1, <1>2, ReadsLeaveFiles
    <3>3. ASSUME NEW q \in Watched PROVE PathOK(q)'
      <4>1. Left # OpenBy(q) + 1 /\ Left # ReadAt(q)
        BY <1>4 DEF OpenBy, ReadAt
      <4> QED BY <1>1, <1>2, <1>3, <2>1, <3>1, <4>1, PathProceeds
    <3>4. OfOpened(p)
      <4>1. opened[p].ino = entry[p] /\ Stamp(opened[p]) = Stamp(Stat(entry[p]))
        BY <1>8 DEF Same, BinaryIdentity, Identity, Stat, Stamp
      <4> QED BY <1>1, <1>8, <4>1, StatIsStatus DEF OfOpened, FilesOK
    <3>5. p \in Watched /\ Left < ReadAt(p)
      BY <1>4 DEF Watched, ReadAt
    <3>6. HeldNow[p] = data[p]
      BY <1>8, <3>1, <3>4, <3>5 DEF PathOK, HeldNow, OfOpened, BytesRead
    <3>7. CASE ~Pair
      <4>1. HeldNow \in moments
        BY <1>1, <1>4, <1>8, <3>7, ReadAssumption DEF FilesOK, MomentsOK, Paths
      <4>2. HeldOnce'
        BY <1>2, <1>4, <3>2, <3>6, <3>7, <4>1 DEF HeldOnce
      <4> QED BY <3>2, <3>3, <3>7, <4>2 DEF Found, StepKeeps
    <3>8. CASE Pair /\ p = "top"
      <4>1. OfOpened("dep") => HeldOnce
        <5> SUFFICES ASSUME OfOpened("dep") PROVE HeldOnce
          OBVIOUS
        <5>1. "dep" \in Watched /\ Left < ReadAt("dep")
          BY <1>4, <3>8 DEF Watched, Paths, ReadAt
        <5>2. opened["dep"] \in Status
          BY <1>4, <3>1, <3>8, <5>1 DEF PathOK, OpenBy, Opened
        <5>3. entry["dep"] # Absent /\ data["dep"] = inode[entry["dep"]].bytes
          BY <3>1, <5>1, <5>2, ReadAssumption DEF PathOK, OfOpened, BytesRead, Status
        <5>4. HeldNow["dep"] = data["dep"]
          BY <5>3 DEF HeldNow, Paths
        <5>5. data["top"] = data["dep"]
          BY <1>4, <3>1, <3>8 DEF PairOK
        <5>6. HeldNow \in moments
          BY <1>1, <1>8, <3>8, <5>3 DEF MomentsOK, Paths
        <5> QED BY <3>6, <3>8, <5>4, <5>5, <5>6 DEF HeldOnce
      <4>2. (OfOpened("dep"))' = OfOpened("dep") /\ HeldOnce' = HeldOnce
        BY <1>2, <3>2 DEF OfOpened, Stamp, Reads, fileSystem, HeldOnce
      <4>3. PairOK'
        BY <1>2, <1>4, <2>1, <3>1, <3>8, <4>1, <4>2 DEF PairOK
      <4>4. SealingOK' /\ Found'
        BY <1>2, <1>4, <1>6, <2>1, <3>2, <3>8 DEF SealingOK, Found
      <4> QED BY <3>3, <4>3, <4>4 DEF StepKeeps
    <3>9. CASE Pair /\ p = "dep"
      <4>1. HeldOnce
        BY <1>4, <3>1, <3>4, <3>9 DEF PairOK
      <4>2. HeldOnce'
        BY <1>2, <3>2, <4>1 DEF HeldOnce
      <4>3. PairOK'
        BY <1>2, <1>4, <2>1, <3>1, <3>9 DEF PairOK
      <4>4. SealingOK'
        BY <1>2, <1>4, <1>6, <2>1, <3>9 DEF SealingOK
      <4> QED BY <3>3, <4>2, <4>3, <4>4 DEF StepKeeps, Found
    <3> QED BY <3>7, <3>8, <3>9 DEF Paths
  <2> QED BY <1>2, <1>3, <1>5, <1>8, <2>2, GoodStep
<1> QED BY <1>7, <1>8 DEF CheckPath, Either

LEMMA WriteStep ==
  ASSUME ReadInv, WritePrivate
  PROVE  ReadInv'
<1>1. ReadTypeOK /\ FilesOK /\ StepsOK /\ DataOK /\ MomentsOK /\ Turn("write", "top")
  BY DEF ReadInv, ReadTypeOK, WritePrivate
<1>2. Reads /\ UNCHANGED <<before, opened, data, moments>>
  BY DEF WritePrivate, Reads
<1>3. steps # << >> /\ outcome # "rejected" /\ Left \in Nat \ {0}
  BY <1>1, TurnsAreTaken
<1>4. Pair /\ Left = 2 /\ Trust
  BY <1>1, TurnOfSingle, TurnOfPair DEF Trust, Pair
<1>5. DataOK' /\ MomentsOK'
  BY <1>1, <1>2, ReadsLeaveFiles DEF DataOK
<1>6. (\A q \in Watched : PathOK(q)) /\ PairOK /\ SealingOK /\ Found
  BY <1>3, <1>4 DEF ReadInv
<1>7. /\ sealed = Absent \/ \E n \in 1..Len(data["top"]) : sealed = Written("600", n)
      /\ Len(data["top"]) > 0 /\ data["top"] \in Seq(Payload) /\ Len(data["top"]) \in Nat
  BY <1>1, <1>4, <1>6, LenProperties DEF SealingOK, PairOK, DataOK, Paths
<1> DEFINE done == IF sealed = Absent THEN << >> ELSE sealed.bytes
<1>8. ASSUME NEW n \in 1..Len(data["top"]) PROVE Len(Written("600", n).bytes) = n
  <2>1. Written("600", n).bytes = SubSeq(data["top"], 1, n)
    BY DEF Written
  <2> QED BY <1>7, <2>1
<1>9. CASE Len(done) < Len(data["top"])
  <2>1. PICK n \in (Len(done) + 1)..Len(data["top"]) : sealed' = Written("600", n)
    BY <1>9 DEF WritePrivate, Written
  <2>2. Len(done) \in Nat
    BY <1>7, <1>8, EmptySeq
  <2>3. n \in 1..Len(data["top"])
    BY <1>7, <2>1, <2>2
  <2>4. UNCHANGED <<steps, outcome>> /\ Left' = Left /\ Pair' = Pair
    BY <1>2, <1>9 DEF WritePrivate, Left, Pair, Reads
  <2>5. StepsOK'
    BY <1>1, <1>3, <1>4, <2>4 DEF StepsOK, Left, Program
  <2>6. \A q \in Watched : PathOK(q)'
    BY <1>2, <1>6, <2>4
      DEF PathOK, Opened, OfOpened, BytesRead, Begins, Stamp, OpenBy, ReadAt, now, Pair, Reads, fileSystem
  <2>7. SealingOK'
    BY <1>2, <1>4, <2>1, <2>3, <2>4 DEF SealingOK, Written
  <2>8. PairOK' /\ Found'
    BY <1>2, <1>4, <1>6, <2>4 DEF PairOK, Found, HeldOnce
  <2>9. FilesOK' /\ Watched' = Watched
    BY <1>1, <1>2, ReadsLeaveFiles
  <2> QED BY <1>5, <2>5, <2>6, <2>7, <2>8, <2>9 DEF ReadInv, ReadTypeOK
<1>10. CASE ~(Len(done) < Len(data["top"]))
  <2>1. Proceed /\ sealed' = sealed
    BY <1>10 DEF WritePrivate
  <2>2. Left' = Left - 1
    BY <1>1, <1>2, <1>3, <2>1, ProceedSteps DEF Reads
  <2>3. sealed = Written("600", Len(data["top"]))
    <3>1. sealed # Absent
      BY <1>7, <1>10, EmptySeq
    <3>2. PICK n \in 1..Len(data["top"]) : sealed = Written("600", n)
      BY <1>7, <3>1
    <3>3. n = Len(data["top"])
      BY <1>7, <1>8, <1>10, <3>1, <3>2
    <3> QED BY <3>2, <3>3
  <2>4. StepKeeps
    <3>1. ASSUME NEW q \in Watched PROVE PathOK(q)'
      <4>1. Left # OpenBy(q) + 1 /\ Left # ReadAt(q)
        BY <1>4 DEF OpenBy, ReadAt
      <4> QED BY <1>1, <1>2, <1>3, <1>6, <2>2, <4>1, PathProceeds
    <3>2. SealingOK'
      BY <1>2, <1>4, <2>1, <2>2, <2>3 DEF SealingOK, Written
    <3>3. PairOK' /\ Found'
      <4>1. HeldOnce'
        BY <1>2, <1>4, <1>6 DEF Found, HeldOnce, Reads, Pair
      <4> QED BY <1>2, <1>4, <1>6, <2>2, <4>1 DEF PairOK, Found
    <3> QED BY <3>1, <3>2, <3>3 DEF StepKeeps
  <2> QED BY <1>2, <1>3, <1>5, <2>1, <2>4, GoodStep
<1> QED BY <1>9, <1>10

LEMMA ChmodStep ==
  ASSUME ReadInv, ChmodSealed
  PROVE  ReadInv'
<1>1. ReadTypeOK /\ FilesOK /\ StepsOK /\ DataOK /\ MomentsOK /\ Turn("chmod", "top")
  BY DEF ReadInv, ReadTypeOK, ChmodSealed
<1>2. Reads /\ UNCHANGED <<before, opened, data, moments>> /\ Proceed
  BY DEF ChmodSealed, Reads
<1>3. steps # << >> /\ outcome # "rejected" /\ Left \in Nat \ {0}
  BY <1>1, TurnsAreTaken
<1>4. Pair /\ Left = 1 /\ Trust
  BY <1>1, TurnOfSingle, TurnOfPair DEF Trust, Pair
<1>5. DataOK' /\ MomentsOK'
  BY <1>1, <1>2, ReadsLeaveFiles DEF DataOK
<1>6. (\A q \in Watched : PathOK(q)) /\ PairOK /\ SealingOK /\ Found
  BY <1>3, <1>4 DEF ReadInv
<1>7. Left' = 0
  BY <1>1, <1>2, <1>3, <1>4, ProceedSteps DEF Reads
<1>8. sealed' = Written("555", Len(data["top"]))
  BY <1>4, <1>6 DEF SealingOK, Written, ChmodSealed
<1>9. StepKeeps
  <2>1. ASSUME NEW q \in Watched PROVE PathOK(q)'
    <3>1. Left # OpenBy(q) + 1 /\ Left # ReadAt(q)
      BY <1>4 DEF OpenBy, ReadAt
    <3> QED BY <1>1, <1>2, <1>3, <1>4, <1>6, <1>7, <3>1, PathProceeds
  <2>2. SealingOK'
    BY <1>2, <1>7, <1>8 DEF SealingOK, Written
  <2>3. HeldOnce'
    BY <1>2, <1>4, <1>6 DEF Found, HeldOnce, Reads, Pair
  <2>4. PairOK' /\ Found'
    BY <1>2, <1>4, <1>6, <1>7, <2>3 DEF PairOK, Found
  <2> QED BY <2>1, <2>2, <2>4 DEF StepKeeps
<1> QED BY <1>2, <1>3, <1>4, <1>5, <1>9, GoodStep

-----------------------------------------------------------------------------
LEMMA ReadInitially == ReadInit => ReadInv
<1> SUFFICES ASSUME ReadInit PROVE ReadInv
  OBVIOUS
<1> DEFINE i == CHOOSE k \in Inodes : TRUE
<1>1. PICK j \in Inodes, first \in Starts, second \in Starts :
        /\ inode = [k \in Inodes |-> FreshFile(IF k = j THEN second ELSE first, Mode, IF i = j THEN 2 ELSE 1)]
        /\ entry = [top |-> i, dep |-> j]
  BY DEF ReadInit
<1>2. i \in Inodes /\ job \in Jobs /\ ReadEdits[job] \in Nat
  BY ReadAssumption DEF ReadInit, Jobs
<1>3. inode \in [Inodes -> Inode] /\ \A k \in Inodes : inode[k].mtime = 0 /\ inode[k].ctime = 0
  <2>1. first \in Seq(Payload) /\ second \in Seq(Payload)
    BY ReadAssumption
  <2> QED BY <1>1, <2>1 DEF FreshFile, Inode, Kinds, Modes, Owners, Mode
<1>4. entry \in [Paths -> Inodes \cup {Absent}] /\ entry["dep"] = j /\ entry["top"] = i
  BY <1>1, <1>2 DEF Paths
<1>5. FilesOK
  <2>1. writes = ReadEdits[job] /\ setBack = FALSE
    BY DEF ReadInit
  <2>2. now = 1 /\ writes \in 0..ReadEdits[job]
    BY <1>2, <2>1 DEF now
  <2>3. setBack \in BOOLEAN
    BY <2>1
  <2>4. \A k \in Inodes : inode[k].mtime < now /\ inode[k].ctime < now
    BY <1>3, <2>2
  <2> QED BY <1>2, <1>3, <1>4, <2>2, <2>3, <2>4 DEF FilesOK
<1>6. MomentsOK
  BY DEF ReadInit, MomentsOK
<1>7. steps = Program /\ sealed = Absent /\ outcome = "none"
  BY DEF ReadInit, Program, Pair
<1>8. Program \in Seq(Operations \X Paths) /\ Len(Program) = (IF Pair THEN 14 ELSE 5)
  <2> DEFINE S == Operations \X Paths
  <2>1. PairReads \in [1..14 -> S]
    BY DEF PairReads, Operations, Paths
  <2>2. Single \in [1..5 -> S]
    BY DEF Single, Operations, Paths
  <2>3. \A n \in Nat : [1..n -> S] \subseteq Seq(S)
    BY SeqDef
  <2>4. PairReads \in Seq(S) /\ Single \in Seq(S)
    BY <2>1, <2>2, <2>3
  <2> QED BY <2>4, Programs DEF Program
<1>9. StepsOK
  BY <1>7, <1>8 DEF StepsOK, Left
<1>10. data = [p \in Paths |-> << >>] /\ opened = [p \in Paths |-> Absent] /\ before = [p \in Paths |-> Absent]
  BY DEF ReadInit
<1>11. DataOK
  BY <1>10, EmptySeq DEF DataOK
<1>12. Left = (IF Pair THEN 14 ELSE 5)
  BY <1>7, <1>8 DEF Left
<1>13. \A p \in Watched : PathOK(p)
  BY <1>10, <1>12 DEF PathOK, OpenBy, ReadAt, Watched, Paths
<1>14. (Pair => PairOK /\ SealingOK) /\ Found
  BY <1>7, <1>12 DEF PairOK, SealingOK, Found
<1> QED BY <1>5, <1>6, <1>9, <1>11, <1>13, <1>14 DEF ReadInv, ReadTypeOK

LEMMA ReadPreserved == ReadInv /\ [ReadNext]_readVars => ReadInv'
<1> SUFFICES ASSUME ReadInv, [ReadNext]_readVars PROVE ReadInv'
  OBVIOUS
<1>1. CASE UNCHANGED readVars
  <2>1. ReadTypeOK' = ReadTypeOK
    <3>1. FilesOK' = FilesOK /\ MomentsOK' = MomentsOK
      BY <1>1 DEF readVars, fileSystem, FilesOK, MomentsOK, Pair, HeldNow, now
    <3>2. StepsOK' = StepsOK /\ DataOK' = DataOK
      BY <1>1 DEF readVars, fileSystem, StepsOK, DataOK, Trust, Left, Program, Pair
    <3> QED BY <3>1, <3>2 DEF ReadTypeOK
  <2>2. \A p : PathOK(p)' = PathOK(p)
    BY <1>1 DEF readVars, fileSystem, PathOK, Opened, OfOpened, BytesRead, Begins, Stamp, OpenBy, ReadAt, Left, Pair, now
  <2>3. PairOK' = PairOK /\ SealingOK' = SealingOK /\ Found' = Found
    BY <1>1 DEF readVars, fileSystem, PairOK, SealingOK, Found, OfOpened, Stamp, HeldOnce, Written, Left, Pair
  <2>4. Trust' = Trust /\ Pair' = Pair /\ Watched' = Watched /\ outcome' = outcome
    BY <1>1 DEF readVars, fileSystem, Trust, Pair, Watched
  <2> QED BY <2>1, <2>2, <2>3, <2>4 DEF ReadInv
<1>2. CASE steps # << >> /\ Writer
  BY <1>2, WriterStep
<1>3. CASE Reader
  BY <1>3, LstatStep, OpenStep, ChunkStep, CheckStep, AgainStep, LinksStep, CompareStep, WriteStep,
     ChmodStep DEF Reader
<1> QED BY <1>1, <1>2, <1>3 DEF ReadNext

LEMMA ReadInvImplies == ReadInv => ReadIsOneMoment
<1> SUFFICES ASSUME ReadInv PROVE ReadIsOneMoment
  OBVIOUS
<1>1. ASSUME outcome = "accepted", ~Pair, setBack => job = "report"
      PROVE  \E m \in moments : m.top = data.top
  <2>1. Trust
    BY <1>1 DEF Trust
  <2>2. Left = 0
    BY <1>1, EmptySeq DEF ReadInv, ReadTypeOK, StepsOK, Left
  <2> QED BY <1>1, <2>1, <2>2 DEF ReadInv, Found, HeldOnce
<1>2. ASSUME TakenForBinary
      PROVE  \E m \in moments : m.top = sealed.bytes /\ m.dep = sealed.bytes
  <2>1. Pair /\ outcome # "rejected" /\ Trust
    BY <1>2 DEF ReadInv, ReadTypeOK, StepsOK, TakenForBinary, Trust, Pair
  <2>2. SealingOK /\ Found /\ data["top"] \in Seq(Payload) /\ Left \in Nat
    BY <2>1, LenProperties DEF ReadInv, ReadTypeOK, DataOK, StepsOK, Paths, Left
  <2>3. Left = 0
    BY <1>2, <2>2 DEF SealingOK, Written, TakenForBinary
  <2>4. sealed.bytes = SubSeq(data["top"], 1, Len(data["top"]))
    BY <2>2, <2>3 DEF SealingOK, Written
  <2>5. sealed.bytes = data["top"]
    BY <2>2, <2>4, SubSeqProperties
  <2> QED BY <2>1, <2>2, <2>3, <2>5 DEF Found, HeldOnce
<1> QED BY <1>1, <1>2 DEF ReadIsOneMoment

(* stable_read, seal_cargo_proof_binary and emit beside a writer: what is  *)
(* accepted is what the path, or both paths, held at one moment; for any   *)
(* number of steps of the writer, any files, contents and bounds.          *)
THEOREM ReadsAreOfOneMoment == ReadSpec => []ReadIsOneMoment
<1>1. ReadInit => ReadInv
  BY ReadInitially
<1>2. ReadInv /\ [ReadNext]_readVars => ReadInv'
  BY ReadPreserved
<1>3. ReadInv => ReadIsOneMoment
  BY ReadInvImplies
<1> QED BY <1>1, <1>2, <1>3, PTL DEF ReadSpec

-----------------------------------------------------------------------------
-----------------------------------------------------------------------------
(***************************************************************************)
(* SealedCommand: the status returned is of the whole command.             *)
(***************************************************************************)
CommandTypeOK ==
  /\ sup \in {"wait", "list", "signal", "reap", "late", "look", "last look", "ended"}
  /\ written \in Nat /\ total \in Nat /\ total <= written
  /\ retained \in Seq(Nat)

Moods == {"running", "deaf", "dying", "zombie", "free"}
ProcsOK == procs \in [Pids -> Moods]

(* The supervisor: nothing is done before the command has ended, and its   *)
(* status is given when the namespace is empty; empty, it stays so.        *)
SupervisionInv ==
  /\ sup # "wait" => exit # Unended
  /\ (sup = "ended" /\ result # 1) => Descendants = {} /\ result = StatusOf(exit)

(* The capture: what it keeps is the beginning, and after the end of file  *)
(* nobody is left to print.                                                *)
Beginning(bytes, n) == Len(bytes) = n /\ \A i \in 1..n : bytes[i] = i
CaptureInv ==
  /\ Beginning(retained, Least(total, MaxDiagnostics))
  /\ output # << >> =>
       /\ sup = "ended" /\ Descendants = {} /\ total = written
       /\ output = <<Capped>>

CommandInv == CommandTypeOK /\ ProcsOK /\ SupervisionInv /\ CaptureInv

-----------------------------------------------------------------------------
LEMMA LeastIs == \A a, b \in Nat : Least(a, b) \in Nat /\ Least(a, b) <= a /\ Least(a, b) <= b
  BY DEF Least

LEMMA FunctionIsSeq ==
  ASSUME NEW n \in Nat, NEW f \in [1..n -> Nat]
  PROVE  f \in Seq(Nat) /\ Len(f) = n /\ DOMAIN f = 1..n
<1>1. f \in Seq(Nat)
  BY SeqDef
<1>2. DOMAIN f = 1..n /\ DOMAIN f = 1..Len(f) /\ Len(f) \in Nat
  BY <1>1, LenProperties
<1> QED BY <1>1, <1>2

LEMMA EmptyMeansFree ==
  ASSUME Descendants = {}
  PROVE  \A p \in Pids : procs[p] = "free"
  BY DEF Descendants, Free

(* Nobody is left in an empty namespace to fork, to print or to end.       *)
LEMMA EmptyIsStill ==
  ASSUME Descendants = {}, NEW p \in Pids
  PROVE  ~Fork(p) /\ ~Prints(p) /\ ~End(p) /\ ~WaitForChild(p)
  BY EmptyMeansFree DEF Fork, Prints, End, WaitForChild, Alive

(* A chunk of the pipe prolongs the beginning that is retained, up to the  *)
(* bound.                                                                  *)
LEMMA ChunkProlongs ==
  ASSUME NEW kept \in Seq(Nat), NEW read \in Nat, NEW n \in Nat,
         Beginning(kept, Least(read, MaxDiagnostics))
  PROVE  LET more == [i \in 1..Least(n, MaxDiagnostics - Len(kept)) |-> read + i]
         IN /\ kept \o more \in Seq(Nat)
            /\ Beginning(kept \o more, Least(read + n, MaxDiagnostics))
<1> DEFINE k == Least(n, MaxDiagnostics - Len(kept))
           more == [i \in 1..k |-> read + i]
<1>1. Len(kept) \in Nat /\ Len(kept) <= MaxDiagnostics /\ Len(kept) <= read
  BY LeastIs, DiagnosticsAssumption DEF Beginning
<1>2. k \in Nat
  <2>1. MaxDiagnostics - Len(kept) \in Nat
    BY <1>1, DiagnosticsAssumption
  <2> QED BY <2>1, LeastIs
<1>3. more \in Seq(Nat) /\ Len(more) = k /\ \A i \in 1..k : more[i] = read + i
  <2>1. \A i \in 1..k : read + i \in Nat
    BY <1>2
  <2>2. more \in [1..k -> Nat]
    BY <2>1
  <2>3. more \in Seq(Nat) /\ Len(more) = k
    BY <1>2, <2>2, FunctionIsSeq
  <2>4. \A i \in 1..k : more[i] = read + i
    OBVIOUS
  <2> QED BY <2>3, <2>4
<1>4. Len(kept) + k = Least(read + n, MaxDiagnostics)
  BY <1>1, DiagnosticsAssumption DEF Least, Beginning
<1>5. k = 0 \/ Len(kept) = read
  BY <1>1, DiagnosticsAssumption DEF Least, Beginning
<1>6. /\ kept \o more \in Seq(Nat) /\ Len(kept \o more) = Len(kept) + k
      /\ \A i \in 1..Len(kept) + k :
           (kept \o more)[i] = IF i <= Len(kept) THEN kept[i] ELSE more[i - Len(kept)]
  <2> HIDE DEF more, k
  <2> QED BY <1>3, ConcatProperties
<1>7. ASSUME NEW i \in 1..Len(kept) + k
      PROVE  (kept \o more)[i] = i
  <2>1. CASE i <= Len(kept)
    <3>1. (kept \o more)[i] = kept[i]
      BY <2>1, <1>6
    <3> QED BY <3>1, <2>1, <1>1 DEF Beginning
  <2>2. CASE i > Len(kept)
    <3>1. (kept \o more)[i] = more[i - Len(kept)] /\ i - Len(kept) \in 1..k /\ Len(kept) = read
      BY <2>2, <1>1, <1>2, <1>5, <1>6
    <3>2. more[i - Len(kept)] = read + (i - Len(kept))
      BY <3>1, <1>3
    <3>3. i \in Nat /\ read + (i - Len(kept)) = i
      BY <3>1, <1>1, <1>2
    <3> QED BY <3>1, <3>2, <3>3
  <2> QED BY <2>1, <2>2, <1>1, <1>2
<1> QED BY <1>4, <1>6, <1>7 DEF Beginning

-----------------------------------------------------------------------------
LEMMA CommandInitially == CommandInit => CommandInv
<1> SUFFICES ASSUME CommandInit PROVE CommandInv
  OBVIOUS
<1>1. CommandTypeOK /\ ProcsOK /\ SupervisionInv
  BY DEF CommandInit, CommandTypeOK, ProcsOK, Moods, SupervisionInv
<1>2. CaptureInv
  BY DiagnosticsAssumption DEF CommandInit, CaptureInv, Beginning, Least
<1> QED BY <1>1, <1>2 DEF CommandInv

(* The supervisor and the processes: what they leave to be shown.          *)
LEMMA SupervisionPreserved == CommandInv /\ [CommandNext]_commandVars => ProcsOK' /\ SupervisionInv'
<1> SUFFICES ASSUME CommandInv, [CommandNext]_commandVars
             PROVE  ProcsOK' /\ SupervisionInv'
  OBVIOUS
<1> USE DEF CommandInv, ProcsOK, SupervisionInv, supervision, capturing
<1>1. ASSUME NEW p \in Pids, Fork(p) PROVE ProcsOK' /\ SupervisionInv'
  BY <1>1, EmptyIsStill DEF Fork, Free, Moods
<1>2. ASSUME NEW p \in Pids, Prints(p) PROVE ProcsOK' /\ SupervisionInv'
  BY <1>2 DEF Prints, Descendants, Free, StatusOf
<1>3. ASSUME NEW p \in Pids, End(p) PROVE ProcsOK' /\ SupervisionInv'
  <2>1. ProcsOK'
    BY <1>3 DEF End, Moods
  <2>2. ~(sup = "ended" /\ result # 1)
    BY <1>3, EmptyIsStill
  <2>3. exit # Unended => exit' = exit
    BY <1>3 DEF End
  <2> QED BY <1>3, <2>1, <2>2, <2>3 DEF End
<1>4. ASSUME NEW p \in Pids, WaitForChild(p) PROVE ProcsOK' /\ SupervisionInv'
  <2>1. ProcsOK'
    BY <1>4 DEF WaitForChild, Reaped, Moods
  <2>2. ~(sup = "ended" /\ result # 1)
    BY <1>4, EmptyIsStill
  <2> QED BY <1>4, <2>1, <2>2 DEF WaitForChild
<1>5. ASSUME Wait PROVE ProcsOK' /\ SupervisionInv'
  BY <1>5 DEF Wait, Reaped, Moods
<1>6. ASSUME List \/ Signalled \/ NextRound PROVE ProcsOK' /\ SupervisionInv'
  BY <1>6 DEF List, Signalled, NextRound
<1>7. ASSUME NEW p \in Pids, Signal(p) PROVE ProcsOK' /\ SupervisionInv'
  BY <1>7 DEF Signal, Moods
<1>8. ASSUME Reap PROVE ProcsOK' /\ SupervisionInv'
  BY <1>8 DEF Reap, Reaped, Moods
<1>9. ASSUME Look \/ LastLook PROVE ProcsOK' /\ SupervisionInv'
  BY <1>9 DEF Look, LastLook, Return, Descendants, Free, StatusOf
<1>10. ASSUME Tick PROVE ProcsOK' /\ SupervisionInv'
  BY <1>10 DEF Tick
<1>11. ASSUME NamespaceEnds PROVE ProcsOK' /\ SupervisionInv'
  BY <1>11 DEF NamespaceEnds, Reaped, Moods
<1>12. ASSUME Read \/ Capture \/ UNCHANGED commandVars PROVE ProcsOK' /\ SupervisionInv'
  BY <1>12 DEF Read, Capture, commandVars, Descendants, Free, StatusOf
<1> QED
  BY <1>1, <1>2, <1>3, <1>4, <1>5, <1>6, <1>7, <1>8, <1>9, <1>10, <1>11, <1>12
  DEF CommandNext, Supervise

(* The bytes: only Prints, Read and Capture touch them.                    *)
LEMMA CapturePreserved == CommandInv /\ [CommandNext]_commandVars => CommandTypeOK' /\ CaptureInv'
<1> SUFFICES ASSUME CommandInv, [CommandNext]_commandVars
             PROVE  CommandTypeOK' /\ CaptureInv'
  OBVIOUS
<1>1. CommandTypeOK /\ CaptureInv
  BY DEF CommandInv
<1>2. ASSUME UNCHANGED <<written, total, retained, output>>,
             sup = "ended" => sup' = "ended",
             output # << >> => Descendants' = {},
             sup' \in {"wait", "list", "signal", "reap", "late", "look", "last look", "ended"}
      PROVE  CommandTypeOK' /\ CaptureInv'
  BY <1>1, <1>2 DEF CommandTypeOK, CaptureInv, Capped
<1>3. output # << >> => sup = "ended" /\ Descendants = {}
  BY <1>1 DEF CaptureInv
<1>4. sup \in {"wait", "list", "signal", "reap", "late", "look", "last look", "ended"}
  BY <1>1 DEF CommandTypeOK
<1>5. ASSUME NEW p \in Pids, Fork(p) \/ End(p) \/ WaitForChild(p) PROVE CommandTypeOK' /\ CaptureInv'
  BY <1>2, <1>3, <1>4, <1>5, EmptyIsStill DEF Fork, End, WaitForChild, supervision, capturing
<1>6. ASSUME NEW p \in Pids, Prints(p) PROVE CommandTypeOK' /\ CaptureInv'
  <2>1. output = << >>
    BY <1>3, <1>6, EmptyIsStill
  <2>2. /\ written \in Nat /\ written' = written + 1
        /\ UNCHANGED <<sup, total, retained, output>>
    BY <1>1, <1>6 DEF Prints, CommandTypeOK, supervision, capturing
  <2>3. total \in Nat /\ total <= written /\ retained \in Seq(Nat)
    BY <1>1 DEF CommandTypeOK
  <2>4. total <= written + 1 /\ written + 1 \in Nat
    BY <2>2, <2>3
  <2>5. CommandTypeOK'
    BY <1>4, <2>2, <2>3, <2>4 DEF CommandTypeOK
  <2> QED BY <1>1, <2>1, <2>2, <2>5 DEF CaptureInv
<1>7. ASSUME Supervise PROVE CommandTypeOK' /\ CaptureInv'
  <2>1. sup # "ended" /\ sup' \in {"wait", "list", "signal", "reap", "late", "look", "last look", "ended"}
    BY <1>7 DEF Supervise, Wait, List, Signal, Signalled, Reap, NextRound, Look, LastLook, Return
  <2>2. UNCHANGED <<written, total, retained, output>>
    BY <1>7 DEF Supervise, Wait, List, Signal, Signalled, Reap, NextRound, Look, LastLook, capturing
  <2> QED BY <1>2, <1>3, <2>1, <2>2
<1>8. ASSUME Tick \/ NamespaceEnds PROVE CommandTypeOK' /\ CaptureInv'
  BY <1>2, <1>3, <1>4, <1>8 DEF Tick, NamespaceEnds, supervision, capturing
<1>9. ASSUME Read PROVE CommandTypeOK' /\ CaptureInv'
  <2>1. PICK n \in 1..(written - total) :
          /\ total' = total + n
          /\ retained' = retained \o
               [i \in 1..Least(n, MaxDiagnostics - Len(retained)) |-> total + i]
    BY <1>9 DEF Read
  <2>2. /\ written \in Nat /\ total \in Nat /\ retained \in Seq(Nat)
        /\ Beginning(retained, Least(total, MaxDiagnostics))
    BY <1>1 DEF CommandTypeOK, CaptureInv
  <2>3. n \in Nat /\ total + n \in Nat /\ total + n <= written
    BY <2>2
  <2>4. retained' \in Seq(Nat) /\ Beginning(retained', Least(total + n, MaxDiagnostics))
    BY <2>1, <2>2, <2>3, ChunkProlongs
  <2>5. output = << >> /\ UNCHANGED <<sup, written, output>>
    BY <1>9 DEF Read, supervision
  <2>6. CommandTypeOK'
    BY <1>1, <2>1, <2>3, <2>4, <2>5 DEF CommandTypeOK
  <2> QED BY <2>1, <2>4, <2>5, <2>6 DEF CaptureInv
<1>10. ASSUME Capture PROVE CommandTypeOK' /\ CaptureInv'
  <2>1. /\ total = written /\ sup = "ended" /\ Descendants = {} /\ output' = <<Capped>>
        /\ UNCHANGED <<procs, sup, written, total, retained>>
    BY <1>10 DEF Capture, supervision
  <2>2. Descendants' = Descendants /\ Capped' = Capped
    BY <2>1 DEF Descendants, Free, Capped
  <2>3. CommandTypeOK'
    BY <1>1, <2>1 DEF CommandTypeOK
  <2> QED BY <1>1, <2>1, <2>2, <2>3 DEF CaptureInv
<1>11. ASSUME UNCHANGED commandVars PROVE CommandTypeOK' /\ CaptureInv'
  BY <1>2, <1>3, <1>4, <1>11 DEF commandVars, supervision, capturing, Descendants, Free
<1> QED BY <1>5, <1>6, <1>7, <1>8, <1>9, <1>10, <1>11 DEF CommandNext

LEMMA CommandPreserved == CommandInv /\ [CommandNext]_commandVars => CommandInv'
  BY SupervisionPreserved, CapturePreserved DEF CommandInv

(* What is captured is all of it, or the beginning and the mark.           *)
LEMMA CappedIsTold ==
  ASSUME NEW M \in Nat \ {0}, NEW kept \in Seq(Nat), NEW read \in Nat,
         Beginning(kept, Least(read, M))
  PROVE  /\ read <= M => kept = [k \in 1..read |-> k] /\ Len(kept) = read
         /\ read > M => /\ [kept EXCEPT ![M] = Mark] = Append([k \in 1..(M - 1) |-> k], Mark)
                        /\ Len([kept EXCEPT ![M] = Mark]) = M
<1>1. ASSUME read <= M PROVE kept = [k \in 1..read |-> k] /\ Len(kept) = read
  <2>1. Least(read, M) = read
    BY <1>1 DEF Least
  <2>2. Len(kept) = read /\ \A k \in 1..read : kept[k] = k
    BY <2>1 DEF Beginning
  <2>3. kept \in [1..read -> Nat]
    BY <2>2, LenProperties
  <2> QED BY <2>2, <2>3
<1>2. ASSUME read > M
      PROVE  /\ [kept EXCEPT ![M] = Mark] = Append([k \in 1..(M - 1) |-> k], Mark)
             /\ Len([kept EXCEPT ![M] = Mark]) = M
  <2> DEFINE marked == [kept EXCEPT ![M] = Mark]
             begun == [k \in 1..(M - 1) |-> k]
             ended == Append(begun, Mark)
  <2>1. Least(read, M) = M
    BY <1>2 DEF Least
  <2>2. Len(kept) = M /\ \A k \in 1..M : kept[k] = k
    BY <2>1 DEF Beginning
  <2>3. M \in 1..Len(kept) /\ Mark \in Nat /\ M - 1 \in Nat
    BY <2>2 DEF Mark
  <2>4. /\ marked \in Seq(Nat) /\ Len(marked) = M
        /\ \A k \in 1..M : marked[k] = IF k = M THEN Mark ELSE kept[k]
    BY <2>2, <2>3, ExceptSeq
  <2>5. begun \in Seq(Nat) /\ Len(begun) = M - 1 /\ \A k \in 1..(M - 1) : begun[k] = k
    <3>1. begun \in [1..(M - 1) -> Nat] /\ \A k \in 1..(M - 1) : begun[k] = k
      BY <2>3
    <3> HIDE DEF begun
    <3> QED BY <3>1, <2>3, FunctionIsSeq
  <2>6. /\ ended \in Seq(Nat) /\ Len(ended) = (M - 1) + 1
        /\ \A k \in 1..(M - 1) : ended[k] = begun[k]
        /\ ended[(M - 1) + 1] = Mark
    <3> HIDE DEF begun
    <3> QED BY <2>3, <2>5, AppendProperties
  <2>7. Len(ended) = M /\ \A k \in 1..M : ended[k] = IF k = M THEN Mark ELSE k
    <3> HIDE DEF ended, begun
    <3> QED BY <2>5, <2>6
  <2> HIDE DEF marked, ended
  <2>8. \A k \in 1..Len(marked) : marked[k] = ended[k]
    BY <2>2, <2>4, <2>7
  <2>9. marked = ended
    BY <2>4, <2>6, <2>7, <2>8, SeqEqual
  <2> QED BY <2>4, <2>9 DEF marked, ended
<1> QED BY <1>1, <1>2

(* What is captured is all of it, or the beginning and the mark.           *)
LEMMA CommandInvImplies == CommandInv => StatusIsOfAllOfIt
<1> SUFFICES ASSUME CommandInv PROVE StatusIsOfAllOfIt
  OBVIOUS
<1>1. (sup = "ended" /\ result # 1) => Descendants = {} /\ result = StatusOf(exit)
  BY DEF CommandInv, SupervisionInv
<1>2. /\ total \in Nat /\ written \in Nat /\ retained \in Seq(Nat)
      /\ Beginning(retained, Least(total, MaxDiagnostics))
      /\ output # << >> => output = <<Capped>> /\ total = written
  BY DEF CommandInv, CommandTypeOK, CaptureInv
<1>3. ASSUME NEW bytes \in {output[i] : i \in DOMAIN output}
      PROVE  /\ Len(bytes) <= MaxDiagnostics
             /\ \/ bytes = [i \in 1..written |-> i]
                \/ /\ written > Len(bytes)
                   /\ bytes = Append([i \in 1..(Len(bytes) - 1) |-> i], Mark)
  <2>1. output # << >>
    OBVIOUS
  <2>2. bytes = Capped /\ total = written
    <3>1. output = <<Capped>>
      BY <1>2, <2>1
    <3> QED BY <1>2, <2>1, <3>1
  <2>3. CASE written <= MaxDiagnostics
    <3>1. Capped = retained
      BY <1>2, <2>2, <2>3, DiagnosticsAssumption DEF Capped
    <3> QED BY <1>2, <2>2, <2>3, <3>1, CappedIsTold, DiagnosticsAssumption
  <2>4. CASE written > MaxDiagnostics
    <3>1. Capped = [retained EXCEPT ![MaxDiagnostics] = Mark]
      BY <2>2, <2>4 DEF Capped
    <3>2. /\ bytes = Append([k \in 1..(MaxDiagnostics - 1) |-> k], Mark)
          /\ Len(bytes) = MaxDiagnostics
      BY <1>2, <2>2, <2>4, <3>1, CappedIsTold, DiagnosticsAssumption
    <3> QED BY <2>4, <3>2, DiagnosticsAssumption
  <2>5. written <= MaxDiagnostics \/ written > MaxDiagnostics
    BY <1>2, DiagnosticsAssumption
  <2> QED BY <2>3, <2>4, <2>5
<1> QED BY <1>1, <1>3 DEF StatusIsOfAllOfIt

(* run-sealed-command-supervisor.py, terminate_all and main: a status of   *)
(* the command's own means that its namespace is empty, and what capture   *)
(* leaves is what was printed or its marked beginning; for any number of   *)
(* processes, ends of the command and bounds of the diagnostics.           *)
THEOREM CommandIsWhole == CommandSpec => []StatusIsOfAllOfIt
<1>1. CommandInit => CommandInv
  BY CommandInitially
<1>2. CommandInv /\ [CommandNext]_commandVars => CommandInv'
  BY CommandPreserved
<1>3. CommandInv => StatusIsOfAllOfIt
  BY CommandInvImplies
<1> QED BY <1>1, <1>2, <1>3, PTL DEF CommandSpec

-----------------------------------------------------------------------------
-----------------------------------------------------------------------------
(***************************************************************************)
(* CorpusTree: an accepted corpus is the reviewed one.                     *)
(***************************************************************************)
(* The plan corpus: the inventory below vectors names all of its files ... *)
LEMMA PlanVectorsArePinned ==
  ASSUME PlanTopology, ReviewedRoots
  PROVE  /\ VectorFiles = DOMAIN PlanVectors
         /\ \A p \in VectorFiles : vectors[p].data = PlanVectors[p].data
<1> DEFINE nested == vectors[<<"SUMS">>].data
<1>1. nested = PlanVectors[<<"SUMS">>].data /\ <<"SUMS">> \in VectorFiles
  BY DEF ReviewedRoots
<1>2. DOMAIN nested = VectorFiles \ {<<"SUMS">>} /\ \A p \in DOMAIN nested : nested[p] = vectors[p].data
  BY DEF PlanTopology, NestedExact, SumsHold
<1>3. /\ <<"SUMS">> \in DOMAIN PlanVectors
      /\ DOMAIN PlanVectors[<<"SUMS">>].data = DOMAIN PlanVectors \ {<<"SUMS">>}
      /\ \A p \in DOMAIN PlanVectors \ {<<"SUMS">>} :
           PlanVectors[<<"SUMS">>].data[p] = PlanVectors[p].data
  BY ReviewedAssumption DEF InventoryOf
<1>4. VectorFiles = DOMAIN PlanVectors
  BY <1>1, <1>2, <1>3
<1>5. ASSUME NEW p \in VectorFiles PROVE vectors[p].data = PlanVectors[p].data
  <2>1. CASE p = <<"SUMS">>
    BY <2>1, <1>1
  <2>2. CASE p # <<"SUMS">>
    BY <2>2, <1>1, <1>2, <1>3, <1>4
  <2> QED BY <2>1, <2>2
<1> QED BY <1>4, <1>5

(* ... and the one above it the rest, but for the two that pin it.         *)
LEMMA PlanTopIsPinned ==
  ASSUME PlanTopology, ReviewedRoots
  PROVE  /\ TopFiles = PlanNames
         /\ \A n \in TopFiles : top[n].data = PlanTop[n].data
<1> DEFINE sums == top["SUMS"].data
<1>1. /\ {"SUMS", "ROOT"} \subseteq TopFiles
      /\ sums = PlanTop["SUMS"].data /\ top["ROOT"].data = PlanTop["ROOT"].data
  BY DEF ReviewedRoots
<1>2. /\ DOMAIN top = PlanNames \union {"vectors"} /\ top["vectors"].kind = "dir"
      /\ DOMAIN sums.files = PlanNames \ {"SUMS", "ROOT"} /\ SumsHold(sums.files, top)
  BY <1>1 DEF PlanTopology
<1>3. \A n \in PlanNames \ {"SUMS", "ROOT"} :
        n \in TopFiles /\ top[n].data = PlanTop["SUMS"].data.files[n]
  BY <1>1, <1>2 DEF SumsHold, TopFiles
<1>4. \A n \in PlanNames \ {"SUMS", "ROOT"} : PlanTop["SUMS"].data.files[n] = PlanTop[n].data
  BY ReviewedAssumption DEF InventoryOf
<1>5. "vectors" \notin TopFiles
  BY <1>2 DEF TopFiles
<1>6. TopFiles = PlanNames
  BY <1>1, <1>2, <1>3, <1>5 DEF TopFiles, PlanNames
<1> QED BY <1>1, <1>3, <1>4, <1>6

(* The facts corpus: everything there is has a name in an inventory.       *)
LEMMA FactsArePinned ==
  ASSUME FactsTopology, top["SUMS"].data = FactsTop["SUMS"].data
  PROVE  /\ \A n \in FactsNames : top[n].data = FactsTop[n].data /\ top[n].links = 1
         /\ VectorFiles = DOMAIN FactsVectors
         /\ \A p \in VectorFiles : vectors[p].data = FactsVectors[p].data /\ vectors[p].links = 1
<1> DEFINE nested == vectors[<<"SUMS">>].data
           sums == top["SUMS"].data
<1>1. /\ <<"SUMS">> \in VectorFiles /\ sums.vectors = nested
      /\ DOMAIN nested = VectorFiles \ {<<"SUMS">>} /\ \A p \in DOMAIN nested : nested[p] = vectors[p].data
      /\ \A n \in FactsNames \ {"SUMS"} : sums.files[n] = top[n].data
  BY DEF FactsTopology, SumsHold
<1>2. /\ <<"SUMS">> \in DOMAIN FactsVectors /\ FactsTop["SUMS"].data.vectors = FactsVectors[<<"SUMS">>].data
      /\ DOMAIN FactsVectors[<<"SUMS">>].data = DOMAIN FactsVectors \ {<<"SUMS">>}
      /\ \A p \in DOMAIN FactsVectors \ {<<"SUMS">>} :
           FactsVectors[<<"SUMS">>].data[p] = FactsVectors[p].data
      /\ \A n \in FactsNames \ {"SUMS"} : FactsTop["SUMS"].data.files[n] = FactsTop[n].data
  BY ReviewedAssumption DEF InventoryOf
<1>3. nested = FactsVectors[<<"SUMS">>].data
  BY <1>1, <1>2
<1>4. VectorFiles = DOMAIN FactsVectors
  BY <1>1, <1>2, <1>3
<1>5. ASSUME NEW p \in VectorFiles
      PROVE  vectors[p].data = FactsVectors[p].data /\ vectors[p].links = 1
  <2>1. vectors[p].links = 1
    BY DEF FactsTopology, VectorFiles
  <2>2. CASE p = <<"SUMS">>
    BY <2>1, <2>2, <1>3
  <2>3. CASE p # <<"SUMS">>
    BY <2>1, <2>3, <1>1, <1>2, <1>3, <1>4
  <2> QED BY <2>2, <2>3
<1>6. ASSUME NEW n \in FactsNames PROVE top[n].data = FactsTop[n].data /\ top[n].links = 1
  <2>1. top[n].links = 1
    BY DEF FactsTopology
  <2>2. CASE n = "SUMS"
    BY <2>1, <2>2
  <2>3. CASE n # "SUMS"
    BY <2>1, <2>3, <1>1, <1>2
  <2> QED BY <2>2, <2>3
<1> QED BY <1>4, <1>5, <1>6

LEMMA AcceptanceIsReview == AcceptedIsReviewed
<1>1. ASSUME corpus = "plan", ReviewedRoots, TreeAccepted PROVE PlanTopology
  BY <1>1 DEF TreeAccepted, PlanAccepted
<1>2. ASSUME corpus = "facts", TreeAccepted PROVE FactsTopology
  BY <1>2 DEF TreeAccepted
<1> QED BY <1>1, <1>2, PlanVectorsArePinned, PlanTopIsPinned, FactsArePinned DEF AcceptedIsReviewed

(* check-ordinary-wallet-plan-conformance.py, validate_topology and run,   *)
(* and verify_checksums of check-wallet-facts-conformance.py: accepted     *)
(* with the pinned inventories, a corpus is the reviewed one, file by      *)
(* file, whatever was done to the directory before.                        *)
THEOREM AcceptedCorpusIsReviewed == TreeSpec => []AcceptedIsReviewed
<1>1. AcceptedIsReviewed
  BY AcceptanceIsReview
<1> QED BY <1>1, PTL

-----------------------------------------------------------------------------
(* The case table holds the inputs.  An edit leaves the kind of a source   *)
(* model what it was, so the models of the boundary table stay boundaries. *)
KeptModel(p, e) ==
  /\ {"kind", "data"} \subseteq DOMAIN e /\ p \in DOMAIN PlanVectors
  /\ "kind" \in DOMAIN e.data /\ e.data.kind = PlanVectors[p].data.kind
KindsKept ==
  corpus = "plan" => \A p \in VectorFiles : p[1] = "source-models" => KeptModel(p, vectors[p])

(* One entry replaced by one that is kept, or by none.                     *)
LEMMA EditKeepsKinds ==
  ASSUME KindsKept, NEW p, NEW e, EditBelow(p, e),
         corpus = "plan" /\ p[1] = "source-models" /\ e # None /\ e.kind = "file" => KeptModel(p, e)
  PROVE  KindsKept'
<1>1. vectors' = Differ(vectors, p, e) /\ corpus' = corpus
  BY DEF EditBelow
<1> SUFFICES ASSUME corpus = "plan",
                    NEW q \in DOMAIN vectors', vectors'[q].kind = "file", q[1] = "source-models"
             PROVE  KeptModel(q, vectors'[q])
  BY <1>1 DEF KindsKept, VectorFiles, KeptModel
<1>2. vectors'[q] = IF q = p THEN e ELSE vectors[q]
  BY <1>1 DEF Differ
<1>3. CASE q = p
  BY <1>1, <1>2, <1>3 DEF Differ
<1>4. CASE q # p
  BY <1>1, <1>2, <1>4 DEF Differ, KindsKept, VectorFiles
<1> QED
  BY <1>3, <1>4

(* The data of an entry replaced, by data of the same kind.                *)
Wrote(p, d) ==
  /\ EditBelow(p, [vectors[p] EXCEPT !.data = d])
  /\ "kind" \in DOMAIN vectors[p].data => "kind" \in DOMAIN d /\ d.kind = vectors[p].data.kind

(* A file misplaced, or a model changed.                                   *)
LEMMA ModelEditsKeepKinds ==
  ASSUME KindsKept, MisplaceVector \/ WriteModel
  PROVE  KindsKept'
<1>1. CASE MisplaceVector
  <2>1. PICK p \in VectorFiles : \E e \in Misplaced(vectors[p]) : EditBelow(p, e)
    BY <1>1 DEF MisplaceVector
  <2>2. PICK e \in Misplaced(vectors[p]) : EditBelow(p, e)
    BY <2>1
  <2>3. ASSUME corpus = "plan", p[1] = "source-models", e # None, e.kind = "file"
        PROVE  KeptModel(p, e)
    <3>1. KeptModel(p, vectors[p])
      BY <2>3 DEF KindsKept
    <3>2. e.data = vectors[p].data /\ DOMAIN e = DOMAIN vectors[p]
      BY <2>2, <2>3, <3>1 DEF Misplaced, KeptModel
    <3> QED
      BY <3>1, <3>2 DEF KeptModel
  <2> QED
    BY <2>2, <2>3, EditKeepsKinds
<1>2. CASE WriteModel
  <2>1. PICK p \in VectorFiles : p[1] = "source-models" /\ \E d : Wrote(p, d)
    <3>1. PICK p \in VectorFiles :
            /\ p[1] = "source-models"
            /\ \/ \E said \in {"argument", "limit"} :
                    EditBelow(p, [vectors[p] EXCEPT !.data.result = said])
               \/ EditBelow(p, [vectors[p] EXCEPT !.data.ops =
                     Append(@, [op |-> "set-u64", word |-> 2,
                       path |-> [list |-> "request", row |-> 0, field |-> "fee", elem |-> None]])])
      BY <1>2 DEF WriteModel
    <3> DEFINE fee == [op |-> "set-u64", word |-> 2,
                       path |-> [list |-> "request", row |-> 0, field |-> "fee", elem |-> None]]
               old == vectors[p].data
    <3>2. ASSUME NEW said, EditBelow(p, [vectors[p] EXCEPT !.data.result = said])
          PROVE  Wrote(p, [old EXCEPT !.result = said])
      BY <3>2 DEF Wrote
    <3>3. ASSUME EditBelow(p, [vectors[p] EXCEPT !.data.ops = Append(@, fee)])
          PROVE  Wrote(p, [old EXCEPT !.ops = Append(@, fee)])
      BY <3>3 DEF Wrote
    <3>4. \E d : Wrote(p, d)
      BY <3>1, <3>2, <3>3
    <3> QED
      BY <3>1, <3>4
  <2>2. PICK d : Wrote(p, d)
    BY <2>1
  <2> DEFINE e == [vectors[p] EXCEPT !.data = d]
  <2>3. ASSUME corpus = "plan" PROVE KeptModel(p, e)
    <3>1. KeptModel(p, vectors[p])
      BY <2>1, <2>3 DEF KindsKept
    <3>2. e.data = d /\ DOMAIN e = DOMAIN vectors[p]
      BY <3>1 DEF KeptModel
    <3> QED
      BY <2>2, <3>1, <3>2 DEF KeptModel, Wrote
  <2> QED
    BY <2>2, <2>3, EditKeepsKinds DEF Wrote
<1> QED
  BY <1>1, <1>2

(* A table written again, a frame, the inventories.                        *)
LEMMA OtherEditsKeepKinds ==
  ASSUME KindsKept, WriteFrame \/ RewriteFrames \/ RewriteModels \/ RewriteCases \/ DropRow \/ ReviseSums
  PROVE  KindsKept'
<1>1. ASSUME NEW name \in Tables, NEW rows, Rewrite(name, rows) PROVE KindsKept'
  <2>1. <<name>>[1] # "source-models"
    BY DEF Tables
  <2> QED
    BY <1>1, <2>1, EditKeepsKinds DEF Rewrite
<1>2. CASE WriteFrame
  <2>1. PICK p, bytes :
         /\ p[1] = "frames"
         /\ EditBelow(p, [kind |-> "file", large |-> FALSE, links |-> 1, data |-> bytes])
    BY <1>2 DEF WriteFrame
  <2> QED
    BY <2>1, EditKeepsKinds
<1>3. CASE RewriteFrames \/ RewriteModels \/ RewriteCases
  <2>1. {"FRAMES", "MODELS", "CASES"} \subseteq Tables
    BY DEF Tables
  <2> QED
    BY <1>1, <1>3, <2>1 DEF RewriteFrames, RewriteModels, RewriteCases
<1>4. CASE DropRow
  BY <1>1, <1>4 DEF DropRow
<1>5. CASE ReviseSums
  <2>1. corpus' = corpus /\ DOMAIN vectors' = DOMAIN vectors
        /\ \A q \in DOMAIN vectors : q # <<"SUMS">> => vectors'[q] = vectors[q]
    BY <1>5 DEF ReviseSums
  <2>2. <<"SUMS">>[1] # "source-models"
    OBVIOUS
  <2> QED
    BY <2>1, <2>2 DEF KindsKept, VectorFiles, KeptModel
<1> QED
  BY <1>2, <1>3, <1>4, <1>5

(* No edit changes the kind of a model.                                    *)
LEMMA StepKeepsKinds ==
  ASSUME KindsKept, [TreeNext]_treeVars
  PROVE  KindsKept'
<1>1. CASE UNCHANGED treeVars
  BY <1>1 DEF treeVars, KindsKept, VectorFiles, KeptModel
<1>2. CASE MisplaceTop \/ WriteDocument
  BY <1>2 DEF MisplaceTop, WriteDocument, EditAbove, KindsKept, VectorFiles, KeptModel
<1> QED
  BY <1>1, <1>2, ModelEditsKeepKinds, OtherEditsKeepKinds DEF TreeNext

(* The reviewed models are of the kinds they are.                          *)
LEMMA KindsBegin == TreeInit => KindsKept
  BY ReviewedTablesAssumption DEF TreeInit, KindsKept, VectorFiles, KeptModel

(* A file is a table, or one a row names ...                               *)
LEMMA FilesAreNamed ==
  ASSUME PlanAccepted, NEW p \in VectorFiles, p[1] \in {"frames", "public", "source-models"}
  PROVE  \/ \E r \in RowsIn("FIXTURES") : p = r.path
         \/ \E r \in RowsIn("FRAMES") : p = r.path
         \/ \E r \in RowsIn("MODELS") : p = r.path
<1>1. VectorFiles \ {<<"SUMS">>} = NamedFiles
  BY DEF PlanAccepted, PlanTopology, NestedExact
<1>2. \A name \in Tables \union {"CORPUS", "SUMS"} : <<name>>[1] \notin {"frames", "public", "source-models"}
  BY DEF Tables
<1>3. p \in NamedFiles /\ p \notin {<<name>> : name \in Tables \union {"CORPUS"}}
  BY <1>1, <1>2
<1> QED
  BY <1>3 DEF NamedFiles

(* ... a fixture by a row that is pinned ...                               *)
LEMMA FixturesArePinned ==
  ASSUME PlanAccepted, NEW r \in RowsIn("FIXTURES")
  PROVE  ReviewedIs(r.path, DataAt(r.path))
<1>1. r \in ReviewedRows("FIXTURES") /\ DataAt(r.path) = r.digest
  BY DEF PlanAccepted, FixturesAccepted, RowsIn, ReviewedRows
<1> QED
  BY <1>1, ReviewedTablesAssumption DEF ReviewedIs

(* ... a frame by a case, which has its bytes ...                          *)
LEMMA FramesArePinned ==
  ASSUME PlanAccepted, NEW r \in RowsIn("FRAMES")
  PROVE  ReviewedIs(r.path, DataAt(r.path))
<1>1. r.path = <<"frames", r.id>> /\ r.id \in Ids("FRAMES")
  BY DEF PlanAccepted, FrameRowAccepted, Ids
<1>2. {c.frame : c \in RowsIn("CASES")} \ {None} = Ids("FRAMES")
  BY DEF PlanAccepted, CasesAccepted, FramesConsumed
<1>3. PICK c \in RowsIn("CASES") : c.frame = r.id /\ c.frame # None
  BY <1>1, <1>2
<1>4. c.input.frame = FrameAt(c.frame)
  <2>1. c.input = CaseInput(c)
    BY DEF PlanAccepted, BindingsOfCases
  <2>2. CaseInput(c).frame = IF c.frame = None THEN << >> ELSE FrameAt(c.frame)
    BY DEF CaseInput
  <2> QED
    BY <1>3, <2>1, <2>2
<1>5. c \in ReviewedRows("CASES")
  BY DEF PlanAccepted, RowsIn, ReviewedRows
<1>6. ReviewedIs(<<"frames", c.frame>>, c.input.frame)
  BY <1>3, <1>5, ReviewedTablesAssumption
<1> QED
  BY <1>1, <1>3, <1>4, <1>6 DEF FrameAt

(* ... and a model by the one case that reads it, or it is a boundary.     *)
LEMMA ModelsArePinned ==
  ASSUME PlanAccepted, KindsKept, corpus = "plan", NEW r \in RowsIn("MODELS"), r.path \in VectorFiles
  PROVE  DataAt(r.path).kind = "boundary" \/ ReviewedIs(r.path, DataAt(r.path))
<1>1. /\ Cardinality(Consumers(r.id)) = 1
      /\ r.path = <<"source-models", r.id>>
  BY DEF PlanAccepted, ModelsAccepted
<1>2. Consumers(r.id) # {}
  BY <1>1, FS_EmptySet
<1>3. (\E c \in RowsIn("CASES") : c.model = r.id) \/ (\E b \in RowsIn("BOUNDARIES") : b.model = r.id)
  BY <1>2 DEF Consumers
<1>4. CASE \E b \in RowsIn("BOUNDARIES") : b.model = r.id
  <2>1. PICK b \in RowsIn("BOUNDARIES") : b.model = r.id
    BY <1>4
  <2>2. b \in ReviewedRows("BOUNDARIES")
    BY DEF PlanAccepted, AuthoritiesAccepted, RowsIn, ReviewedRows
  <2>3. PlanVectors[r.path].data.kind = "boundary"
    BY <1>1, <2>1, <2>2, ReviewedTablesAssumption
  <2>4. r.path[1] = "source-models"
    BY <1>1
  <2>5. KeptModel(r.path, vectors[r.path])
    BY <2>4 DEF KindsKept
  <2> QED
    BY <2>3, <2>5 DEF KeptModel, DataAt
<1>5. CASE \E c \in RowsIn("CASES") : c.model = r.id
  <2>1. PICK c \in RowsIn("CASES") : c.model = r.id
    BY <1>5
  <2>2. c.model # None
    <3>1. ParsedTable(Table("MODELS"))
      BY DEF PlanAccepted, Tables
    <3> QED
      BY <2>1, <3>1 DEF ParsedTable, RowsIn
  <2>3. c.input.model = <<RowOf("MODELS", c.model).digest>>
    <3>1. c.input = CaseInput(c)
      BY DEF PlanAccepted, BindingsOfCases
    <3>2. CaseInput(c).model = IF c.model = None THEN << >> ELSE <<RowOf("MODELS", c.model).digest>>
      BY DEF CaseInput
    <3> QED
      BY <2>2, <3>1, <3>2
  <2>4. RowOf("MODELS", c.model) \in RowsIn("MODELS") /\ RowOf("MODELS", c.model).id = r.id
    BY <2>1 DEF RowOf
  <2>5. RowOf("MODELS", c.model).digest = DataAt(r.path)
    BY <1>1, <2>4 DEF PlanAccepted, ModelsAccepted
  <2>6. c \in ReviewedRows("CASES")
    BY DEF PlanAccepted, RowsIn, ReviewedRows
  <2>7. ReviewedIs(<<"source-models", c.model>>, c.input.model[1])
    BY <2>2, <2>6, ReviewedTablesAssumption
  <2> QED
    BY <1>1, <2>1, <2>3, <2>5, <2>7
<1> QED
  BY <1>3, <1>4, <1>5

(* So all that a case reads is reviewed.                                   *)
LEMMA CasesPin ==
  ASSUME KindsKept
  PROVE  CasesPinTheInputs
<1> SUFFICES ASSUME corpus = "plan", TreeAccepted, NEW p \in VectorFiles,
                    \/ p[1] \in {"frames", "public"}
                    \/ p[1] = "source-models" /\ DataAt(p).kind # "boundary"
             PROVE  ReviewedIs(p, DataAt(p))
  BY DEF CasesPinTheInputs, ReviewedIs, DataAt
<1>1. PlanAccepted
  BY DEF TreeAccepted
<1>2. CASE \E r \in RowsIn("FIXTURES") : p = r.path
  BY <1>1, <1>2, FixturesArePinned
<1>3. CASE \E r \in RowsIn("FRAMES") : p = r.path
  BY <1>1, <1>3, FramesArePinned
<1>4. CASE \E r \in RowsIn("MODELS") : p = r.path
  <2>1. PICK r \in RowsIn("MODELS") : p = r.path
    BY <1>4
  <2>2. p[1] = "source-models"
    BY <1>1, <2>1 DEF PlanAccepted, ModelsAccepted
  <2> QED
    BY <1>1, <2>1, <2>2, ModelsArePinned
<1> QED
  BY <1>1, <1>2, <1>3, <1>4, FilesAreNamed

(* check-ordinary-wallet-plan-conformance.py, run: in an accepted plan     *)
(* corpus every frame, fixture and model of a case has the reviewed bytes, *)
(* however tables and inventories were written again; the roots need not   *)
(* be pinned for it.                                                       *)
THEOREM CasesPinInputs == TreeSpec => []CasesPinTheInputs
<1>1. KindsKept /\ [TreeNext]_treeVars => KindsKept'
  BY StepKeepsKinds
<1>2. KindsKept => CasesPinTheInputs
  BY CasesPin
<1> QED
  BY KindsBegin, <1>1, <1>2, PTL DEF TreeSpec

-----------------------------------------------------------------------------
(***************************************************************************)
(* ProofSnapshot: an accepted gate builds what the lock and the reviewed   *)
(* digests name.  The argument follows the steps of the gate by their      *)
(* number: what is known after each of them, whatever others have edited   *)
(* in between.                                                             *)
(***************************************************************************)
(* A node that is made read-only is otherwise what it was.                 *)
LEMMA ReadOnlyNode ==
  ASSUME NEW nodes, NEW path \in DOMAIN nodes, NEW kind, NEW content,
         NEW mode \in {"755", "644", "600"}, nodes[path] = Node(kind, content, mode)
  PROVE  /\ path \in DOMAIN ReadOnly(nodes)
         /\ ReadOnly(nodes)[path] =
              Node(kind, content, IF kind = "dir" \/ mode = "755" THEN "555" ELSE "444")
<1>1. path \in DOMAIN ReadOnly(nodes)
  BY DEF ReadOnly
<1>2. ReadOnly(nodes)[path] =
        [nodes[path] EXCEPT !.mode = IF nodes[path].kind = "dir" \/ @ \in {"755", "555"}
                                     THEN "555" ELSE "444"]
  BY DEF ReadOnly
<1>3. nodes[path] = [kind |-> kind, data |-> content, mode |-> mode, links |-> 1]
  BY DEF Node
<1>4. mode \in {"755", "555"} <=> mode = "755"
  OBVIOUS
<1> QED
  BY <1>1, <1>2, <1>3, <1>4 DEF Node

(* What is unpacked from an archive.                                       *)

(* An archive that is unpacked holds files and directories of the package, *)
(* with names that stay in it, no file at its root and none named as       *)
(* Cargo's own.                                                            *)
LEMMA MembersAreSafe ==
  ASSUME lock \in Locks, NEW p \in Locked, Package(p) # Nil,
         NEW m \in Range(lock.archive[p])
  PROVE  /\ m.kind \in {"file", "dir"} /\ Marker \notin Taken(m)
         /\ Inner(m) \in Seq(Range(m.path))
         /\ \A i \in DOMAIN Inner(m) : SafePart(Inner(m)[i])
         /\ Inner(m) = << >> => m.kind = "dir"
<1> DEFINE archive == lock.archive[p]
<1>1. /\ \A i \in DOMAIN archive : MemberHolds(archive, i, p)
      /\ \A n \in Range(archive) : Marker \notin Taken(n)
  BY DEF Package, ArchiveEntries
<1>2. PICK i \in DOMAIN archive : m = archive[i]
  BY DEF Range
<1>3. MemberHolds(archive, i, p)
  BY <1>1
<1>4. /\ m.kind \in {"file", "dir"} /\ SafePath(m.path, p)
      /\ Inner(m) = << >> => m.kind = "dir"
  BY <1>2, <1>3 DEF MemberHolds
<1>5. m.path \in Seq(Range(m.path))
  BY SnapshotAssumption DEF Locked
<1>6. m.path # << >> /\ \A j \in DOMAIN m.path : SafePart(m.path[j])
  BY <1>4 DEF SafePath
<1>7. Tail(m.path) \in Seq(Range(m.path)) /\ \A j \in DOMAIN Tail(m.path) : SafePart(Tail(m.path)[j])
  <2>1. Len(m.path) \in Nat \ {0} /\ DOMAIN m.path = 1..Len(m.path)
    BY <1>5, <1>6
  <2>2. /\ Tail(m.path) \in Seq(Range(m.path)) /\ DOMAIN Tail(m.path) = 1..(Len(m.path) - 1)
        /\ \A j \in 1..(Len(m.path) - 1) : Tail(m.path)[j] = m.path[j + 1]
    <3> DEFINE path == m.path
               parts == Range(m.path)
    <3>1. path \in Seq(parts) /\ path # << >>
      BY <1>5, <1>6
    <3> HIDE DEF path, parts
    <3>2. /\ Tail(path) \in Seq(parts) /\ Len(Tail(path)) = Len(path) - 1
          /\ \A j \in 1..Len(Tail(path)) : Tail(path)[j] = path[j + 1]
      BY <3>1, HeadTailProperties
    <3>3. DOMAIN Tail(path) = 1..(Len(path) - 1)
      BY <3>2
    <3>4. /\ Tail(path) \in Seq(parts) /\ DOMAIN Tail(path) = 1..(Len(path) - 1)
          /\ \A j \in 1..(Len(path) - 1) : Tail(path)[j] = path[j + 1]
      BY <3>2, <3>3
    <3> QED
      BY <3>4 DEF path, parts
  <2>3. \A j \in 1..(Len(m.path) - 1) : j + 1 \in DOMAIN m.path
    BY <2>1
  <2> QED
    BY <1>6, <2>2, <2>3
<1> QED
  BY <1>1, <1>4, <1>7 DEF Inner

(* What a package is as it is made: the bodies of its archive, the         *)
(* directories it needs, and Cargo's mark.                                 *)
LEMMA PackageIs ==
  ASSUME lock \in Locks, NEW p \in Locked, Package(p) # Nil
  PROVE  LET unpacked == Unpacked(lock.archive[p])
             paths == DOMAIN unpacked.files \cup unpacked.dirs
         IN /\ DOMAIN unpacked.files \cap unpacked.dirs = {}
            /\ Package(p) = [y \in paths \cup {Marker} |->
                               IF y = Marker THEN File("{v:1}", "644")
                               ELSE IF y \in unpacked.dirs THEN Node("dir", Nil, "755")
                               ELSE unpacked.files[y]]
<1> DEFINE archive == lock.archive[p]
           unpacked == Unpacked(archive)
           paths == DOMAIN unpacked.files \cup unpacked.dirs
           made == [path \in paths |-> IF path \in unpacked.dirs THEN Node("dir", Nil, "755")
                                       ELSE unpacked.files[path]]
<1>1. ArchiveEntries(archive, p) # Nil
  BY DEF Package
<1>2. ArchiveEntries(archive, p) = unpacked
  BY <1>1 DEF ArchiveEntries
<1>3. DOMAIN unpacked.files \cap unpacked.dirs = {} /\ Package(p) = Marked(made, "{v:1}")
  BY <1>2 DEF Package
<1>4. DOMAIN made = paths
  OBVIOUS
<1>5. Marked(made, "{v:1}") = [y \in paths \cup {Marker} |->
                                 IF y = Marker THEN File("{v:1}", "644") ELSE made[y]]
  BY <1>4 DEF Marked, With
<1> QED
  BY <1>3, <1>5

(* The file at a path is the body of the member with that path.            *)
LEMMA BodyIs ==
  ASSUME lock \in Locks, NEW p \in Locked, Package(p) # Nil,
         NEW path \in DOMAIN Unpacked(lock.archive[p]).files
  PROVE  /\ path # Marker /\ path \notin Unpacked(lock.archive[p]).dirs
         /\ \E m \in Bodies(lock.archive[p]), mode \in {"755", "644"} :
              Inner(m) = path /\ Package(p)[path] = File(m.data, mode)
<1> DEFINE archive == lock.archive[p]
           unpacked == Unpacked(archive)
<1>1. path \in {Inner(m) : m \in Bodies(archive)}
  BY DEF Unpacked
<1>2. PICK n \in Bodies(archive) : Inner(n) = path
  BY <1>1
<1> DEFINE m == CHOOSE body \in Bodies(archive) : Inner(body) = path
<1>3. m \in Bodies(archive) /\ Inner(m) = path
  BY <1>2
<1>4. unpacked.files[path] = File(m.data, IF m.exec THEN "755" ELSE "644")
  BY <1>1 DEF Unpacked
<1>5. m \in Range(archive) /\ m.kind = "file"
  BY <1>3 DEF Bodies
<1>6. Marker \notin Taken(m) /\ Inner(m) # << >>
  BY <1>5, MembersAreSafe
<1>7. path \in Taken(m) /\ path # Marker
  BY <1>3, <1>6 DEF Taken
<1>8. path \notin unpacked.dirs
  BY PackageIs
<1>9. Package(p)[path] = unpacked.files[path]
  BY <1>7, <1>8, PackageIs
<1> QED
  BY <1>3, <1>4, <1>7, <1>8, <1>9

(* A directory that is made is one a member needs, and stays in the        *)
(* package.                                                                *)
LEMMA DirsAreInside ==
  ASSUME lock \in Locks, NEW p \in Locked, Package(p) # Nil,
         NEW path \in Unpacked(lock.archive[p]).dirs
  PROVE  path # Marker /\ \A i \in DOMAIN path : SafePart(path[i])
<1> DEFINE archive == lock.archive[p]
<1>1. PICK m \in Range(archive) : path \in Taken(m)
  BY DEF Unpacked
<1>2. Marker \notin Taken(m)
  BY MembersAreSafe
<1>3. Inner(m) \in Seq(Range(m.path)) /\ \A i \in DOMAIN Inner(m) : SafePart(Inner(m)[i])
  BY MembersAreSafe
<1>4. path = Inner(m) \/ \E n \in 1..(Len(Inner(m)) - 1) : path = SubSeq(Inner(m), 1, n)
  BY <1>1 DEF Taken, Parents
<1>5. CASE path = Inner(m)
  BY <1>1, <1>2, <1>3, <1>5
<1>6. CASE \E n \in 1..(Len(Inner(m)) - 1) : path = SubSeq(Inner(m), 1, n)
  <2>1. PICK n \in 1..(Len(Inner(m)) - 1) : path = SubSeq(Inner(m), 1, n)
    BY <1>6
  <2>2. DOMAIN path = 1..n /\ \A i \in 1..n : path[i] = Inner(m)[i] /\ i \in DOMAIN Inner(m)
    BY <1>3, <2>1
  <2> QED
    BY <1>1, <1>2, <1>3, <2>2
<1> QED
  BY <1>4, <1>5, <1>6

(* A package as it is made and sealed is its archive.                      *)
LEMMA PackageIsArchive ==
  ASSUME lock \in Locks, NEW p \in Locked, Package(p) # Nil
  PROVE  /\ IsArchive(ReadOnly(Package(p)), lock.archive[p])
         /\ Inside(ReadOnly(Package(p))) /\ OnlyRead(ReadOnly(Package(p)))
<1> DEFINE archive == lock.archive[p]
           files == DOMAIN Unpacked(archive).files
           dirs == Unpacked(archive).dirs
           nodes == ReadOnly(Package(p))
           bodies == {path \in DOMAIN nodes : nodes[path].kind = "file"} \ {Marker}
<1>1. DOMAIN Package(p) = files \cup dirs \cup {Marker} /\ DOMAIN nodes = DOMAIN Package(p)
  BY PackageIs DEF ReadOnly
<1>2. \A path \in files : \E m \in Bodies(archive), mode \in {"755", "644"} :
        Inner(m) = path /\ Package(p)[path] = File(m.data, mode)
  BY BodyIs
<1>3. \A path \in dirs : path # Marker /\ Package(p)[path] = Node("dir", Nil, "755")
  BY PackageIs, DirsAreInside
<1>4. Package(p)[Marker] = File("{v:1}", "644")
  BY PackageIs
<1>5. \A kind, content : \A mode \in {"755", "644"} :
        LET node == Node(kind, content, IF kind = "dir" \/ mode = "755" THEN "555" ELSE "444")
        IN node.kind = kind /\ node.data = content /\ node.links = 1 /\ node.mode \in {"444", "555"}
  BY DEF Node
<1>6. \A path \in files : \E m \in Bodies(archive) :
        /\ Inner(m) = path /\ nodes[path].kind = "file" /\ nodes[path].data = m.data
        /\ nodes[path].mode \in {"444", "555"} /\ nodes[path].links = 1
  <2> SUFFICES ASSUME NEW path \in files
               PROVE  \E m \in Bodies(archive) :
                        /\ Inner(m) = path /\ nodes[path].kind = "file" /\ nodes[path].data = m.data
                        /\ nodes[path].mode \in {"444", "555"} /\ nodes[path].links = 1
    OBVIOUS
  <2>1. PICK m \in Bodies(archive), mode \in {"755", "644"} :
          Inner(m) = path /\ Package(p)[path] = Node("file", m.data, mode)
    BY <1>2 DEF File
  <2>2. nodes[path] = Node("file", m.data, IF "file" = "dir" \/ mode = "755" THEN "555" ELSE "444")
    BY <1>1, <2>1, ReadOnlyNode
  <2> QED
    BY <1>5, <2>1, <2>2
<1>7. \A path \in dirs : /\ nodes[path].kind = "dir" /\ nodes[path].links = 1
                         /\ nodes[path].mode \in {"444", "555"}
  <2> SUFFICES ASSUME NEW path \in dirs
               PROVE  /\ nodes[path].kind = "dir" /\ nodes[path].links = 1
                      /\ nodes[path].mode \in {"444", "555"}
    OBVIOUS
  <2>1. Package(p)[path] = Node("dir", Nil, "755") /\ path \in DOMAIN Package(p)
    BY <1>1, <1>3
  <2>2. nodes[path] = Node("dir", Nil, IF "dir" = "dir" \/ "755" = "755" THEN "555" ELSE "444")
    BY <2>1, ReadOnlyNode
  <2>3. nodes[path] = Node("dir", Nil, "555")
    BY <2>2
  <2> QED
    BY <2>3 DEF Node
<1>8. nodes[Marker].links = 1 /\ nodes[Marker].mode \in {"444", "555"}
  <2>1. PICK content : Package(p)[Marker] = Node("file", content, "644")
    BY <1>4 DEF File
  <2>2. Marker \in DOMAIN Package(p)
    BY <1>1
  <2>3. nodes[Marker] = Node("file", content, IF "file" = "dir" \/ "644" = "755" THEN "555" ELSE "444")
    BY <2>1, <2>2, ReadOnlyNode
  <2>4. nodes[Marker] = Node("file", content, "444")
    BY <2>3
  <2> HIDE DEF nodes
  <2> QED
    BY <2>4 DEF Node
<1>9. \A path \in files : path # Marker
  BY BodyIs
<1>10. bodies = files
  <2> HIDE DEF nodes, files, dirs
  <2> QED
    BY <1>1, <1>3, <1>6, <1>7, <1>9
<1>11. IsArchive(nodes, archive)
  <2>1. \A path \in bodies : \E m \in Range(archive) :
          m.kind = "file" /\ Tail(m.path) = path /\ m.data = nodes[path].data
    BY <1>6, <1>10 DEF Bodies, Inner
  <2>2. \A m \in Range(archive) : m.kind = "file" => Tail(m.path) \in bodies
    <3> SUFFICES ASSUME NEW m \in Range(archive), m.kind = "file"
                 PROVE  Tail(m.path) \in files
      BY <1>10
    <3> QED
      BY DEF Bodies, Inner, Unpacked
  <2> QED
    BY <2>1, <2>2 DEF IsArchive
<1>12. Inside(nodes)
  <2>1. \A path \in files : \A i \in DOMAIN path : SafePart(path[i])
    <3> SUFFICES ASSUME NEW path \in files PROVE \A i \in DOMAIN path : SafePart(path[i])
      OBVIOUS
    <3>1. PICK m \in Bodies(archive) : Inner(m) = path
      BY <1>2
    <3>2. m \in Range(archive)
      BY <3>1 DEF Bodies
    <3> QED
      BY <3>1, <3>2, MembersAreSafe
  <2>2. \A path \in dirs : \A i \in DOMAIN path : SafePart(path[i])
    BY DirsAreInside
  <2>3. \A i \in DOMAIN Marker : SafePart(Marker[i])
    <3>1. DOMAIN Marker = 1..1 /\ Marker[1] = ".cargo-ok"
      BY DEF Marker
    <3>2. \A i \in 1..1 : i = 1
      OBVIOUS
    <3>3. SafePart(".cargo-ok")
      BY DEF SafePart
    <3> QED
      BY <3>1, <3>2, <3>3
  <2> QED
    BY <1>1, <2>1, <2>2, <2>3 DEF Inside
<1>13. OnlyRead(nodes)
  <2> HIDE DEF nodes, files, dirs
  <2> QED
    BY <1>1, <1>6, <1>7, <1>8 DEF OnlyRead
<1> QED
  BY <1>11, <1>12, <1>13

-----------------------------------------------------------------------------
(* What a commit is checked out as: the entries of its listing, if none is *)
(* named as Cargo's mark.                                                  *)
LEMMA TreeIsListing ==
  ASSUME NEW listing, TreeFiles(listing) # Nil, Marker \notin DOMAIN TreeFiles(listing)
  PROVE  LET nodes == ReadOnly(Marked(TreeFiles(listing), ""))
         IN IsListing(nodes, listing) /\ Inside(nodes) /\ OnlyRead(nodes)
<1> DEFINE files == TreeFiles(listing)
           entries == Range(listing)
           Of(path) == CHOOSE e \in entries : e.path = path
           nodes == ReadOnly(Marked(files, ""))
<1>1. /\ \A i \in DOMAIN listing : ListedSafely(listing[i])
      /\ \A i, j \in DOMAIN listing : i # j => listing[i].path # listing[j].path
      /\ files = [path \in {noted.path : noted \in entries} |->
                    File(Of(path).data, IF Of(path).mode = "100755" THEN "755" ELSE "644")]
  BY DEF TreeFiles
<1>2. \A e \in entries : e.path \in DOMAIN files /\ \A i \in DOMAIN e.path : SafePart(e.path[i])
  BY <1>1 DEF Range, ListedSafely
<1>3. \A e \in entries : Of(e.path) = e
  <2> SUFFICES ASSUME NEW e \in entries PROVE Of(e.path) = e
    OBVIOUS
  <2>1. Of(e.path) \in entries /\ Of(e.path).path = e.path
    OBVIOUS
  <2>2. PICK i \in DOMAIN listing : e = listing[i]
    BY DEF Range
  <2>3. PICK j \in DOMAIN listing : Of(e.path) = listing[j]
    BY <2>1 DEF Range
  <2> QED
    BY <1>1, <2>1, <2>2, <2>3
<1>4. \A path \in DOMAIN files : \E e \in entries : path = e.path
  BY <1>1
<1>5. \A e \in entries : \E mode \in {"755", "644"} : files[e.path] = File(e.data, mode)
  <2> SUFFICES ASSUME NEW e \in entries
               PROVE  \E mode \in {"755", "644"} : files[e.path] = File(e.data, mode)
    OBVIOUS
  <2>1. files[e.path] = File(Of(e.path).data, IF Of(e.path).mode = "100755" THEN "755" ELSE "644")
    BY <1>1
  <2>2. Of(e.path) = e
    BY <1>3
  <2> QED
    BY <2>1, <2>2
<1> HIDE DEF files, entries
<1>6. /\ DOMAIN Marked(files, "") = DOMAIN files \cup {Marker}
      /\ \A path \in DOMAIN files : Marked(files, "")[path] = files[path]
      /\ Marked(files, "")[Marker] = File("", "644")
  <2>1. Marker \notin DOMAIN files
    BY DEF files
  <2> QED
    BY <2>1 DEF Marked, With
<1>7. DOMAIN nodes = DOMAIN files \cup {Marker}
  BY <1>6 DEF ReadOnly
<1>8. \A e \in entries : \E mode \in {"444", "555"} : nodes[e.path] = Node("file", e.data, mode)
  <2> SUFFICES ASSUME NEW e \in entries
               PROVE  \E mode \in {"444", "555"} : nodes[e.path] = Node("file", e.data, mode)
    OBVIOUS
  <2>1. PICK mode \in {"755", "644"} : files[e.path] = Node("file", e.data, mode)
    BY <1>5 DEF File
  <2>2. /\ e.path \in DOMAIN Marked(files, "")
        /\ Marked(files, "")[e.path] = Node("file", e.data, mode)
    BY <1>2, <1>6, <2>1
  <2> DEFINE marked == Marked(files, "")
  <2> HIDE DEF marked
  <2>3. ReadOnly(marked)[e.path] =
          Node("file", e.data, IF "file" = "dir" \/ mode = "755" THEN "555" ELSE "444")
    <3>1. e.path \in DOMAIN marked /\ marked[e.path] = Node("file", e.data, mode)
      BY <2>2 DEF marked
    <3> QED
      BY <3>1, ReadOnlyNode
  <2>4. nodes[e.path] = ReadOnly(marked)[e.path]
    BY DEF marked
  <2> QED
    BY <2>3, <2>4
<1>9. nodes[Marker].links = 1 /\ nodes[Marker].mode \in {"444", "555"}
  <2>1. PICK content : Marked(files, "")[Marker] = Node("file", content, "644")
    BY <1>6 DEF File
  <2>2. Marker \in DOMAIN Marked(files, "")
    BY <1>6
  <2> DEFINE marked == Marked(files, "")
  <2> HIDE DEF marked
  <2>3. ReadOnly(marked)[Marker] =
          Node("file", content, IF "file" = "dir" \/ "644" = "755" THEN "555" ELSE "444")
    <3>1. Marker \in DOMAIN marked /\ marked[Marker] = Node("file", content, "644")
      BY <2>1, <2>2 DEF marked
    <3> QED
      BY <3>1, ReadOnlyNode
  <2>4. nodes[Marker] = ReadOnly(marked)[Marker]
    BY DEF marked
  <2>5. nodes[Marker] = Node("file", content, "444")
    BY <2>3, <2>4
  <2> HIDE DEF nodes
  <2> QED
    BY <2>5 DEF Node
<1> HIDE DEF nodes, Of
<1>10. \A e \in entries : nodes[e.path].data = e.data /\ nodes[e.path].links = 1
                          /\ nodes[e.path].mode \in {"444", "555"}
  <2> SUFFICES ASSUME NEW e \in entries
               PROVE  nodes[e.path].data = e.data /\ nodes[e.path].links = 1
                      /\ nodes[e.path].mode \in {"444", "555"}
    OBVIOUS
  <2>1. PICK mode \in {"444", "555"} : nodes[e.path] = Node("file", e.data, mode)
    BY <1>8
  <2> QED
    BY <2>1 DEF Node
<1>11. IsListing(nodes, listing)
  <2>1. Marker \notin DOMAIN files
    BY DEF files
  <2>2. DOMAIN nodes \ {Marker} = DOMAIN files
    BY <1>7, <2>1
  <2>3. {<<path, nodes[path].data>> : path \in DOMAIN files}
          = {<<e.path, e.data>> : e \in entries}
    BY <1>2, <1>4, <1>10
  <2> QED
    BY <2>2, <2>3 DEF IsListing, entries
<1>12. Inside(nodes)
  <2>1. \A i \in DOMAIN Marker : SafePart(Marker[i])
    <3>1. DOMAIN Marker = 1..1 /\ Marker[1] = ".cargo-ok"
      BY DEF Marker
    <3>2. \A i \in 1..1 : i = 1
      OBVIOUS
    <3>3. SafePart(".cargo-ok")
      BY DEF SafePart
    <3> QED
      BY <3>1, <3>2, <3>3
  <2>2. \A path \in DOMAIN files : \A i \in DOMAIN path : SafePart(path[i])
    BY <1>2, <1>4
  <2> QED
    BY <1>7, <2>1, <2>2 DEF Inside
<1>13. OnlyRead(nodes)
  <2>1. \A path \in DOMAIN files : nodes[path].mode \in {"444", "555"} /\ nodes[path].links = 1
    BY <1>4, <1>10
  <2> QED
    BY <1>7, <1>9, <2>1 DEF OnlyRead
<1> QED
  BY <1>11, <1>12, <1>13 DEF nodes, files

(* A home that was made of the lock, once it is sealed, holds it.          *)
HomeFields == {"roots", "archive", "index", "db", "src", "checkout", "strays", "root", "owner"}

Constructed(h) ==
  /\ \A p \in Locked : Package(p) # Nil
  /\ h.src = [p \in Locked |-> Package(p)] /\ h.checkout = Checkout(lock.tree, ConstructedMeta)

HoldsTheLock(h) ==
  /\ DOMAIN h = HomeFields
  /\ DOMAIN h.src = Locked
  /\ \A p \in Locked : /\ IsArchive(h.src[p], lock.archive[p])
                         /\ Inside(h.src[p]) /\ OnlyRead(h.src[p])
  /\ IsListing(h.checkout.tree, lock.tree)
  /\ Inside(h.checkout.tree) /\ OnlyRead(h.checkout.tree)
  /\ DOMAIN h.checkout.meta.modes \cap Hooks = {}
  /\ h.strays = {}

(* The entry of a record that is not one that is changed.                  *)
LEMMA RecordsKeep ==
  ASSUME NEW c, "owner" \in DOMAIN c
  PROVE  /\ DOMAIN Records(c) = DOMAIN c
         /\ \A name \in DOMAIN c \ {"owner"} : Records(c)[name] = c[name]
  BY DEF Records

(* A cache constructed from the lock is one that holds it, sealed or not.  *)
LEMMA SealedHoldsTheLock ==
  ASSUME lock \in Locks, TreeFiles(lock.tree) # Nil, Marker \notin DOMAIN TreeFiles(lock.tree),
         NEW h, DOMAIN h = HomeFields, h.strays = {}, Constructed(h)
  PROVE  HoldsTheLock(Records(LockedHome(h))) /\ DOMAIN LockedHome(h) = HomeFields
<1> DEFINE s == LockedHome(h)
           tree == Marked(TreeFiles(lock.tree), "")
<1>1. h.checkout = [at |-> {"commit"}, tree |-> tree, meta |-> ConstructedMeta]
  BY DEF Constructed, Checkout
<1>2. h.src = [p \in Locked |-> Package(p)] /\ \A p \in Locked : Package(p) # Nil
  BY DEF Constructed
<1> DEFINE one == [h EXCEPT !.src = [p \in DOMAIN @ |-> ReadOnly(@[p])]]
           two == [one EXCEPT !.checkout.tree = ReadOnly(@)]
           three == [two EXCEPT !.checkout.meta.modes = [name \in DOMAIN @ |-> "444"]]
<1>3. s = [three EXCEPT !.root = "555"]
  BY DEF LockedHome
<1>4. /\ DOMAIN one = HomeFields /\ one.checkout = h.checkout /\ one.strays = {}
      /\ one.src = [p \in Locked |-> ReadOnly(Package(p))]
  BY <1>2 DEF HomeFields
<1> HIDE DEF one
<1>5. /\ DOMAIN two = HomeFields /\ two.strays = {} /\ two.src = one.src
      /\ two.checkout = [one.checkout EXCEPT !.tree = ReadOnly(@)]
  BY <1>4 DEF HomeFields
<1>6. two.checkout = [at |-> {"commit"}, tree |-> ReadOnly(tree), meta |-> ConstructedMeta]
  <2> HIDE DEF tree
  <2> QED
    BY <1>1, <1>4, <1>5
<1> HIDE DEF two
<1>7. /\ DOMAIN three = HomeFields /\ three.strays = {} /\ three.src = one.src
      /\ three.checkout = [two.checkout EXCEPT !.meta.modes = [name \in DOMAIN @ |-> "444"]]
  BY <1>5 DEF HomeFields
<1>8. /\ three.checkout.tree = ReadOnly(tree)
      /\ three.checkout.meta = [ConstructedMeta EXCEPT !.modes = [name \in DOMAIN @ |-> "444"]]
  <2> HIDE DEF tree, three
  <2> QED
    BY <1>6, <1>7
<1> HIDE DEF three
<1>9. /\ DOMAIN s = HomeFields /\ s.strays = {} /\ s.src = one.src /\ s.checkout = three.checkout
  BY <1>3, <1>7 DEF HomeFields
<1> HIDE DEF s
<1>10. DOMAIN s.checkout.meta.modes \cap Hooks = {}
  <2>1. DOMAIN three.checkout.meta.modes = DOMAIN ConstructedMeta.modes
    BY <1>8 DEF ConstructedMeta
  <2>2. DOMAIN ConstructedMeta.modes \cap Hooks = {}
    BY DEF ConstructedMeta, Hooks
  <2> QED
    BY <1>9, <2>1, <2>2
<1> DEFINE r == Records(s)
<1>11. /\ DOMAIN r = HomeFields
       /\ r.src = s.src /\ r.checkout = s.checkout /\ r.strays = s.strays
  BY <1>9, RecordsKeep DEF HomeFields
<1>12. \A p \in Locked : /\ IsArchive(ReadOnly(Package(p)), lock.archive[p])
                          /\ Inside(ReadOnly(Package(p))) /\ OnlyRead(ReadOnly(Package(p)))
  BY <1>2, PackageIsArchive
<1>13. IsListing(ReadOnly(tree), lock.tree) /\ Inside(ReadOnly(tree)) /\ OnlyRead(ReadOnly(tree))
  BY TreeIsListing
<1> HIDE DEF r, tree
<1>14. /\ DOMAIN r.src = Locked
       /\ \A p \in Locked : r.src[p] = ReadOnly(Package(p))
       /\ r.checkout.tree = ReadOnly(tree)
  BY <1>4, <1>8, <1>9, <1>11
<1>15. HoldsTheLock(r)
  BY <1>9, <1>10, <1>11, <1>12, <1>13, <1>14 DEF HoldsTheLock
<1> QED
  BY <1>9, <1>15 DEF r, s

-----------------------------------------------------------------------------
(* Where each step of the gate is.                                         *)
FileCount == Len(Files)
Start(name) == IF name = "snapshot" THEN 0 ELSE FileCount + 1
SealAt(name) == Start(name) + FileCount + 1
Prepared == 2 * (FileCount + 1) + Len(Rehearsal)
FreshAt == Prepared + 1
ConstructAt == Prepared + Len(Copy("authority", "final")) + Len(Select("final")) + 1
DatabaseAt == ConstructAt + Len(Select("final"))
Steps == DatabaseAt + 7

SelectNames == {"begin", "config", "archive", "index", "database"}
CopyNames == SelectNames \cup {"copy", "clone", "closed"}
HomeNames == CopyNames \cup {"fresh", "unpack", "final", "registry", "checkout"}
AllNames == HomeNames \cup Trees \cup {"seal", "construct", "chown", "verify"}

EditPlaces == Homes \cup Trees
EditItems ==
  {Nil, "config"} \cup Locked \cup Range(Files) \cup
  {SetToSeq(Crates)[i] : i \in 1..Cardinality(Crates)}
Ops(names) == {Op(name, x, y, item) : name \in names, x \in EditPlaces, y \in EditPlaces, item \in EditItems}

(* Sequences that are put together keep what was known of them.            *)
LEMMA StepIsWithin ==
  ASSUME NEW S, NEW s \in Seq(S), NEW t \in Seq(S)
  PROVE  /\ s \o t \in Seq(S) /\ Len(s \o t) = Len(s) + Len(t)
         /\ Len(s) \in Nat /\ Len(t) \in Nat
         /\ \A i \in 1..Len(s) : (s \o t)[i] = s[i]
         /\ \A i \in 1..Len(t) : (s \o t)[Len(s) + i] = t[i]
  OBVIOUS

(* A sequence of one step.                                                 *)
LEMMA One ==
  ASSUME NEW S, NEW e \in S
  PROVE  <<e>> \in Seq(S) /\ Len(<<e>>) = 1 /\ <<e>>[1] = e
  OBVIOUS

(* A step with a known name, places and item is a step.                    *)
LEMMA OpIn ==
  ASSUME NEW names, NEW name \in names, NEW x \in EditPlaces, NEW y \in EditPlaces, NEW item \in EditItems
  PROVE  Op(name, x, y, item) \in Ops(names)
  BY DEF Ops

(* Steps with few names are steps with more.                               *)
LEMMA OpsGrow ==
  ASSUME NEW few, NEW many, few \subseteq many
  PROVE  Ops(few) \subseteq Ops(many) /\ Seq(Ops(few)) \subseteq Seq(Ops(many))
<1>1. Ops(few) \subseteq Ops(many)
  BY DEF Ops
<1> QED
  BY <1>1

(* A step has one of the names it is said to have.                         *)
LEMMA OpIs ==
  ASSUME NEW names, NEW o \in Ops(names)
  PROVE  o.op \in names
  BY DEF Ops, Op

(* The lengths of what the gate runs over.                                 *)
LEMMA LockCounts ==
  /\ Len(Lockfile) \in Nat /\ Len(Files) \in Nat /\ Cardinality(Crates) \in Nat
  /\ DOMAIN Lockfile = 1..Len(Lockfile) /\ DOMAIN Files = 1..Len(Files)
  /\ \A i \in 1..Len(Lockfile) : Lockfile[i] \in Locked
  /\ \A i \in 1..Len(Files) : Files[i] \in Range(Files)
<1>1. /\ Len(Lockfile) \in Nat /\ Len(Files) \in Nat
      /\ DOMAIN Lockfile = 1..Len(Lockfile) /\ DOMAIN Files = 1..Len(Files)
  BY SnapshotAssumption
<1>2. IsFiniteSet(1..Len(Lockfile))
  BY <1>1, FS_Interval
<1> DEFINE crate == [i \in 1..Len(Lockfile) |-> CrateOf[Lockfile[i]]]
<1>3. Locked = {Lockfile[i] : i \in 1..Len(Lockfile)}
  BY <1>1 DEF Locked, Range
<1>4. crate \in Surjection(1..Len(Lockfile), Crates)
  BY <1>3 DEF Surjection, Crates
<1>5. IsFiniteSet(Crates)
  BY <1>2, <1>4, FS_Surjection
<1> QED
  BY <1>1, <1>5, FS_CardinalityType DEF Locked, Range

(* A selection ends at its databases; before, it only looks.               *)
LEMMA SelectIs ==
  ASSUME NEW x \in Homes
  PROVE  /\ Select(x) \in Seq(Ops(SelectNames)) /\ Len(Select(x)) \in Nat \ {0}
         /\ Select(x)[Len(Select(x))] = Op("database", x, x, Nil)
<1> DEFINE S == Ops(SelectNames)
           Entry(i) == Op(IF i % 2 = 1 THEN "archive" ELSE "index", x, x, Lockfile[(i + 1) \div 2])
           a == <<Op("begin", x, x, Nil), Op("config", x, x, Nil)>>
           b == [i \in 1..(2 * Len(Lockfile)) |-> Entry(i)]
           d == <<Op("database", x, x, Nil)>>
<1>1. x \in EditPlaces /\ Nil \in EditItems
  BY DEF EditPlaces, EditItems
<1>2. Op("begin", x, x, Nil) \in S /\ Op("config", x, x, Nil) \in S /\ Op("database", x, x, Nil) \in S
  BY <1>1, OpIn DEF SelectNames
<1>3. a \in Seq(S) /\ d \in Seq(S) /\ Len(d) = 1 /\ d[1] = Op("database", x, x, Nil)
  <2> HIDE DEF S
  <2> QED
    BY <1>2
<1>4. \A i \in 1..(2 * Len(Lockfile)) : Entry(i) \in S
  <2> SUFFICES ASSUME NEW i \in 1..(2 * Len(Lockfile)) PROVE Entry(i) \in S
    OBVIOUS
  <2>1. (i + 1) \div 2 \in 1..Len(Lockfile)
    BY LockCounts
  <2>2. Lockfile[(i + 1) \div 2] \in EditItems
    BY <2>1, LockCounts DEF EditItems
  <2>3. (IF i % 2 = 1 THEN "archive" ELSE "index") \in SelectNames
    BY DEF SelectNames
  <2> QED
    BY <1>1, <2>2, <2>3, OpIn
<1> HIDE DEF S, Entry
<1>5. b \in Seq(S)
  <2>1. 2 * Len(Lockfile) \in Nat
    BY LockCounts
  <2> QED
    BY <1>4, <2>1
<1> HIDE DEF a, b, d
<1>6. a \o b \in Seq(S)
  BY <1>3, <1>5, StepIsWithin
<1> DEFINE ab == a \o b
<1> HIDE DEF ab
<1>7. /\ ab \o d \in Seq(S) /\ Len(ab \o d) = Len(ab) + 1
      /\ Len(ab) \in Nat /\ (ab \o d)[Len(ab) + 1] = d[1]
  <2>1. ab \in Seq(S) /\ d \in Seq(S)
    BY <1>3, <1>6 DEF ab
  <2>2. /\ ab \o d \in Seq(S) /\ Len(ab \o d) = Len(ab) + Len(d) /\ Len(ab) \in Nat
        /\ \A i \in 1..Len(d) : (ab \o d)[Len(ab) + i] = d[i]
    BY <2>1, StepIsWithin
  <2>3. 1 \in 1..Len(d)
    BY <1>3
  <2> QED
    BY <1>3, <2>2, <2>3
<1>8. Select(x) = ab \o d
  BY DEF Select, ab, a, b, d, Entry
<1> QED
  BY <1>3, <1>7, <1>8 DEF S

(* A copy begins with its destination; then files are selected, copied and *)
(* held together.                                                          *)
BeginsFresh(s, x, y) ==
  /\ s \in Seq(Ops(HomeNames)) /\ Len(s) \in Nat \ {0} /\ s[1] = Op("fresh", x, y, Nil)
  /\ \A i \in 2..Len(s) : s[i] \in Ops(CopyNames)

(* What begins by making a cache still does when more steps follow.        *)
LEMMA Continued ==
  ASSUME NEW s, NEW x, NEW y, BeginsFresh(s, x, y), NEW t \in Seq(Ops(CopyNames))
  PROVE  BeginsFresh(s \o t, x, y)
<1> DEFINE S == Ops(HomeNames)
           T == Ops(CopyNames)
<1>1. T \subseteq S /\ t \in Seq(S)
  BY OpsGrow DEF HomeNames
<1>2. s \in Seq(S) /\ Len(s) \in Nat \ {0} /\ s[1] = Op("fresh", x, y, Nil)
      /\ \A i \in 2..Len(s) : s[i] \in T
  BY DEF BeginsFresh
<1> HIDE DEF S, T
<1>3. /\ s \o t \in Seq(S) /\ Len(s \o t) = Len(s) + Len(t) /\ Len(t) \in Nat
      /\ \A i \in 1..Len(s) : (s \o t)[i] = s[i]
      /\ \A i \in 1..Len(t) : (s \o t)[Len(s) + i] = t[i]
  BY <1>1, <1>2, StepIsWithin
<1>4. \A i \in 1..Len(t) : t[i] \in T
  BY DEF T
<1>5. ASSUME NEW i \in 2..Len(s \o t) PROVE (s \o t)[i] \in T
  <2>1. CASE i <= Len(s)
    BY <1>2, <1>3, <2>1
  <2>2. CASE i > Len(s)
    <3>1. i - Len(s) \in 1..Len(t) /\ Len(s) + (i - Len(s)) = i
      BY <1>2, <1>3, <2>2
    <3> QED
      BY <1>3, <1>4, <3>1
  <2> QED
    BY <1>2, <1>3, <2>1, <2>2
<1> QED
  BY <1>2, <1>3, <1>5 DEF BeginsFresh, S, T

(* Copying a cache begins by making the copy, which must not be there.     *)
LEMMA CopyIs ==
  ASSUME NEW x \in Homes, NEW y \in Homes
  PROVE  BeginsFresh(Copy(x, y), x, y)
<1> DEFINE T == Ops(CopyNames)
           a == <<Op("fresh", x, y, Nil)>>
           c == <<Op("copy", x, y, "config")>>
           k == [i \in 1..Cardinality(Crates) |-> Op("copy", x, y, SetToSeq(Crates)[i])]
           l == [i \in DOMAIN Lockfile |-> Op("copy", x, y, Lockfile[i])]
           d == <<Op("clone", x, y, Nil)>>
           e == <<Op("closed", x, y, Nil)>>
<1>1. x \in EditPlaces /\ y \in EditPlaces /\ Nil \in EditItems /\ "config" \in EditItems
  BY DEF EditPlaces, EditItems
<1>2. Select(x) \in Seq(T) /\ Select(y) \in Seq(T)
  BY SelectIs, OpsGrow DEF CopyNames
<1>3. Op("copy", x, y, "config") \in T /\ Op("clone", x, y, Nil) \in T /\ Op("closed", x, y, Nil) \in T
  BY <1>1, OpIn DEF CopyNames
<1>4. \A i \in 1..Cardinality(Crates) : Op("copy", x, y, SetToSeq(Crates)[i]) \in T
  <2> SUFFICES ASSUME NEW i \in 1..Cardinality(Crates)
               PROVE  Op("copy", x, y, SetToSeq(Crates)[i]) \in T
    OBVIOUS
  <2>1. SetToSeq(Crates)[i] \in EditItems
    BY DEF EditItems
  <2>2. "copy" \in CopyNames
    BY DEF CopyNames
  <2> QED
    BY <1>1, <2>1, <2>2, OpIn
<1>5. \A i \in 1..Len(Lockfile) : Op("copy", x, y, Lockfile[i]) \in T
  <2> SUFFICES ASSUME NEW i \in 1..Len(Lockfile) PROVE Op("copy", x, y, Lockfile[i]) \in T
    OBVIOUS
  <2>1. Lockfile[i] \in EditItems
    BY LockCounts DEF EditItems
  <2>2. "copy" \in CopyNames
    BY DEF CopyNames
  <2> QED
    BY <1>1, <2>1, <2>2, OpIn
<1>6. BeginsFresh(a, x, y)
  <2>1. Op("fresh", x, y, Nil) \in Ops(HomeNames)
    BY <1>1, OpIn DEF HomeNames
  <2>2. a \in Seq(Ops(HomeNames)) /\ Len(a) = 1 /\ a[1] = Op("fresh", x, y, Nil)
    BY <2>1, One
  <2> QED
    BY <2>2 DEF BeginsFresh
<1> HIDE DEF T
<1>7. c \in Seq(T) /\ d \in Seq(T) /\ e \in Seq(T)
  BY <1>3, One
<1>8. k \in Seq(T)
  BY <1>4, LockCounts
<1>9. l \in Seq(T)
  BY <1>5, LockCounts
<1> HIDE DEF a, c, k, l, d, e
<1>10. BeginsFresh((a \o Select(x)) \o c, x, y)
  BY <1>2, <1>6, <1>7, Continued DEF T
<1>11. BeginsFresh((((a \o Select(x)) \o c) \o k) \o l, x, y)
  BY <1>8, <1>9, <1>10, Continued DEF T
<1>12. BeginsFresh((((((a \o Select(x)) \o c) \o k) \o l) \o d) \o Select(y), x, y)
  BY <1>2, <1>7, <1>11, Continued DEF T
<1>13. BeginsFresh(((((((a \o Select(x)) \o c) \o k) \o l) \o d) \o Select(y)) \o e, x, y)
  BY <1>7, <1>12, Continued DEF T
<1> QED
  BY <1>13 DEF Copy, a, c, k, l, d, e

(* A part of a sequence, after so many of its entries.                     *)
Within(s, n, t) == n + Len(t) <= Len(s) /\ \A i \in 1..Len(t) : s[n + i] = t[i]

(* A part of a sequence stays where it is when more follows.               *)
LEMMA Kept ==
  ASSUME NEW S, NEW s \in Seq(S), NEW u \in Seq(S), NEW t \in Seq(S), NEW n \in Nat, Within(s, n, t)
  PROVE  Within(s \o u, n, t)
<1>1. /\ Len(s \o u) = Len(s) + Len(u) /\ Len(s) \in Nat /\ Len(u) \in Nat /\ Len(t) \in Nat
      /\ \A i \in 1..Len(s) : (s \o u)[i] = s[i]
  <2>1. Len(t) \in Nat
    OBVIOUS
  <2> QED
    BY <2>1, StepIsWithin
<1>2. \A i \in 1..Len(t) : n + i \in 1..Len(s)
  BY <1>1 DEF Within
<1> QED
  BY <1>1, <1>2 DEF Within

(* What is appended is a part, behind all there was.                       *)
LEMMA StepAdds ==
  ASSUME NEW S, NEW s \in Seq(S), NEW t \in Seq(S)
  PROVE  /\ Within(s \o t, Len(s), t) /\ s \o t \in Seq(S) /\ Len(s \o t) = Len(s) + Len(t)
         /\ Len(s) \in Nat
  BY StepIsWithin DEF Within

(* A tree is taken file by file, and then sealed.                          *)
LEMMA TreeOpsAre ==
  ASSUME NEW name \in Trees
  PROVE  /\ TreeOps(name) \in Seq(Ops(AllNames)) /\ Len(TreeOps(name)) = FileCount + 1
         /\ \A i \in 1..FileCount : TreeOps(name)[i] = Op(name, "source", "source", Files[i])
         /\ TreeOps(name)[FileCount + 1] = Op("seal", name, name, Nil)
<1> DEFINE S == Ops(AllNames)
           Taking(i) == Op(name, "source", "source", Files[i])
           a == [i \in 1..FileCount |-> Taking(i)]
           b == <<Op("seal", name, name, Nil)>>
<1>1. FileCount \in Nat /\ DOMAIN Files = 1..FileCount
  BY LockCounts DEF FileCount
<1>2. \A i \in 1..FileCount : Taking(i) \in S
  <2> SUFFICES ASSUME NEW i \in 1..FileCount PROVE Taking(i) \in S
    OBVIOUS
  <2>1. Files[i] \in EditItems
    BY LockCounts DEF EditItems, FileCount
  <2>2. name \in AllNames /\ "source" \in EditPlaces
    BY DEF AllNames, EditPlaces, Homes
  <2> QED
    BY <2>1, <2>2, OpIn
<1>3. Op("seal", name, name, Nil) \in S
  <2>1. "seal" \in AllNames /\ name \in EditPlaces /\ Nil \in EditItems
    BY DEF AllNames, EditPlaces, EditItems
  <2> QED
    BY <2>1, OpIn
<1> HIDE DEF S
<1>4. b \in Seq(S) /\ Len(b) = 1 /\ b[1] = Op("seal", name, name, Nil)
  BY <1>3, One
<1> HIDE DEF Taking, b
<1>5. a \in Seq(S) /\ Len(a) = FileCount /\ \A i \in 1..FileCount : a[i] = Taking(i)
  BY <1>1, <1>2
<1>6. TreeOps(name) = a \o b
  BY <1>1 DEF TreeOps, a, b, Taking
<1> HIDE DEF a
<1>7. /\ a \o b \in Seq(S) /\ Len(a \o b) = Len(a) + Len(b)
      /\ \A i \in 1..Len(a) : (a \o b)[i] = a[i]
      /\ \A i \in 1..Len(b) : (a \o b)[Len(a) + i] = b[i]
  <2>1. a \in Seq(S) /\ b \in Seq(S)
    BY <1>4, <1>5
  <2> QED
    BY <2>1, StepIsWithin
<1>8. (a \o b)[FileCount + 1] = b[1]
  <2>1. 1 \in 1..Len(b)
    BY <1>4
  <2> QED
    BY <1>5, <1>7, <2>1
<1> QED
  BY <1>4, <1>5, <1>6, <1>7, <1>8 DEF S, Taking

(* The rehearsal is steps on caches only: no tree is taken or sealed.      *)
LEMMA RehearsalIs == Rehearsal \in Seq(Ops(HomeNames))
<1> DEFINE S == Ops(HomeNames)
           c == Copy("source", "authority")
           d == Copy("authority", "materialized")
           e == <<Op("unpack", "materialized", "materialized", Nil), Op("final", "final", "final", Nil)>>
           g == Select("authority")
           h == <<Op("registry", "authority", "materialized", Nil),
                  Op("checkout", "authority", "materialized", Nil)>>
<1>1. c \in Seq(S) /\ d \in Seq(S)
  BY CopyIs DEF BeginsFresh, Homes
<1>2. g \in Seq(S)
  <2>1. g \in Seq(Ops(SelectNames))
    BY SelectIs DEF Homes
  <2>2. SelectNames \subseteq HomeNames
    BY DEF HomeNames, CopyNames
  <2> QED
    BY <2>1, <2>2, OpsGrow
<1>3. Nil \in EditItems /\ {"materialized", "final", "authority"} \subseteq EditPlaces
  BY DEF EditItems, EditPlaces, Homes
<1>4. {"unpack", "final", "registry", "checkout"} \subseteq HomeNames
  BY DEF HomeNames
<1>5. /\ Op("unpack", "materialized", "materialized", Nil) \in S /\ Op("final", "final", "final", Nil) \in S
      /\ Op("registry", "authority", "materialized", Nil) \in S
      /\ Op("checkout", "authority", "materialized", Nil) \in S
  BY <1>3, <1>4, OpIn
<1> HIDE DEF S
<1>6. e \in Seq(S) /\ h \in Seq(S)
  BY <1>5
<1> HIDE DEF c, d, e, g, h
<1>7. c \o d \o e \o g \o g \o h \in Seq(S)
  BY <1>1, <1>2, <1>6, StepIsWithin
<1> QED
  BY <1>7 DEF Rehearsal, S, c, d, e, g, h

(* The parts of the gate, each after so many steps.                        *)
LEMMA GateIs ==
  /\ Gate \in Seq(Ops(AllNames)) /\ Len(Gate) = Steps
  /\ FileCount \in Nat /\ Prepared \in Nat /\ ConstructAt \in Nat /\ DatabaseAt \in Nat
  /\ 2 * (FileCount + 1) <= Prepared /\ FreshAt < ConstructAt /\ ConstructAt < DatabaseAt
  /\ Within(Gate, 0, TreeOps("snapshot")) /\ Within(Gate, FileCount + 1, TreeOps("workspace"))
  /\ Within(Gate, 2 * (FileCount + 1), Rehearsal)
  /\ Within(Gate, Prepared, Copy("authority", "final"))
  /\ Within(Gate, Prepared + Len(Copy("authority", "final")), Select("final"))
  /\ Within(Gate, ConstructAt - 1, <<Op("construct", "final", "final", Nil)>>)
  /\ Within(Gate, ConstructAt, Select("final")) /\ Within(Gate, DatabaseAt, Finish)
<1> DEFINE S == Ops(AllNames)
           a == TreeOps("snapshot")
           b == TreeOps("workspace")
           c == Rehearsal
           d == Copy("authority", "final")
           e == Select("final")
           g == <<Op("construct", "final", "final", Nil)>>
           h == Finish
           n == FileCount
<1>1. a \in Seq(S) /\ b \in Seq(S) /\ Len(a) = n + 1 /\ Len(b) = n + 1
  BY TreeOpsAre DEF Trees
<1>2. HomeNames \subseteq AllNames /\ SelectNames \subseteq AllNames
  BY DEF AllNames, HomeNames, CopyNames
<1>3. c \in Seq(S)
  BY <1>2, RehearsalIs, OpsGrow
<1>4. d \in Seq(S) /\ Len(d) \in Nat \ {0}
  <2>1. d \in Seq(Ops(HomeNames)) /\ Len(d) \in Nat \ {0}
    BY CopyIs DEF BeginsFresh, Homes
  <2> QED
    BY <1>2, <2>1, OpsGrow
<1>5. e \in Seq(S) /\ Len(e) \in Nat \ {0}
  <2>1. e \in Seq(Ops(SelectNames)) /\ Len(e) \in Nat \ {0}
    BY SelectIs DEF Homes
  <2> QED
    BY <1>2, <2>1, OpsGrow
<1>6. Nil \in EditItems /\ {"final", "snapshot", "workspace"} \subseteq EditPlaces
  BY DEF EditItems, EditPlaces, Homes, Trees
<1>7. {"construct", "registry", "checkout", "seal", "chown", "verify"} \subseteq AllNames
  BY DEF AllNames, HomeNames
<1>8. \A name \in AllNames, x \in EditPlaces : Op(name, x, x, Nil) \in S
  BY <1>6, OpIn
<1> HIDE DEF S
<1>9. g \in Seq(S) /\ Len(g) = 1
  BY <1>6, <1>7, <1>8
<1>10. h \in Seq(S) /\ Len(h) = 7
  <2>1. /\ Op("registry", "final", "final", Nil) \in S /\ Op("checkout", "final", "final", Nil) \in S
        /\ Op("seal", "final", "final", Nil) \in S /\ Op("chown", "final", "final", Nil) \in S
        /\ Op("verify", "final", "final", Nil) \in S /\ Op("verify", "snapshot", "snapshot", Nil) \in S
        /\ Op("verify", "workspace", "workspace", Nil) \in S
    BY <1>6, <1>7, <1>8
  <2> QED
    BY <2>1 DEF Finish
<1>11. n \in Nat
  BY LockCounts DEF FileCount
<1> DEFINE m == 2 * (n + 1)
           p == m + Len(c)
           q == p + Len(d)
           r == q + Len(e)
           t == r + 1 + Len(e)
           ab == a \o b
           abc == ab \o c
           abcd == abc \o d
           abcde == abcd \o e
           abcdeg == abcde \o g
           abcdege == abcdeg \o e
           all == abcdege \o h
<1>12. Prepared = p /\ ConstructAt = r + 1 /\ DatabaseAt = t /\ Steps = t + 7 /\ Gate = all
  BY DEF Prepared, ConstructAt, DatabaseAt, Steps, Gate
<1> HIDE DEF a, b, c, d, e, g, h, n
<1>13. Within(a, 0, a)
  BY <1>1 DEF Within
<1>14. /\ ab \in Seq(S) /\ Len(ab) = m /\ Within(ab, 0, a) /\ Within(ab, n + 1, b)
  <2>1. ab \in Seq(S) /\ Len(ab) = Len(a) + Len(b) /\ Within(ab, Len(a), b)
    BY <1>1, StepAdds
  <2>2. Within(ab, 0, a)
    BY <1>1, <1>13, Kept
  <2> QED
    BY <1>1, <1>11, <2>1, <2>2
<1> HIDE DEF ab
<1>15. /\ abc \in Seq(S) /\ Len(abc) = p /\ p \in Nat /\ m <= p
       /\ Within(abc, 0, a) /\ Within(abc, n + 1, b) /\ Within(abc, m, c)
  <2>1. abc \in Seq(S) /\ Len(abc) = Len(ab) + Len(c) /\ Within(abc, Len(ab), c)
    BY <1>3, <1>14, StepAdds
  <2>2. Within(abc, 0, a) /\ Within(abc, n + 1, b)
    BY <1>1, <1>3, <1>11, <1>14, Kept
  <2>3. Len(c) \in Nat
    BY <1>3
  <2> QED
    BY <1>11, <1>14, <2>1, <2>2, <2>3
<1> HIDE DEF abc, m
<1>16. m \in Nat
  BY <1>11 DEF m
<1>17. /\ abcd \in Seq(S) /\ Len(abcd) = q /\ q \in Nat
       /\ Within(abcd, 0, a) /\ Within(abcd, n + 1, b) /\ Within(abcd, m, c) /\ Within(abcd, p, d)
  <2>1. abcd \in Seq(S) /\ Len(abcd) = Len(abc) + Len(d) /\ Within(abcd, Len(abc), d)
    BY <1>4, <1>15, StepAdds
  <2>2. Within(abcd, 0, a) /\ Within(abcd, n + 1, b) /\ Within(abcd, m, c)
    BY <1>1, <1>3, <1>4, <1>11, <1>15, <1>16, Kept
  <2> QED
    BY <1>4, <1>15, <2>1, <2>2
<1> HIDE DEF abcd, p
<1>18. /\ abcde \in Seq(S) /\ Len(abcde) = r /\ r \in Nat
       /\ Within(abcde, 0, a) /\ Within(abcde, n + 1, b) /\ Within(abcde, m, c) /\ Within(abcde, p, d)
       /\ Within(abcde, q, e)
  <2>1. abcde \in Seq(S) /\ Len(abcde) = Len(abcd) + Len(e) /\ Within(abcde, Len(abcd), e)
    BY <1>5, <1>17, StepAdds
  <2>2. Within(abcde, 0, a) /\ Within(abcde, n + 1, b) /\ Within(abcde, m, c)
    BY <1>1, <1>3, <1>5, <1>11, <1>16, <1>17, Kept
  <2>3. Within(abcde, p, d)
    BY <1>4, <1>5, <1>15, <1>17, Kept
  <2> QED
    BY <1>5, <1>17, <2>1, <2>2, <2>3
<1> HIDE DEF abcde, q
<1>19. q \in Nat
  BY <1>17
<1>20. /\ abcdeg \in Seq(S) /\ Len(abcdeg) = r + 1
       /\ Within(abcdeg, 0, a) /\ Within(abcdeg, n + 1, b) /\ Within(abcdeg, m, c) /\ Within(abcdeg, p, d)
       /\ Within(abcdeg, q, e) /\ Within(abcdeg, r, g)
  <2>1. abcdeg \in Seq(S) /\ Len(abcdeg) = Len(abcde) + Len(g) /\ Within(abcdeg, Len(abcde), g)
    BY <1>9, <1>18, StepAdds
  <2>2. Within(abcdeg, 0, a) /\ Within(abcdeg, n + 1, b) /\ Within(abcdeg, m, c)
    BY <1>1, <1>3, <1>9, <1>11, <1>16, <1>18, Kept
  <2>3. Within(abcdeg, p, d) /\ Within(abcdeg, q, e)
    BY <1>4, <1>5, <1>9, <1>15, <1>18, <1>19, Kept
  <2> QED
    BY <1>9, <1>18, <2>1, <2>2, <2>3
<1> HIDE DEF abcdeg, r
<1>21. r \in Nat /\ r + 1 \in Nat
  BY <1>18
<1>22. /\ abcdege \in Seq(S) /\ Len(abcdege) = t
       /\ Within(abcdege, 0, a) /\ Within(abcdege, n + 1, b) /\ Within(abcdege, m, c)
       /\ Within(abcdege, p, d) /\ Within(abcdege, q, e) /\ Within(abcdege, r, g)
       /\ Within(abcdege, r + 1, e)
  <2>1. abcdege \in Seq(S) /\ Len(abcdege) = Len(abcdeg) + Len(e) /\ Within(abcdege, Len(abcdeg), e)
    BY <1>5, <1>20, StepAdds
  <2>2. Within(abcdege, 0, a) /\ Within(abcdege, n + 1, b) /\ Within(abcdege, m, c)
    BY <1>1, <1>3, <1>5, <1>11, <1>16, <1>20, Kept
  <2>3. Within(abcdege, p, d) /\ Within(abcdege, q, e) /\ Within(abcdege, r, g)
    BY <1>4, <1>5, <1>9, <1>15, <1>19, <1>20, <1>21, Kept
  <2> QED
    BY <1>5, <1>20, <2>1, <2>2, <2>3
<1> HIDE DEF abcdege
<1>23. t \in Nat /\ r + 1 < t
  BY <1>5, <1>21
<1>24. /\ all \in Seq(S) /\ Len(all) = t + 7
       /\ Within(all, 0, a) /\ Within(all, n + 1, b) /\ Within(all, m, c)
       /\ Within(all, p, d) /\ Within(all, q, e) /\ Within(all, r, g)
       /\ Within(all, r + 1, e) /\ Within(all, t, h)
  <2>1. all \in Seq(S) /\ Len(all) = Len(abcdege) + Len(h) /\ Within(all, Len(abcdege), h)
    BY <1>10, <1>22, StepAdds
  <2>2. Within(all, 0, a) /\ Within(all, n + 1, b) /\ Within(all, m, c)
    BY <1>1, <1>3, <1>10, <1>11, <1>16, <1>22, Kept
  <2>3. Within(all, p, d) /\ Within(all, q, e) /\ Within(all, r, g)
    BY <1>4, <1>5, <1>9, <1>10, <1>15, <1>19, <1>21, <1>22, Kept
  <2>4. Within(all, r + 1, e)
    BY <1>5, <1>10, <1>21, <1>22, Kept
  <2> QED
    BY <1>10, <1>22, <2>1, <2>2, <2>3, <2>4
<1> HIDE DEF all, t
<1>25. FreshAt = p + 1 /\ p + 1 < ConstructAt
  BY <1>4, <1>5, <1>12, <1>15, <1>17 DEF FreshAt, q, r
<1>26. Within(Gate, Prepared + Len(d), e) /\ Within(Gate, ConstructAt - 1, g) /\ m = 2 * (n + 1)
  BY <1>12, <1>21, <1>24 DEF q, m
<1> QED
  BY <1>11, <1>12, <1>15, <1>21, <1>23, <1>24, <1>25, <1>26 DEF a, b, c, d, e, g, h, n, S

(* What each step of the gate is.                                          *)
Copying(k) ==
  \E name \in Trees : \E i \in 1..FileCount :
    k = Start(name) + i /\ Gate[k] = Op(name, "source", "source", Files[i])
Sealing(k) == \E name \in Trees : k = SealAt(name) /\ Gate[k] = Op("seal", name, name, Nil)
Rehearsing(k) == 2 * (FileCount + 1) < k /\ k < FreshAt /\ Gate[k].op \in HomeNames
Opening(k) == k = FreshAt /\ Gate[k] = Op("fresh", "authority", "final", Nil)
Filling(k) == FreshAt < k /\ k < ConstructAt /\ Gate[k].op \in CopyNames
Constructing(k) == k = ConstructAt /\ Gate[k] = Op("construct", "final", "final", Nil)
Looking(k) == ConstructAt < k /\ k <= DatabaseAt /\ Gate[k].op \in SelectNames
              /\ (k = DatabaseAt => Gate[k].op = "database")
Finishing(k) == \E i \in 1..7 : k = DatabaseAt + i /\ Gate[k] = Finish[i]

(* Every number is that of a step of one of eight kinds.                   *)
LEMMA StepIs ==
  ASSUME NEW k \in 1..Steps
  PROVE  \/ Copying(k) \/ Sealing(k) \/ Rehearsing(k) \/ Opening(k) \/ Filling(k)
         \/ Constructing(k) \/ Looking(k) \/ Finishing(k)
<1> DEFINE n == FileCount
           lc == Len(Copy("authority", "final"))
           ls == Len(Select("final"))
<1>1. /\ n \in Nat /\ Prepared \in Nat /\ ConstructAt \in Nat /\ DatabaseAt \in Nat
      /\ 2 * (n + 1) <= Prepared /\ FreshAt < ConstructAt /\ ConstructAt < DatabaseAt
      /\ FreshAt = Prepared + 1 /\ Steps = DatabaseAt + 7
  BY GateIs DEF FreshAt, Steps
<1>2. /\ lc \in Nat \ {0} /\ ls \in Nat \ {0}
      /\ ConstructAt = Prepared + lc + ls + 1 /\ DatabaseAt = ConstructAt + ls
      /\ Prepared = 2 * (n + 1) + Len(Rehearsal) /\ Len(Rehearsal) \in Nat
  <2>1. lc \in Nat \ {0}
    BY CopyIs DEF BeginsFresh, Homes
  <2>2. ls \in Nat \ {0}
    BY SelectIs DEF Homes
  <2>3. Len(Rehearsal) \in Nat
    BY RehearsalIs
  <2> QED
    BY <2>1, <2>2, <2>3 DEF ConstructAt, DatabaseAt, Prepared
<1>3. /\ Start("snapshot") = 0 /\ SealAt("snapshot") = n + 1
      /\ Start("workspace") = n + 1 /\ SealAt("workspace") = 2 * (n + 1)
  BY <1>1 DEF Start, SealAt
<1>4. ASSUME NEW name \in Trees, k > Start(name), k <= Start(name) + n
      PROVE  Copying(k)
  <2>1. k - Start(name) \in 1..n /\ k = Start(name) + (k - Start(name))
    BY <1>1, <1>3, <1>4 DEF Trees
  <2>2. Within(Gate, Start(name), TreeOps(name))
    BY <1>3, GateIs DEF Trees
  <2>3. k - Start(name) \in 1..Len(TreeOps(name))
    BY <1>1, <2>1, TreeOpsAre
  <2>4. Gate[k] = TreeOps(name)[k - Start(name)]
    BY <2>1, <2>2, <2>3 DEF Within
  <2>5. Gate[k] = Op(name, "source", "source", Files[k - Start(name)])
    BY <2>1, <2>4, TreeOpsAre
  <2> QED
    BY <2>1, <2>5 DEF Copying
<1>5. ASSUME NEW name \in Trees, k = SealAt(name)
      PROVE  Sealing(k)
  <2>1. k = Start(name) + (n + 1) /\ n + 1 \in 1..(n + 1)
    BY <1>1, <1>3, <1>5 DEF Trees
  <2>2. Within(Gate, Start(name), TreeOps(name))
    BY <1>3, GateIs DEF Trees
  <2>3. Gate[k] = TreeOps(name)[n + 1]
    BY <1>1, <2>1, <2>2, TreeOpsAre DEF Within
  <2>4. Gate[k] = Op("seal", name, name, Nil)
    BY <2>3, TreeOpsAre
  <2> QED
    BY <1>5, <2>4 DEF Sealing
<1>6. ASSUME 2 * (n + 1) < k, k < FreshAt PROVE Rehearsing(k)
  <2> DEFINE i == k - 2 * (n + 1)
  <2>1. i \in 1..Len(Rehearsal) /\ k = 2 * (n + 1) + i
    BY <1>1, <1>2, <1>6
  <2> HIDE DEF i
  <2>2. Gate[k] = Rehearsal[i]
    BY <2>1, GateIs DEF Within
  <2>3. Rehearsal[i] \in Ops(HomeNames)
    BY <2>1, RehearsalIs
  <2> QED
    BY <1>6, <2>2, <2>3, OpIs DEF Rehearsing
<1>7. ASSUME k = FreshAt PROVE Opening(k)
  <2> DEFINE d == Copy("authority", "final")
  <2>1. d[1] = Op("fresh", "authority", "final", Nil) /\ 1 \in 1..lc
    BY CopyIs DEF BeginsFresh, Homes
  <2>2. Within(Gate, Prepared, d)
    BY GateIs
  <2>3. Gate[Prepared + 1] = d[1]
    BY <2>1, <2>2 DEF Within
  <2> QED
    BY <1>1, <1>7, <2>1, <2>3 DEF Opening
<1>8. ASSUME FreshAt < k, k < ConstructAt PROVE Filling(k)
  <2>1. CASE k <= Prepared + lc
    <3> DEFINE d == Copy("authority", "final")
               i == k - Prepared
    <3>1. i \in 2..lc /\ i \in 1..lc /\ k = Prepared + i
      BY <1>1, <1>2, <1>8, <2>1
    <3> HIDE DEF i
    <3>2. Gate[k] = d[i]
      BY <3>1, GateIs DEF Within
    <3>3. d[i] \in Ops(CopyNames)
      BY <3>1, CopyIs DEF BeginsFresh, Homes
    <3> QED
      BY <1>8, <3>2, <3>3, OpIs DEF Filling
  <2>2. CASE k > Prepared + lc
    <3> DEFINE d == Select("final")
               i == k - (Prepared + lc)
    <3>1. i \in 1..ls /\ k = Prepared + lc + i
      BY <1>1, <1>2, <1>8, <2>2
    <3> HIDE DEF i
    <3>2. Gate[k] = d[i]
      BY <3>1, GateIs DEF Within
    <3>3. d[i] \in Ops(SelectNames)
      BY <3>1, SelectIs DEF Homes
    <3>4. d[i].op \in CopyNames
      BY <3>3, OpIs DEF CopyNames
    <3> QED
      BY <1>8, <3>2, <3>4 DEF Filling
  <2> QED
    BY <1>1, <1>2, <2>1, <2>2
<1>9. ASSUME k = ConstructAt PROVE Constructing(k)
  <2> DEFINE g == <<Op("construct", "final", "final", Nil)>>
  <2>1. 1 \in 1..Len(g) /\ g[1] = Op("construct", "final", "final", Nil)
    OBVIOUS
  <2>2. Within(Gate, ConstructAt - 1, g)
    BY GateIs
  <2>3. Gate[ConstructAt - 1 + 1] = g[1]
    BY <2>1, <2>2 DEF Within
  <2>4. ConstructAt - 1 + 1 = ConstructAt
    BY <1>1
  <2> QED
    BY <1>9, <2>1, <2>3, <2>4 DEF Constructing
<1>10. ASSUME ConstructAt < k, k <= DatabaseAt PROVE Looking(k)
  <2> DEFINE d == Select("final")
             i == k - ConstructAt
  <2>1. i \in 1..ls /\ k = ConstructAt + i /\ (k = DatabaseAt => i = ls)
    BY <1>1, <1>2, <1>10
  <2> HIDE DEF i
  <2>2. Gate[k] = d[i]
    BY <2>1, GateIs DEF Within
  <2>3. d[i] \in Ops(SelectNames)
    BY <2>1, SelectIs DEF Homes
  <2>4. k = DatabaseAt => Gate[k] = Op("database", "final", "final", Nil)
    BY <2>1, <2>2, SelectIs DEF Homes
  <2>5. Op("database", "final", "final", Nil).op = "database"
    BY DEF Op
  <2>6. d[i].op \in SelectNames
    BY <2>3, OpIs
  <2> QED
    BY <1>10, <2>2, <2>4, <2>5, <2>6 DEF Looking
<1>11. ASSUME DatabaseAt < k PROVE Finishing(k)
  <2> DEFINE i == k - DatabaseAt
  <2>1. i \in 1..7 /\ k = DatabaseAt + i
    BY <1>1, <1>11
  <2> HIDE DEF i
  <2>2. Len(Finish) = 7
    BY DEF Finish
  <2>3. Gate[k] = Finish[i]
    BY <2>1, <2>2, GateIs DEF Within
  <2> QED
    BY <2>1, <2>3 DEF Finishing
<1>12. \/ k <= n \/ k = n + 1 \/ (k > n + 1 /\ k <= n + 1 + n) \/ k = 2 * (n + 1)
       \/ (2 * (n + 1) < k /\ k < FreshAt) \/ k = FreshAt \/ (FreshAt < k /\ k < ConstructAt)
       \/ k = ConstructAt \/ (ConstructAt < k /\ k <= DatabaseAt) \/ DatabaseAt < k
  <2>1. k \in Int /\ FreshAt \in Int
    BY <1>1
  <2> HIDE DEF n
  <2> QED
    BY <1>1, <2>1
<1>13. k <= n \/ (k > n + 1 /\ k <= n + 1 + n) => Copying(k)
  BY <1>1, <1>3, <1>4 DEF Trees
<1>14. k = n + 1 \/ k = 2 * (n + 1) => Sealing(k)
  BY <1>3, <1>5 DEF Trees
<1> QED
  BY <1>6, <1>7, <1>8, <1>9, <1>10, <1>11, <1>12, <1>13, <1>14

-----------------------------------------------------------------------------
(* What is known before step k: of the home that is built from, of the     *)
(* trees, and of the lock.                                                 *)
SealHomeAt == DatabaseAt + 3
ChownAt == DatabaseAt + 4
VerifiedAt(name) ==
  IF name = "final" THEN DatabaseAt + 5
  ELSE IF name = "snapshot" THEN DatabaseAt + 6 ELSE DatabaseAt + 7

TreeFields == {"files", "inventory", "owner"}
LedgerFields == {"records", "mode", "owner"}
CopyMode(name) == IF name = "snapshot" THEN "600" ELSE "644"
AllReviewed(files, mode) == \A path \in DOMAIN files : files[path] = Node("file", "reviewed", mode)

HoldsTheReviewed(t) ==
  /\ DOMAIN t = TreeFields
  /\ \A f \in Range(Files) : t.files[f].data = "reviewed" /\ t.files[f].mode = "444"

Shape ==
  /\ DOMAIN home = Homes /\ DOMAIN trees = Trees
  /\ DOMAIN ledger = Sealed /\ DOMAIN printed = Sealed

LockIs(k) ==
  /\ lock \in Locks
  /\ k > DatabaseAt => TreeFiles(lock.tree) # Nil
  /\ k > DatabaseAt + 2 => Marker \notin DOMAIN TreeFiles(lock.tree)

TreeIs(k, name) ==
  /\ DOMAIN trees[name] = TreeFields
  /\ k <= SealAt(name) =>
       /\ ledger[name] = Nil
       /\ AllReviewed(trees[name].files, CopyMode(name))
       /\ \A i \in 1..FileCount : Start(name) + i < k => Files[i] \in DOMAIN trees[name].files
  /\ k > SealAt(name) => DOMAIN ledger[name] = LedgerFields /\ HoldsTheReviewed(printed[name])
  /\ k > ChownAt => trees[name].owner = "root" /\ ledger[name].owner = "root"
  /\ k > VerifiedAt(name) => Records(trees[name]) = printed[name]

FinalIs(k) ==
  /\ k <= SealHomeAt => ledger.final = Nil
  /\ k > FreshAt => DOMAIN home.final = HomeFields
  /\ k > FreshAt /\ k <= SealHomeAt => home.final.strays = {}
  /\ k > ConstructAt /\ k <= SealHomeAt => Constructed(home.final)
  /\ k > SealHomeAt => DOMAIN ledger.final = LedgerFields /\ HoldsTheLock(printed.final)
  /\ k > ChownAt => home.final.owner = "root" /\ ledger.final.owner = "root"
  /\ k > VerifiedAt("final") => Records(home.final) = printed.final

Known(k) == Shape /\ LockIs(k) /\ FinalIs(k) /\ \A name \in Trees : TreeIs(k, name)

(* The gate has gone on to step k, or is through, or has refused.          *)
Progress(k) ==
  /\ todo = SubSeq(Gate, k, Steps)
  /\ verdict = IF k = Steps + 1 THEN "accepted" ELSE "none"
Rejected == verdict = "rejected" /\ todo = << >>

SnapshotInvariant == Rejected \/ \E k \in 1..(Steps + 1) : Progress(k) /\ Known(k)

(* The numbers of the steps that matter, and their order.                  *)
LEMMA Numbers ==
  /\ FileCount \in Nat /\ FreshAt \in Nat /\ ConstructAt \in Nat /\ DatabaseAt \in Nat
  /\ Steps = DatabaseAt + 7
  /\ Start("snapshot") = 0 /\ SealAt("snapshot") = FileCount + 1
  /\ Start("workspace") = FileCount + 1 /\ SealAt("workspace") = 2 * (FileCount + 1)
  /\ SealAt("workspace") < FreshAt /\ FreshAt < ConstructAt /\ ConstructAt < DatabaseAt
  /\ VerifiedAt("final") = DatabaseAt + 5 /\ VerifiedAt("snapshot") = DatabaseAt + 6
  /\ VerifiedAt("workspace") = DatabaseAt + 7
  /\ SealHomeAt = DatabaseAt + 3 /\ ChownAt = DatabaseAt + 4
<1>1. /\ FileCount \in Nat /\ Prepared \in Nat /\ ConstructAt \in Nat /\ DatabaseAt \in Nat
      /\ 2 * (FileCount + 1) <= Prepared /\ FreshAt < ConstructAt /\ ConstructAt < DatabaseAt
      /\ FreshAt = Prepared + 1 /\ Steps = DatabaseAt + 7
  BY GateIs DEF FreshAt, Steps
<1>2. /\ Start("snapshot") = 0 /\ SealAt("snapshot") = FileCount + 1
      /\ Start("workspace") = FileCount + 1 /\ SealAt("workspace") = 2 * (FileCount + 1)
  BY <1>1 DEF Start, SealAt
<1>3. /\ VerifiedAt("final") = DatabaseAt + 5 /\ VerifiedAt("snapshot") = DatabaseAt + 6
      /\ VerifiedAt("workspace") = DatabaseAt + 7
      /\ SealHomeAt = DatabaseAt + 3 /\ ChownAt = DatabaseAt + 4
  BY DEF VerifiedAt, SealHomeAt, ChownAt
<1> QED
  BY <1>1, <1>2, <1>3

(* A tree is sealed before the last cache is begun, and verified after.    *)
LEMMA SealsComeFirst ==
  ASSUME NEW name \in Trees
  PROVE  /\ Start(name) \in Nat /\ SealAt(name) = Start(name) + FileCount + 1
         /\ SealAt(name) \in Nat /\ SealAt(name) < FreshAt
         /\ VerifiedAt(name) \in Nat /\ VerifiedAt(name) > ChownAt
  BY Numbers DEF Trees

(* The gate goes on, or refuses.                                           *)
LEMMA Going ==
  ASSUME NEW k \in 1..Steps, Progress(k)
  PROVE  /\ todo # << >> /\ Head(todo) = Gate[k]
         /\ Go => Progress(k + 1)'
         /\ Refuse => Rejected'
<1>1. Gate \in Seq(Ops(AllNames)) /\ Len(Gate) = Steps /\ Steps \in Nat
  BY GateIs, Numbers
<1>2. todo = SubSeq(Gate, k, Steps) /\ verdict = "none"
  BY <1>1 DEF Progress
<1> DEFINE S == Ops(AllNames)
           g == Gate
           n == Steps
<1>3. g \in Seq(S) /\ Len(g) = n /\ n \in Nat /\ k \in 1..n
  BY <1>1
<1> HIDE DEF S, g, n
<1>4. /\ SubSeq(g, k, n) \in Seq(S) /\ Len(SubSeq(g, k, n)) = n - k + 1
      /\ SubSeq(g, k, n) # << >> /\ Head(SubSeq(g, k, n)) = g[k]
  BY <1>3
<1>5. Tail(SubSeq(g, k, n)) = SubSeq(g, k + 1, n)
  BY <1>3
<1>6. n - k + 1 = 1 <=> k + 1 = n + 1
  BY <1>3
<1>7. ASSUME Go PROVE Progress(k + 1)'
  <2>1. todo' = SubSeq(g, k + 1, n)
    BY <1>2, <1>5, <1>7 DEF Go, g, n
  <2>2. verdict' = IF Len(todo) = 1 THEN "accepted" ELSE "none"
    BY <1>2, <1>7 DEF Go
  <2>3. Len(todo) = 1 <=> k + 1 = n + 1
    BY <1>2, <1>4, <1>6 DEF g, n
  <2> QED
    BY <2>1, <2>2, <2>3 DEF Progress, g, n
<1>8. Refuse => Rejected'
  BY DEF Refuse, Rejected
<1> QED
  BY <1>2, <1>4, <1>7, <1>8 DEF g, n

(* What a step does not touch is known after it as before.                 *)
LEMMA LockStays ==
  ASSUME NEW k \in 1..Steps, LockIs(k), UNCHANGED lock, k # DatabaseAt, k # DatabaseAt + 2
  PROVE  LockIs(k + 1)'
  BY Numbers DEF LockIs

(* What is known of a tree outlasts a step that is not about it.           *)
LEMMA TreeStays ==
  ASSUME NEW k \in 1..Steps, NEW name \in Trees, TreeIs(k, name),
         trees'[name] = trees[name], ledger'[name] = ledger[name], printed'[name] = printed[name],
         k <= Start(name) \/ k > SealAt(name), k # ChownAt, k # VerifiedAt(name)
  PROVE  TreeIs(k + 1, name)'
<1>1. /\ FileCount \in Nat /\ Start(name) \in Nat /\ SealAt(name) = Start(name) + FileCount + 1
      /\ SealAt(name) \in Nat /\ VerifiedAt(name) \in Nat /\ ChownAt \in Nat /\ k \in Nat
  BY SealsComeFirst, Numbers
<1>2. /\ k + 1 <= SealAt(name) => k <= SealAt(name)
      /\ k + 1 > SealAt(name) => k > SealAt(name)
      /\ k + 1 > ChownAt => k > ChownAt
      /\ k + 1 > VerifiedAt(name) => k > VerifiedAt(name)
  BY <1>1
<1>3. \A i \in 1..FileCount : k + 1 <= SealAt(name) /\ Start(name) + i < k + 1 => Start(name) + i < k
  BY <1>1
<1> QED
  BY <1>2, <1>3 DEF TreeIs

(* What is known of the last cache outlasts a step that is not about it.   *)
LEMMA FinalStays ==
  ASSUME NEW k \in 1..Steps, FinalIs(k), UNCHANGED lock,
         home'.final = home.final, ledger'.final = ledger.final, printed'.final = printed.final,
         k # FreshAt, k # ConstructAt, k # SealHomeAt, k # ChownAt, k # VerifiedAt("final")
  PROVE  FinalIs(k + 1)'
<1>1. /\ FreshAt \in Nat /\ ConstructAt \in Nat /\ SealHomeAt \in Nat /\ ChownAt \in Nat
      /\ VerifiedAt("final") \in Nat /\ k \in Nat
  BY Numbers
<1>2. /\ k + 1 <= SealHomeAt => k <= SealHomeAt
      /\ k + 1 > FreshAt => k > FreshAt
      /\ k + 1 > ConstructAt => k > ConstructAt
      /\ k + 1 > SealHomeAt => k > SealHomeAt
      /\ k + 1 > ChownAt => k > ChownAt
      /\ k + 1 > VerifiedAt("final") => k > VerifiedAt("final")
  BY <1>1
<1> QED
  BY <1>2 DEF FinalIs, Constructed, HoldsTheLock, Package

(* What is known of the final cache is known of one with the same words.   *)
LEMMA FinalSame ==
  ASSUME NEW k, FinalIs(k), UNCHANGED lock,
         home'.final = home.final, ledger'.final = ledger.final, printed'.final = printed.final
  PROVE  FinalIs(k)'
<1>1. ASSUME NEW p \in Locked PROVE Package(p)' = Package(p)
  BY DEF Package
<1>2. PICK h : h = home.final
  OBVIOUS
<1>3. PICK r : r = printed.final
  OBVIOUS
<1>4. Constructed(h) => Constructed(h)'
  BY DEF Constructed, Package
<1>5. HoldsTheLock(r) => HoldsTheLock(r)'
  BY DEF HoldsTheLock
<1>6. Constructed(home.final) => Constructed(home.final)'
  BY <1>2, <1>4 DEF Constructed
<1>7. HoldsTheLock(printed.final) => HoldsTheLock(printed.final)'
  BY <1>3, <1>5 DEF HoldsTheLock
<1>8. Records(home.final)' = Records(home.final)
  BY DEF Records
<1> QED
  BY <1>6, <1>7, <1>8 DEF FinalIs

-----------------------------------------------------------------------------
(* The steps that make something are named for what they make.             *)
LEMMA Makers ==
  ASSUME NEW k \in 1..Steps
  PROVE  /\ Copying(k) => Gate[k].op \in {"snapshot", "workspace"}
         /\ Sealing(k) => Gate[k].op = "seal" /\ Gate[k].to \in {"snapshot", "workspace"}
         /\ Opening(k) => Gate[k].op = "fresh"
         /\ Constructing(k) => Gate[k].op = "construct"
<1>1. \A name, x, y, item : Op(name, x, y, item).op = name /\ Op(name, x, y, item).to = y
  BY DEF Op
<1>2. Copying(k) => Gate[k].op \in {"snapshot", "workspace"}
  BY <1>1 DEF Copying, Trees
<1>3. Sealing(k) => Gate[k].op = "seal" /\ Gate[k].to \in {"snapshot", "workspace"}
  BY <1>1 DEF Sealing, Trees
<1>4. (Opening(k) => Gate[k].op = "fresh") /\ (Constructing(k) => Gate[k].op = "construct")
  BY <1>1 DEF Opening, Constructing
<1> QED
  BY <1>2, <1>3, <1>4

(* Steps that only look, until the home is sealed.                         *)
LEMMA LookOnly ==
  ASSUME NEW k \in 1..Steps, Known(k), UNCHANGED <<lock, home, trees, ledger, printed>>,
         Gate[k].op \in SelectNames \cup {"closed", "final", "registry", "checkout"},
         k = DatabaseAt => TreeFiles(lock.tree) # Nil,
         k = DatabaseAt + 2 => Marker \notin DOMAIN TreeFiles(lock.tree)
  PROVE  Known(k + 1)'
<1> DEFINE names == SelectNames \cup {"closed", "final", "registry", "checkout"}
<1>1. ~Copying(k) /\ ~Sealing(k) /\ ~Opening(k) /\ ~Constructing(k)
  BY Makers DEF SelectNames
<1>2. ASSUME Finishing(k) PROVE k = DatabaseAt + 1 \/ k = DatabaseAt + 2
  <2>1. PICK i \in 1..7 : k = DatabaseAt + i /\ Gate[k] = Finish[i]
    BY <1>2 DEF Finishing
  <2>2. /\ Finish[3].op = "seal" /\ Finish[4].op = "chown" /\ Finish[5].op = "verify"
        /\ Finish[6].op = "verify" /\ Finish[7].op = "verify"
    BY DEF Finish, Op
  <2>3. i = 1 \/ i = 2 \/ i = 3 \/ i = 4 \/ i = 5 \/ i = 6 \/ i = 7
    OBVIOUS
  <2>4. i = 1 \/ i = 2
    BY <2>1, <2>2, <2>3 DEF SelectNames
  <2> QED
    BY <2>1, <2>4
<1>3. /\ k > SealAt("workspace") /\ k > SealAt("snapshot") /\ k # FreshAt /\ k # ConstructAt
      /\ k <= DatabaseAt + 2
  BY <1>1, <1>2, StepIs, Numbers DEF Rehearsing, Filling, Looking
<1>4. /\ k # SealHomeAt /\ k # ChownAt /\ k # VerifiedAt("final")
      /\ k # VerifiedAt("snapshot") /\ k # VerifiedAt("workspace")
  BY <1>3, Numbers
<1>5. ASSUME NEW name \in Trees PROVE TreeIs(k + 1, name)'
  <2>1. k > SealAt(name) /\ k # VerifiedAt(name)
    BY <1>3, <1>4 DEF Trees
  <2>2. TreeIs(k, name)
    BY DEF Known
  <2> QED
    BY <1>4, <2>1, <2>2, TreeStays
<1>6. FinalIs(k + 1)'
  BY <1>3, <1>4, FinalStays DEF Known
<1>7. LockIs(k + 1)'
  BY Numbers DEF Known, LockIs
<1>8. Shape'
  BY DEF Known, Shape
<1> QED
  BY <1>5, <1>6, <1>7, <1>8 DEF Known

(* Steps that write a home, until the one that is built from is            *)
(* constructed.                                                            *)
LEMMA HomeWritten ==
  ASSUME NEW k \in 1..Steps, Known(k), UNCHANGED <<lock, trees, ledger, printed>>,
         Gate[k].op \in {"fresh", "copy", "clone", "unpack"},
         NEW y, NEW h, home' = [home EXCEPT ![y] = h],
         k = FreshAt => y = "final",
         y = "final" /\ k >= FreshAt => DOMAIN h = HomeFields /\ h.strays = {}
  PROVE  Known(k + 1)'
<1>1. ~Copying(k) /\ ~Sealing(k) /\ ~Constructing(k) /\ ~Looking(k)
  BY Makers DEF Looking, SelectNames
<1>2. ~Finishing(k)
  <2> SUFFICES ASSUME Finishing(k) PROVE FALSE
    OBVIOUS
  <2>1. PICK i \in 1..7 : Gate[k] = Finish[i]
    BY DEF Finishing
  <2>2. /\ Finish[1].op = "registry" /\ Finish[2].op = "checkout" /\ Finish[3].op = "seal"
        /\ Finish[4].op = "chown" /\ Finish[5].op = "verify" /\ Finish[6].op = "verify"
        /\ Finish[7].op = "verify"
    BY DEF Finish, Op
  <2>3. i = 1 \/ i = 2 \/ i = 3 \/ i = 4 \/ i = 5 \/ i = 6 \/ i = 7
    OBVIOUS
  <2> QED
    BY <2>1, <2>2, <2>3
<1>3. k > SealAt("workspace") /\ k > SealAt("snapshot") /\ k < ConstructAt
  BY <1>1, <1>2, StepIs, Numbers DEF Rehearsing, Opening, Filling
<1>4. /\ k # SealHomeAt /\ k # ChownAt /\ k # VerifiedAt("final") /\ k # DatabaseAt
      /\ k # VerifiedAt("snapshot") /\ k # VerifiedAt("workspace") /\ k # DatabaseAt + 2
  BY <1>3, Numbers
<1>5. ASSUME NEW name \in Trees PROVE TreeIs(k + 1, name)'
  <2>1. k > SealAt(name) /\ k # VerifiedAt(name)
    BY <1>3, <1>4 DEF Trees
  <2>2. TreeIs(k, name)
    BY DEF Known
  <2> QED
    BY <1>4, <2>1, <2>2, TreeStays
<1>6. DOMAIN home' = Homes /\ home'.final = IF y = "final" THEN h ELSE home.final
  BY DEF Known, Shape, Homes
<1>7. FinalIs(k + 1)'
  <2>1. /\ k + 1 <= SealHomeAt /\ ~(k + 1 > ConstructAt) /\ ~(k + 1 > SealHomeAt)
        /\ ~(k + 1 > ChownAt) /\ ~(k + 1 > VerifiedAt("final")) /\ k <= SealHomeAt
    BY <1>3, Numbers
  <2>2. ledger'.final = Nil
    BY <2>1 DEF Known, FinalIs
  <2>3. k + 1 > FreshAt => DOMAIN home'.final = HomeFields /\ home'.final.strays = {}
    <3>1. CASE y = "final"
      BY <1>6, <3>1, Numbers
    <3>2. CASE y # "final"
      <4>1. k + 1 > FreshAt => k > FreshAt
        BY <3>2, Numbers
      <4> QED
        BY <1>6, <2>1, <3>2, <4>1 DEF Known, FinalIs
    <3> QED
      BY <3>1, <3>2
  <2> QED
    BY <2>1, <2>2, <2>3 DEF FinalIs
<1>8. LockIs(k + 1)'
  BY <1>4, LockStays DEF Known
<1>9. Shape'
  BY <1>6 DEF Known, Shape
<1> QED
  BY <1>5, <1>7, <1>8, <1>9 DEF Known

(* A step leads on if what it leads to is known, or else it refuses.       *)
LEMMA Onward ==
  ASSUME NEW k \in 1..Steps, Progress(k + 1)', Known(k + 1)'
  PROVE  SnapshotInvariant'
  BY Numbers DEF SnapshotInvariant

(* A gate that has refused keeps the invariant.                            *)
LEMMA Stopped ==
  ASSUME Rejected'
  PROVE  SnapshotInvariant'
  BY DEF SnapshotInvariant

(* The steps that look at a cache keep the invariant.                      *)
LEMMA Looks ==
  ASSUME NEW k \in 1..Steps, Progress(k), Known(k),
         Begin \/ SelectConfig \/ SelectArchive \/ SelectIndex \/ Closed \/ FinalIsFresh
           \/ ValidateRegistry
  PROVE  SnapshotInvariant'
<1>1. /\ UNCHANGED <<lock, home, trees, ledger, printed>> /\ (Go \/ Refuse)
      /\ Head(todo).op \in (SelectNames \ {"database"}) \cup {"closed", "final", "registry"}
  BY DEF Begin, SelectConfig, SelectArchive, SelectIndex, Closed, FinalIsFresh, ValidateRegistry,
         At, Only, Selecting, SelectNames
<1>2. Gate[k].op \in (SelectNames \ {"database"}) \cup {"closed", "final", "registry"}
  BY <1>1, Going
<1>3. k # DatabaseAt
  <2> SUFFICES ASSUME k = DatabaseAt PROVE FALSE
    OBVIOUS
  <2>1. Gate[k].op = "database"
    BY StepIs, Numbers DEF Copying, Sealing, Rehearsing, Opening, Filling, Constructing, Looking,
                           Finishing, Trees
  <2> QED
    BY <1>2, <2>1
<1>4. k # DatabaseAt + 2
  <2> SUFFICES ASSUME k = DatabaseAt + 2 PROVE FALSE
    OBVIOUS
  <2>1. Finishing(k)
    BY StepIs, Numbers DEF Copying, Sealing, Rehearsing, Opening, Filling, Constructing, Looking, Trees
  <2>2. Gate[k] = Finish[2]
    BY <2>1, Numbers DEF Finishing
  <2>3. Gate[k].op = "checkout"
    BY <2>2 DEF Finish, Op
  <2> QED
    BY <1>2, <2>3 DEF SelectNames
<1>5. Known(k + 1)'
  BY <1>1, <1>2, <1>3, <1>4, LookOnly
<1> QED
  BY <1>1, <1>5, Going, Onward, Stopped

(* So does the look at the database, which reads the listing.              *)
LEMMA LooksAtDatabase ==
  ASSUME NEW k \in 1..Steps, Progress(k), Known(k), SelectDatabase
  PROVE  SnapshotInvariant'
<1>1. /\ UNCHANGED <<lock, home, trees, ledger, printed>> /\ Only(DatabaseHolds(X.db))
      /\ Head(todo).op = "database"
  BY DEF SelectDatabase, At, Selecting
<1>2. Gate[k].op = "database"
  BY <1>1, Going
<1>3. CASE DatabaseHolds(X.db)
  <2>1. TreeFiles(lock.tree) # Nil /\ Go
    BY <1>1, <1>3 DEF DatabaseHolds, Only
  <2>2. k # DatabaseAt + 2
    <3> SUFFICES ASSUME k = DatabaseAt + 2 PROVE FALSE
      OBVIOUS
    <3>1. Finishing(k)
      BY StepIs, Numbers DEF Copying, Sealing, Rehearsing, Opening, Filling, Constructing, Looking, Trees
    <3>2. Gate[k] = Finish[2]
      BY <3>1, Numbers DEF Finishing
    <3>3. Gate[k].op = "checkout"
      BY <3>2 DEF Finish, Op
    <3> QED
      BY <1>2, <3>3
  <2>3. Known(k + 1)'
    BY <1>1, <1>2, <2>1, <2>2, LookOnly DEF SelectNames
  <2> QED
    BY <2>1, <2>3, Going, Onward
<1>4. CASE ~DatabaseHolds(X.db)
  BY <1>1, <1>4, Going, Stopped DEF Only
<1> QED
  BY <1>3, <1>4

(* The checkout that is compared has no mark of its own in its commit.     *)
LEMMA LooksAtCheckout ==
  ASSUME NEW k \in 1..Steps, Progress(k), Known(k), ValidateCheckouts
  PROVE  SnapshotInvariant'
<1> DEFINE good == /\ X.db.intact /\ Y.checkout # Nil
                   /\ CheckoutHolds(Y.checkout, Head(todo).to, Head(todo).to = "final")
<1>1. UNCHANGED <<lock, home, trees, ledger, printed>> /\ Only(good) /\ Head(todo).op = "checkout"
  BY DEF ValidateCheckouts, At
<1>2. Gate[k].op = "checkout"
  BY <1>1, Going
<1>3. CASE good
  <2>1. Go
    BY <1>1, <1>3 DEF Only
  <2>2. Without(RegularTree(Y.checkout.tree).files, Marker) = TreeFiles(lock.tree)
    BY <1>3 DEF CheckoutHolds
  <2>3. Marker \notin DOMAIN TreeFiles(lock.tree)
    BY <2>2 DEF Without
  <2>4. k # DatabaseAt
    BY <1>2, StepIs, Numbers DEF Copying, Sealing, Rehearsing, Opening, Filling, Constructing, Looking,
                                 Finishing, Trees
  <2>5. Known(k + 1)'
    BY <1>1, <1>2, <2>3, <2>4, LookOnly
  <2> QED
    BY <2>1, <2>5, Going, Onward
<1>4. CASE ~good
  BY <1>1, <1>4, Going, Stopped DEF Only
<1> QED
  BY <1>3, <1>4

(* A file that is written, or the databases, leave the home one that was   *)
(* made here.                                                              *)
LEMMA FileWritten ==
  ASSUME NEW h, DOMAIN h = HomeFields, h.strays = {}, NEW item, NEW content
  PROVE  /\ DOMAIN WithFile(h, item, content) = HomeFields /\ WithFile(h, item, content).strays = {}
         /\ DOMAIN [h EXCEPT !.db = content] = HomeFields /\ [h EXCEPT !.db = content].strays = {}
  BY DEF WithFile, HomeFields

(* The steps that fill a cache keep the invariant.                         *)
LEMMA FillsHome ==
  ASSUME NEW k \in 1..Steps, Progress(k), Known(k), CopyFile \/ Clone \/ Fresh \/ CargoUnpacks
  PROVE  SnapshotInvariant'
<1>1. Head(todo) = Gate[k]
  BY Going
<1> DEFINE y == Gate[k].to
<1>2. y = "final" /\ k > FreshAt /\ Gate[k].op \in {"copy", "clone"} =>
        DOMAIN home.final = HomeFields /\ home.final.strays = {}
  <2> SUFFICES ASSUME k > FreshAt, Gate[k].op \in {"copy", "clone"}
               PROVE  DOMAIN home.final = HomeFields /\ home.final.strays = {}
    OBVIOUS
  <2>1. k <= SealHomeAt
    <3>1. CASE Finishing(k)
      <4>1. PICK i \in 1..7 : k = DatabaseAt + i /\ Gate[k] = Finish[i]
        BY <3>1 DEF Finishing
      <4>2. /\ Finish[4].op = "chown" /\ Finish[5].op = "verify"
            /\ Finish[6].op = "verify" /\ Finish[7].op = "verify"
        BY DEF Finish, Op
      <4>3. i = 1 \/ i = 2 \/ i = 3 \/ i = 4 \/ i = 5 \/ i = 6 \/ i = 7
        OBVIOUS
      <4>4. i <= 3
        BY <4>1, <4>2, <4>3
      <4> QED
        BY <4>1, <4>4, Numbers
    <3>2. CASE ~Finishing(k)
      <4>1. ~Copying(k) /\ ~Sealing(k)
        BY Makers
      <4> QED
        BY <3>2, <4>1, StepIs, Numbers DEF Rehearsing, Opening, Filling, Constructing, Looking
    <3> QED
      BY <3>1, <3>2
  <2> QED
    BY <2>1 DEF Known, FinalIs
<1>3. k = FreshAt => Gate[k] = Op("fresh", "authority", "final", Nil)
  <2>1. k = FreshAt => ~Copying(k) /\ ~Sealing(k)
    BY SealsComeFirst, Numbers DEF Copying, Sealing
  <2> QED
    BY <2>1, StepIs, Numbers DEF Rehearsing, Opening, Filling, Constructing, Looking, Finishing
<1>4. k = FreshAt => Gate[k].op = "fresh" /\ y = "final"
  BY <1>3 DEF Op
<1>5. CASE CopyFile
  <2> DEFINE good == FileIn(X, Item) = selected[Item] /\ Cardinality(DOMAIN selected) <= MaxCacheFiles
  <2>1. /\ Only(good) /\ Gate[k].op = "copy" /\ UNCHANGED <<lock, trees, ledger, printed>>
        /\ good => Into(WithFile(Y, Item, FileIn(X, Item)))
    BY <1>1, <1>5 DEF CopyFile, At
  <2>2. CASE good
    <3> DEFINE h == WithFile(home[y], Item, FileIn(X, Item))
    <3>1. home' = [home EXCEPT ![y] = h] /\ Go
      BY <1>1, <2>1, <2>2 DEF Into, Y, Only
    <3>2. y = "final" /\ k >= FreshAt => DOMAIN h = HomeFields /\ h.strays = {}
      BY <1>2, <1>4, <2>1, FileWritten, Numbers
    <3> HIDE DEF h
    <3>3. Known(k + 1)'
      BY <1>4, <2>1, <3>1, <3>2, HomeWritten
    <3> QED
      BY <3>1, <3>3, Going, Onward
  <2>3. CASE ~good
    BY <2>1, <2>3, Going, Stopped DEF Only
  <2> QED
    BY <2>2, <2>3
<1>6. CASE Clone
  <2>1. PICK db : Only(DatabaseHolds(db)) /\ Into([Y EXCEPT !.db = db])
    BY <1>6 DEF Clone
  <2>2. Gate[k].op = "clone" /\ UNCHANGED <<lock, trees, ledger, printed>>
    BY <1>1, <1>6 DEF Clone, At
  <2> DEFINE h == [home[y] EXCEPT !.db = db]
  <2>3. home' = [home EXCEPT ![y] = h]
    BY <1>1, <2>1 DEF Into, Y
  <2>4. y = "final" /\ k >= FreshAt => DOMAIN h = HomeFields /\ h.strays = {}
    BY <1>2, <1>4, <2>2, FileWritten, Numbers
  <2> HIDE DEF h
  <2>5. Known(k + 1)'
    BY <1>4, <2>2, <2>3, <2>4, HomeWritten
  <2> QED
    BY <2>1, <2>5, Going, Onward, Stopped DEF Only
<1>7. CASE Fresh
  <2>1. /\ Only(Y = Nil) /\ Gate[k].op = "fresh" /\ UNCHANGED <<lock, trees, ledger, printed>>
        /\ Y = Nil => Into(Empty)
    BY <1>1, <1>7 DEF Fresh, At
  <2>2. CASE Y = Nil
    <3>1. home' = [home EXCEPT ![y] = Empty] /\ Go
      BY <1>1, <2>1, <2>2 DEF Into, Only
    <3>2. DOMAIN Empty = HomeFields /\ Empty.strays = {}
      BY DEF Empty, HomeFields
    <3>3. Known(k + 1)'
      BY <1>4, <2>1, <3>1, <3>2, HomeWritten
    <3> QED
      BY <3>1, <3>3, Going, Onward
  <2>3. CASE Y # Nil
    BY <2>1, <2>3, Going, Stopped DEF Only
  <2> QED
    BY <2>2, <2>3
<1>8. CASE CargoUnpacks
  <2>1. /\ Only(\A p \in Locked : Package(p) # Nil) /\ Gate[k].op = "unpack"
        /\ UNCHANGED <<lock, trees, ledger, printed>>
    BY <1>1, <1>8 DEF CargoUnpacks, At
  <2>2. PICK h : Into(h)
    BY <1>8 DEF CargoUnpacks
  <2>3. home' = [home EXCEPT ![y] = h]
    BY <1>1, <2>2 DEF Into
  <2>4. k < FreshAt
    <3>1. ~Copying(k) /\ ~Sealing(k) /\ ~Opening(k) /\ ~Constructing(k) /\ ~Filling(k) /\ ~Looking(k)
      BY <2>1, Makers DEF Filling, Looking, CopyNames, SelectNames
    <3>2. ~Finishing(k)
      <4> SUFFICES ASSUME Finishing(k) PROVE FALSE
        OBVIOUS
      <4>1. PICK i \in 1..7 : Gate[k] = Finish[i]
        BY DEF Finishing
      <4>2. /\ Finish[1].op = "registry" /\ Finish[2].op = "checkout" /\ Finish[3].op = "seal"
            /\ Finish[4].op = "chown" /\ Finish[5].op = "verify" /\ Finish[6].op = "verify"
            /\ Finish[7].op = "verify"
        BY DEF Finish, Op
      <4>3. i = 1 \/ i = 2 \/ i = 3 \/ i = 4 \/ i = 5 \/ i = 6 \/ i = 7
        OBVIOUS
      <4> QED
        BY <2>1, <4>1, <4>2, <4>3
    <3> QED
      BY <3>1, <3>2, StepIs DEF Rehearsing
  <2>5. ~(k >= FreshAt) /\ k # FreshAt
    BY <2>4, Numbers
  <2>6. Known(k + 1)'
    BY <2>1, <2>3, <2>5, HomeWritten
  <2> QED
    BY <2>1, <2>6, Going, Onward, Stopped DEF Only
<1> QED
  BY <1>5, <1>6, <1>7, <1>8

(* The construction: every package from its archive, and the commit.       *)
LEMMA Constructs ==
  ASSUME NEW k \in 1..Steps, Progress(k), Known(k), Construct
  PROVE  SnapshotInvariant'
<1> DEFINE good == \A p \in Locked : Package(p) # Nil
<1>1. /\ Head(todo) = Gate[k] /\ Gate[k].op = "construct" /\ Only(good)
      /\ UNCHANGED <<lock, trees, ledger, printed>>
  BY Going DEF Construct, At
<1>2. CASE good
  <2>1. k = ConstructAt /\ Gate[k].to = "final"
    <3>1. ~Copying(k) /\ ~Sealing(k) /\ ~Opening(k) /\ ~Rehearsing(k) /\ ~Filling(k) /\ ~Looking(k)
      BY <1>1, Makers DEF Rehearsing, Filling, Looking, HomeNames, CopyNames, SelectNames
    <3>2. ~Finishing(k)
      <4> SUFFICES ASSUME Finishing(k) PROVE FALSE
        OBVIOUS
      <4>1. PICK i \in 1..7 : Gate[k] = Finish[i]
        BY DEF Finishing
      <4>2. /\ Finish[1].op = "registry" /\ Finish[2].op = "checkout" /\ Finish[3].op = "seal"
            /\ Finish[4].op = "chown" /\ Finish[5].op = "verify" /\ Finish[6].op = "verify"
            /\ Finish[7].op = "verify"
        BY DEF Finish, Op
      <4>3. i = 1 \/ i = 2 \/ i = 3 \/ i = 4 \/ i = 5 \/ i = 6 \/ i = 7
        OBVIOUS
      <4> QED
        BY <1>1, <4>1, <4>2, <4>3
    <3>3. Constructing(k)
      BY <3>1, <3>2, StepIs
    <3> QED
      BY <3>3 DEF Constructing, Op
  <2> DEFINE h == [home.final EXCEPT !.src = [p \in Locked |-> Package(p)],
                                     !.checkout = Checkout(lock.tree, ConstructedMeta)]
  <2>2. home' = [home EXCEPT !["final"] = h] /\ Go
    BY <1>1, <1>2, <2>1 DEF Construct, Into, Y, Only
  <2>3. /\ DOMAIN home.final = HomeFields /\ home.final.strays = {} /\ ledger.final = Nil
    BY <2>1, Numbers DEF Known, FinalIs
  <2>4. DOMAIN h = HomeFields /\ h.strays = {} /\ Constructed(h)
    BY <1>2, <2>3 DEF HomeFields, Constructed
  <2> HIDE DEF h
  <2>5. DOMAIN home' = Homes /\ home'.final = h
    BY <2>2 DEF Known, Shape, Homes
  <2>6. Constructed(home.final)'
    <3>1. PICK g : g = h
      OBVIOUS
    <3>2. Constructed(g)
      BY <2>4, <3>1
    <3>3. Constructed(g)'
      BY <1>1, <3>2 DEF Constructed, Package
    <3> QED
      BY <2>5, <3>1, <3>3 DEF Constructed
  <2>7. FinalIs(k + 1)'
    <3>1. /\ k + 1 <= SealHomeAt /\ ~(k + 1 > SealHomeAt)
          /\ ~(k + 1 > ChownAt) /\ ~(k + 1 > VerifiedAt("final"))
      BY <2>1, Numbers
    <3> QED
      BY <1>1, <2>3, <2>4, <2>5, <2>6, <3>1 DEF FinalIs
  <2>8. ASSUME NEW name \in Trees PROVE TreeIs(k + 1, name)'
    <3>1. k > SealAt(name) /\ k # ChownAt /\ k # VerifiedAt(name)
      BY <2>1, SealsComeFirst, Numbers
    <3>2. TreeIs(k, name)
      BY DEF Known
    <3> QED
      BY <1>1, <3>1, <3>2, TreeStays
  <2>9. LockIs(k + 1)'
    BY <1>1, <2>1, Numbers, LockStays DEF Known
  <2>10. Shape'
    BY <1>1, <2>5 DEF Known, Shape
  <2>11. Known(k + 1)'
    BY <2>7, <2>8, <2>9, <2>10 DEF Known
  <2> QED
    BY <2>2, <2>11, Going, Onward
<1>3. CASE ~good
  BY <1>1, <1>3, Going, Stopped DEF Only
<1> QED
  BY <1>2, <1>3

-----------------------------------------------------------------------------
(* The steps that take and seal a tree are where it is made.               *)
LEMMA LastSteps ==
  ASSUME NEW k \in 1..Steps
  PROVE  /\ Finishing(k) => Gate[k].op \in {"registry", "checkout", "seal", "chown", "verify"}
         /\ Finishing(k) /\ Gate[k].op = "seal" => k = SealHomeAt /\ Gate[k].to = "final"
         /\ Finishing(k) /\ Gate[k].op = "chown" => k = ChownAt
         /\ Finishing(k) /\ Gate[k].op = "verify" =>
              Gate[k].to \in {"final"} \cup Trees /\ k = VerifiedAt(Gate[k].to)
<1> SUFFICES ASSUME Finishing(k)
             PROVE  /\ Gate[k].op \in {"registry", "checkout", "seal", "chown", "verify"}
                    /\ Gate[k].op = "seal" => k = SealHomeAt /\ Gate[k].to = "final"
                    /\ Gate[k].op = "chown" => k = ChownAt
                    /\ Gate[k].op = "verify" =>
                         Gate[k].to \in {"final"} \cup Trees /\ k = VerifiedAt(Gate[k].to)
  OBVIOUS
<1>1. PICK i \in 1..7 : k = DatabaseAt + i /\ Gate[k] = Finish[i]
  BY DEF Finishing
<1>2. /\ Finish[1].op = "registry" /\ Finish[2].op = "checkout"
      /\ Finish[3].op = "seal" /\ Finish[3].to = "final" /\ Finish[4].op = "chown"
      /\ Finish[5].op = "verify" /\ Finish[5].to = "final"
      /\ Finish[6].op = "verify" /\ Finish[6].to = "snapshot"
      /\ Finish[7].op = "verify" /\ Finish[7].to = "workspace"
  BY DEF Finish, Op
<1>3. i = 1 \/ i = 2 \/ i = 3 \/ i = 4 \/ i = 5 \/ i = 6 \/ i = 7
  OBVIOUS
<1>4. Gate[k].op \in {"registry", "checkout", "seal", "chown", "verify"}
  BY <1>1, <1>2, <1>3
<1>5. Gate[k].op = "seal" => k = SealHomeAt /\ Gate[k].to = "final"
  BY <1>1, <1>2, <1>3, Numbers
<1>6. Gate[k].op = "chown" => k = ChownAt
  BY <1>1, <1>2, <1>3, Numbers
<1>7. Gate[k].op = "verify" => i = 5 \/ i = 6 \/ i = 7
  BY <1>1, <1>2, <1>3
<1>8. Gate[k].op = "verify" => Gate[k].to \in {"final"} \cup Trees /\ k = VerifiedAt(Gate[k].to)
  BY <1>1, <1>2, <1>7, Numbers DEF Trees
<1> QED
  BY <1>4, <1>5, <1>6, <1>8

(* A file that is taken into a tree is the reviewed one.                   *)
LEMMA Taking ==
  ASSUME NEW k \in 1..Steps, Known(k), UNCHANGED <<lock, home, ledger, printed>>,
         NEW name \in Trees, NEW i \in 1..FileCount, k = Start(name) + i,
         DOMAIN trees' = Trees, \A other \in Trees \ {name} : trees'[other] = trees[other],
         DOMAIN trees'[name] = TreeFields,
         trees'[name].files =
           With(trees[name].files, Files[i], Node("file", "reviewed", CopyMode(name)))
  PROVE  Known(k + 1)'
<1>1. /\ k + 1 <= SealAt(name) /\ ~(k + 1 > SealAt(name)) /\ k <= SealAt(name)
      /\ ~(k + 1 > ChownAt) /\ ~(k + 1 > VerifiedAt(name)) /\ k < FreshAt
  BY SealsComeFirst, Numbers
<1>2. TreeIs(k, name)
  BY DEF Known
<1>3. AllReviewed(trees[name].files, CopyMode(name)) /\ ledger[name] = Nil
  BY <1>1, <1>2 DEF TreeIs
<1>4. AllReviewed(trees'[name].files, CopyMode(name))
  BY <1>3 DEF AllReviewed, With
<1>5. \A j \in 1..FileCount : Start(name) + j < k + 1 => Files[j] \in DOMAIN trees'[name].files
  <2> SUFFICES ASSUME NEW j \in 1..FileCount, Start(name) + j < k + 1
               PROVE  Files[j] \in DOMAIN trees'[name].files
    OBVIOUS
  <2>1. j = i \/ Start(name) + j < k
    BY SealsComeFirst, Numbers
  <2>2. DOMAIN trees'[name].files = DOMAIN trees[name].files \cup {Files[i]}
    BY DEF With
  <2>3. Start(name) + j < k => Files[j] \in DOMAIN trees[name].files
    BY <1>1, <1>2 DEF TreeIs
  <2> QED
    BY <2>1, <2>2, <2>3
<1>6. TreeIs(k + 1, name)'
  BY <1>1, <1>3, <1>4, <1>5 DEF TreeIs, AllReviewed
<1>7. ASSUME NEW other \in Trees \ {name} PROVE TreeIs(k + 1, other)'
  <2>1. k <= Start(other) \/ k > SealAt(other)
    BY Numbers DEF Trees
  <2>2. k # ChownAt /\ k # VerifiedAt(other)
    BY <1>1, SealsComeFirst, Numbers
  <2>3. TreeIs(k, other)
    BY DEF Known
  <2> QED
    BY <2>1, <2>2, <2>3, TreeStays
<1>8. FinalIs(k + 1)'
  <2>1. /\ k # FreshAt /\ k # ConstructAt /\ k # SealHomeAt /\ k # ChownAt
        /\ k # VerifiedAt("final")
    BY <1>1, Numbers
  <2> QED
    BY <2>1, FinalStays DEF Known
<1>9. LockIs(k + 1)'
  BY <1>1, Numbers, LockStays DEF Known
<1>10. Shape'
  BY DEF Known, Shape
<1> QED
  BY <1>6, <1>7, <1>8, <1>9, <1>10 DEF Known

(* Where a step takes a file, and which.                                   *)
LEMMA TakesFile ==
  ASSUME NEW k \in 1..Steps, NEW name \in Trees, Gate[k].op = name
  PROVE  \E i \in 1..FileCount : k = Start(name) + i /\ Gate[k].item = Files[i]
<1>1. ~Sealing(k) /\ ~Opening(k) /\ ~Constructing(k)
  BY Makers DEF Trees
<1>2. ~Rehearsing(k) /\ ~Filling(k) /\ ~Looking(k)
  BY DEF Rehearsing, Filling, Looking, HomeNames, CopyNames, SelectNames, Trees
<1>3. ~Finishing(k)
  BY LastSteps DEF Trees
<1>4. Copying(k)
  BY <1>1, <1>2, <1>3, StepIs
<1>5. PICK other \in Trees : \E i \in 1..FileCount :
        k = Start(other) + i /\ Gate[k] = Op(other, "source", "source", Files[i])
  BY <1>4 DEF Copying
<1>6. PICK i \in 1..FileCount : k = Start(other) + i /\ Gate[k] = Op(other, "source", "source", Files[i])
  BY <1>5
<1>7. other = name /\ Gate[k].item = Files[i]
  BY <1>6 DEF Op
<1> QED
  BY <1>6, <1>7

(* Taking a file into a tree keeps the invariant.                          *)
LEMMA Takes ==
  ASSUME NEW k \in 1..Steps, Progress(k), Known(k), CopyReviewed \/ CopyWorkspace
  PROVE  SnapshotInvariant'
<1>1. Head(todo) = Gate[k]
  BY Going
<1>2. CASE CopyReviewed
  <2> DEFINE good == work[Item].data = "reviewed"
  <2>1. /\ Only(good) /\ Gate[k].op = "snapshot" /\ UNCHANGED <<lock, home, ledger, printed>>
        /\ trees' = [trees EXCEPT
             !["snapshot"].files = With(@, Item, File(work[Item].data, "600")),
             !["snapshot"].inventory = With(@, Item, work[Item].data)]
    BY <1>1, <1>2 DEF CopyReviewed, At
  <2>2. CASE good
    <3>1. PICK i \in 1..FileCount : k = Start("snapshot") + i /\ Gate[k].item = Files[i]
      BY <2>1, TakesFile DEF Trees
    <3>2. Item = Files[i] /\ File(work[Item].data, "600") = Node("file", "reviewed", CopyMode("snapshot"))
      BY <1>1, <2>2, <3>1 DEF File, CopyMode, Item
    <3>3. DOMAIN trees = Trees /\ DOMAIN trees["snapshot"] = TreeFields
      BY DEF Known, Shape, TreeIs, Trees
    <3> DEFINE new == With(trees["snapshot"].files, Item, File(work[Item].data, "600"))
               inventory == With(trees["snapshot"].inventory, Item, work[Item].data)
    <3>4. trees' = [trees EXCEPT !["snapshot"] =
                      [[trees["snapshot"] EXCEPT !.files = new] EXCEPT !.inventory = inventory]]
      BY <2>1, <3>3 DEF Trees, TreeFields
    <3> HIDE DEF new, inventory
    <3>5. /\ DOMAIN trees' = Trees /\ \A other \in Trees \ {"snapshot"} : trees'[other] = trees[other]
          /\ DOMAIN trees'["snapshot"] = TreeFields /\ trees'["snapshot"].files = new
      BY <3>3, <3>4 DEF Trees, TreeFields
    <3>6. new = With(trees["snapshot"].files, Files[i], Node("file", "reviewed", CopyMode("snapshot")))
      BY <3>2 DEF new
    <3>7. "snapshot" \in Trees
      BY DEF Trees
    <3>8. Known(k + 1)'
      BY <2>1, <3>1, <3>5, <3>6, <3>7, Taking
    <3> QED
      BY <2>1, <2>2, <3>8, Going, Onward DEF Only
  <2>3. CASE ~good
    BY <2>1, <2>3, Going, Stopped DEF Only
  <2> QED
    BY <2>2, <2>3
<1>3. CASE CopyWorkspace
  <2> DEFINE good == work[Item] = File("reviewed", "644")
  <2>1. /\ Only(good) /\ Gate[k].op = "workspace" /\ UNCHANGED <<lock, home, ledger, printed>>
        /\ trees' = [trees EXCEPT !["workspace"].files = With(@, Item, work[Item])]
    BY <1>1, <1>3 DEF CopyWorkspace, At
  <2>2. CASE good
    <3>1. PICK i \in 1..FileCount : k = Start("workspace") + i /\ Gate[k].item = Files[i]
      BY <2>1, TakesFile DEF Trees
    <3>2. Item = Files[i] /\ work[Item] = Node("file", "reviewed", CopyMode("workspace"))
      BY <1>1, <2>2, <3>1 DEF File, CopyMode, Item
    <3>3. DOMAIN trees = Trees /\ DOMAIN trees["workspace"] = TreeFields
      BY DEF Known, Shape, TreeIs, Trees
    <3> DEFINE new == With(trees["workspace"].files, Item, work[Item])
    <3>4. trees' = [trees EXCEPT !["workspace"] = [trees["workspace"] EXCEPT !.files = new]]
      BY <2>1, <3>3 DEF Trees, TreeFields
    <3> HIDE DEF new
    <3>5. /\ DOMAIN trees' = Trees /\ \A other \in Trees \ {"workspace"} : trees'[other] = trees[other]
          /\ DOMAIN trees'["workspace"] = TreeFields /\ trees'["workspace"].files = new
      BY <3>3, <3>4 DEF Trees, TreeFields
    <3>6. new = With(trees["workspace"].files, Files[i], Node("file", "reviewed", CopyMode("workspace")))
      BY <3>2 DEF new
    <3>7. "workspace" \in Trees
      BY DEF Trees
    <3>8. Known(k + 1)'
      BY <2>1, <3>1, <3>5, <3>6, <3>7, Taking
    <3> QED
      BY <2>1, <2>2, <3>8, Going, Onward DEF Only
  <2>3. CASE ~good
    BY <2>1, <2>3, Going, Stopped DEF Only
  <2> QED
    BY <2>2, <2>3
<1> QED
  BY <1>2, <1>3

(* A tree that is sealed holds the reviewed files.                         *)
LEMMA SealedHoldsTheReviewed ==
  ASSUME NEW t, NEW mode \in {"600", "644"}, DOMAIN t = TreeFields, AllReviewed(t.files, mode),
         Range(Files) \subseteq DOMAIN t.files
  PROVE  DOMAIN LockedTree(t) = TreeFields /\ HoldsTheReviewed(Records(LockedTree(t)))
<1> DEFINE s == LockedTree(t)
           r == Records(s)
<1>1. DOMAIN s = TreeFields /\ s.files = ReadOnly(t.files)
  BY DEF LockedTree, TreeFields
<1> HIDE DEF s
<1>2. DOMAIN r = TreeFields /\ r.files = s.files
  BY <1>1, RecordsKeep DEF TreeFields
<1> HIDE DEF r
<1>3. ASSUME NEW f \in Range(Files)
      PROVE  r.files[f].data = "reviewed" /\ r.files[f].mode = "444"
  <2>1. f \in DOMAIN t.files /\ t.files[f] = Node("file", "reviewed", mode)
    BY DEF AllReviewed
  <2>2. ReadOnly(t.files)[f] =
          Node("file", "reviewed", IF "file" = "dir" \/ mode = "755" THEN "555" ELSE "444")
    BY <2>1, ReadOnlyNode
  <2>3. r.files[f] = Node("file", "reviewed", "444")
    BY <1>1, <1>2, <2>2
  <2> QED
    BY <2>3 DEF Node
<1> QED
  BY <1>1, <1>2, <1>3 DEF HoldsTheReviewed, r, s

(* Sealing a tree keeps the invariant.                                     *)
LEMMA SealsTree ==
  ASSUME NEW k \in 1..Steps, Progress(k), Known(k), Seal, NEW name \in Trees, Gate[k].to = name
  PROVE  SnapshotInvariant'
<1>1. Head(todo) = Gate[k] /\ Gate[k].op = "seal"
  BY Going DEF Seal, At
<1> DEFINE good == ledger[name] = Nil /\ Closure(name) /\ Recordable(name)
           c == LockedTree(trees[name])
           noted == [records |-> Records(c), mode |-> "600", owner |-> "user"]
<1>2. name # "final"
  BY DEF Trees
<1>3. UNCHANGED lock /\ Only(good)
  BY <1>1 DEF Seal
<1>4. CASE good
  <2>1. /\ UNCHANGED home /\ trees' = [trees EXCEPT ![name] = c]
        /\ ledger' = [ledger EXCEPT ![name] = noted] /\ printed' = [printed EXCEPT ![name] = Records(c)]
    BY <1>1, <1>2, <1>4 DEF Seal
  <2>2. Go
    BY <1>3, <1>4 DEF Only
  <2>3. k = SealAt(name)
    <3>1. ~Copying(k) /\ ~Opening(k) /\ ~Constructing(k)
      BY <1>1, Makers
    <3>2. ~Rehearsing(k) /\ ~Filling(k) /\ ~Looking(k)
      BY <1>1 DEF Rehearsing, Filling, Looking, HomeNames, CopyNames, SelectNames, Trees
    <3>3. ~Finishing(k)
      BY <1>1, <1>2, LastSteps
    <3>4. PICK other \in Trees : k = SealAt(other) /\ Gate[k] = Op("seal", other, other, Nil)
      BY <3>1, <3>2, <3>3, StepIs DEF Sealing
    <3> QED
      BY <3>4 DEF Op
  <2>4. TreeIs(k, name) /\ k <= SealAt(name)
    BY <2>3, SealsComeFirst DEF Known
  <2>5. Range(Files) \subseteq DOMAIN trees[name].files
    <3> SUFFICES ASSUME NEW f \in Range(Files) PROVE f \in DOMAIN trees[name].files
      OBVIOUS
    <3>1. PICK i \in 1..FileCount : f = Files[i]
      BY LockCounts DEF Range, FileCount
    <3>2. Start(name) + i < k
      BY <2>3, SealsComeFirst, Numbers
    <3> QED
      BY <2>4, <3>1, <3>2 DEF TreeIs
  <2>6. DOMAIN c = TreeFields /\ HoldsTheReviewed(Records(c))
    <3>1. DOMAIN trees[name] = TreeFields /\ AllReviewed(trees[name].files, CopyMode(name))
      BY <2>4 DEF TreeIs
    <3>2. CopyMode(name) \in {"600", "644"}
      BY DEF CopyMode
    <3> QED
      BY <2>5, <3>1, <3>2, SealedHoldsTheReviewed
  <2> HIDE DEF c
  <2>7. /\ DOMAIN trees' = Trees /\ DOMAIN ledger' = Sealed /\ DOMAIN printed' = Sealed
        /\ trees'[name] = c /\ ledger'[name] = noted /\ printed'[name] = Records(c)
        /\ DOMAIN noted = LedgerFields
    BY <2>1 DEF Known, Shape, Sealed, LedgerFields
  <2>8. HoldsTheReviewed(printed'[name])
    BY <2>6, <2>7
  <2>9. TreeIs(k + 1, name)'
    <3>1. /\ ~(k + 1 <= SealAt(name)) /\ ~(k + 1 > ChownAt) /\ ~(k + 1 > VerifiedAt(name))
      BY <2>3, SealsComeFirst, Numbers
    <3> QED
      BY <2>6, <2>7, <2>8, <3>1 DEF TreeIs, HoldsTheReviewed
  <2>10. ASSUME NEW other \in Trees \ {name} PROVE TreeIs(k + 1, other)'
    <3>1. k <= Start(other) \/ k > SealAt(other)
      BY <2>3, Numbers DEF Trees
    <3>2. k # ChownAt /\ k # VerifiedAt(other)
      BY <2>3, SealsComeFirst, Numbers
    <3>3. TreeIs(k, other)
      BY DEF Known
    <3>4. /\ trees'[other] = trees[other] /\ ledger'[other] = ledger[other]
          /\ printed'[other] = printed[other]
      BY <2>1 DEF Known, Shape, Sealed
    <3> QED
      BY <3>1, <3>2, <3>3, <3>4, TreeStays
  <2>11. FinalIs(k + 1)'
    <3>1. /\ k # FreshAt /\ k # ConstructAt /\ k # SealHomeAt /\ k # ChownAt
          /\ k # VerifiedAt("final")
      BY <2>3, SealsComeFirst, Numbers
    <3>2. home'.final = home.final /\ ledger'.final = ledger.final /\ printed'.final = printed.final
      BY <1>2, <2>1 DEF Known, Shape, Sealed
    <3> QED
      BY <1>3, <3>1, <3>2, FinalStays DEF Known
  <2>12. LockIs(k + 1)'
    BY <1>3, <2>3, SealsComeFirst, Numbers, LockStays DEF Known
  <2>13. Shape'
    BY <2>1, <2>7 DEF Known, Shape
  <2>14. Known(k + 1)'
    BY <2>9, <2>10, <2>11, <2>12, <2>13 DEF Known
  <2> QED
    BY <2>2, <2>14, Going, Onward
<1>5. CASE ~good
  BY <1>3, <1>5, Going, Stopped DEF Only
<1> QED
  BY <1>4, <1>5

(* Sealing the last cache keeps the invariant.                             *)
LEMMA SealsHome ==
  ASSUME NEW k \in 1..Steps, Progress(k), Known(k), Seal, Gate[k].to \notin Trees
  PROVE  SnapshotInvariant'
<1>1. Head(todo) = Gate[k] /\ Gate[k].op = "seal"
  BY Going DEF Seal, At
<1>2. k = SealHomeAt /\ Gate[k].to = "final"
  <2>1. ~Copying(k) /\ ~Opening(k) /\ ~Constructing(k) /\ ~Sealing(k)
    BY <1>1, Makers DEF Trees
  <2>2. ~Rehearsing(k) /\ ~Filling(k) /\ ~Looking(k)
    BY <1>1 DEF Rehearsing, Filling, Looking, HomeNames, CopyNames, SelectNames, Trees
  <2>3. Finishing(k)
    BY <2>1, <2>2, StepIs
  <2> QED
    BY <1>1, <2>3, LastSteps
<1> DEFINE good == ledger.final = Nil /\ Closure("final") /\ Recordable("final")
           c == LockedHome(home.final)
           noted == [records |-> Records(c), mode |-> "600", owner |-> "user"]
<1>3. UNCHANGED lock /\ Only(good)
  BY <1>1, <1>2 DEF Seal
<1>4. CASE good
  <2>1. /\ UNCHANGED trees /\ home' = [home EXCEPT !["final"] = c]
        /\ ledger' = [ledger EXCEPT !["final"] = noted]
        /\ printed' = [printed EXCEPT !["final"] = Records(c)]
    BY <1>1, <1>2, <1>4 DEF Seal
  <2>2. Go
    BY <1>3, <1>4 DEF Only
  <2>3. /\ DOMAIN home.final = HomeFields /\ home.final.strays = {} /\ Constructed(home.final)
        /\ lock \in Locks /\ TreeFiles(lock.tree) # Nil /\ Marker \notin DOMAIN TreeFiles(lock.tree)
    BY <1>2, Numbers DEF Known, FinalIs, LockIs
  <2>4. DOMAIN c = HomeFields /\ HoldsTheLock(Records(c))
    BY <2>3, SealedHoldsTheLock
  <2> HIDE DEF c
  <2>5. /\ DOMAIN home' = Homes /\ DOMAIN ledger' = Sealed /\ DOMAIN printed' = Sealed
        /\ home'.final = c /\ ledger'.final = noted /\ printed'.final = Records(c)
        /\ DOMAIN noted = LedgerFields
    BY <2>1 DEF Known, Shape, Sealed, Homes, LedgerFields
  <2>6. HoldsTheLock(printed.final)'
    <3>1. PICK r : r = Records(c)
      OBVIOUS
    <3>2. HoldsTheLock(r)'
      BY <1>3, <2>4, <3>1 DEF HoldsTheLock
    <3> QED
      BY <2>5, <3>1, <3>2 DEF HoldsTheLock
  <2>7. FinalIs(k + 1)'
    <3>1. /\ ~(k + 1 <= SealHomeAt) /\ ~(k + 1 > ChownAt) /\ ~(k + 1 > VerifiedAt("final"))
      BY <1>2, Numbers
    <3> QED
      BY <2>4, <2>5, <2>6, <3>1 DEF FinalIs
  <2>8. ASSUME NEW name \in Trees PROVE TreeIs(k + 1, name)'
    <3>1. k > SealAt(name) /\ k # ChownAt /\ k # VerifiedAt(name)
      BY <1>2, SealsComeFirst, Numbers
    <3>2. TreeIs(k, name)
      BY DEF Known
    <3>3. ledger'[name] = ledger[name] /\ printed'[name] = printed[name]
      BY <2>1 DEF Known, Shape, Sealed, Trees
    <3> QED
      BY <2>1, <3>1, <3>2, <3>3, TreeStays
  <2>9. LockIs(k + 1)'
    BY <1>2, <1>3, Numbers, LockStays DEF Known
  <2>10. Shape'
    BY <2>1, <2>5 DEF Known, Shape
  <2>11. Known(k + 1)'
    BY <2>7, <2>8, <2>9, <2>10 DEF Known
  <2> QED
    BY <2>2, <2>11, Going, Onward
<1>5. CASE ~good
  BY <1>3, <1>5, Going, Stopped DEF Only
<1> QED
  BY <1>4, <1>5

(* What is sealed is given away.                                           *)
LEMMA Chowns ==
  ASSUME NEW k \in 1..Steps, Progress(k), Known(k), Chown
  PROVE  SnapshotInvariant'
<1>1. Head(todo) = Gate[k] /\ Gate[k].op = "chown" /\ Go /\ UNCHANGED <<lock, printed>>
  BY Going DEF Chown, At
<1>2. k = ChownAt
  <2>1. ~Copying(k) /\ ~Opening(k) /\ ~Constructing(k) /\ ~Sealing(k)
    BY <1>1, Makers
  <2>2. ~Rehearsing(k) /\ ~Filling(k) /\ ~Looking(k)
    BY <1>1 DEF Rehearsing, Filling, Looking, HomeNames, CopyNames, SelectNames
  <2> QED
    BY <1>1, <2>1, <2>2, StepIs, LastSteps
<1>3. /\ home' = [home EXCEPT !["final"] = [home.final EXCEPT !.owner = "root"]]
      /\ trees' = [name \in Trees |-> [trees[name] EXCEPT !.owner = "root"]]
      /\ ledger' = [name \in Sealed |-> [[ledger[name] EXCEPT !.owner = "root"] EXCEPT !.mode = "444"]]
  BY DEF Chown
<1>4. /\ DOMAIN home.final = HomeFields /\ DOMAIN ledger.final = LedgerFields
      /\ HoldsTheLock(printed.final)
  BY <1>2, Numbers DEF Known, FinalIs
<1>5. /\ DOMAIN home' = Homes /\ DOMAIN home'.final = HomeFields /\ home'.final.owner = "root"
      /\ DOMAIN ledger' = Sealed /\ DOMAIN ledger'.final = LedgerFields /\ ledger'.final.owner = "root"
  BY <1>3, <1>4 DEF Known, Shape, Homes, HomeFields, LedgerFields, Sealed
<1>6. FinalIs(k + 1)'
  <2>1. /\ ~(k + 1 <= SealHomeAt) /\ ~(k + 1 > VerifiedAt("final"))
    BY <1>2, Numbers
  <2>2. HoldsTheLock(printed.final)'
    BY <1>1, <1>4 DEF HoldsTheLock
  <2> QED
    BY <1>5, <2>1, <2>2 DEF FinalIs
<1>7. ASSUME NEW name \in Trees PROVE TreeIs(k + 1, name)'
  <2>1. k > SealAt(name) /\ ~(k + 1 <= SealAt(name)) /\ ~(k + 1 > VerifiedAt(name))
    BY <1>2, SealsComeFirst, Numbers
  <2>2. /\ DOMAIN trees[name] = TreeFields /\ DOMAIN ledger[name] = LedgerFields
        /\ HoldsTheReviewed(printed[name])
    BY <2>1 DEF Known, TreeIs
  <2>3. /\ DOMAIN trees'[name] = TreeFields /\ trees'[name].owner = "root"
        /\ DOMAIN ledger'[name] = LedgerFields /\ ledger'[name].owner = "root"
    BY <1>3, <2>2 DEF TreeFields, LedgerFields, Sealed
  <2> QED
    BY <1>1, <2>1, <2>2, <2>3 DEF TreeIs, HoldsTheReviewed
<1>8. LockIs(k + 1)'
  BY <1>1, <1>2, Numbers, LockStays DEF Known
<1>9. Shape'
  BY <1>1, <1>3, <1>5 DEF Known, Shape
<1>10. Known(k + 1)'
  BY <1>6, <1>7, <1>8, <1>9 DEF Known
<1> QED
  BY <1>1, <1>10, Going, Onward

(* What is verified is what was printed.                                   *)
LEMMA Verifies ==
  ASSUME NEW k \in 1..Steps, Progress(k), Known(k), Verify
  PROVE  SnapshotInvariant'
<1>1. /\ Head(todo) = Gate[k] /\ Gate[k].op = "verify"
      /\ UNCHANGED <<lock, home, trees, ledger, printed>>
  BY Going DEF Verify, At
<1> DEFINE name == Gate[k].to
<1>2. name \in {"final"} \cup Trees /\ k = VerifiedAt(name)
  <2>1. ~Copying(k) /\ ~Opening(k) /\ ~Constructing(k) /\ ~Sealing(k)
    BY <1>1, Makers
  <2>2. ~Rehearsing(k) /\ ~Filling(k) /\ ~Looking(k)
    BY <1>1 DEF Rehearsing, Filling, Looking, HomeNames, CopyNames, SelectNames
  <2> QED
    BY <1>1, <2>1, <2>2, StepIs, LastSteps
<1>3. Refuse \/ (Go /\ ParseAuthority(name) # Nil /\ Records(Content(name)) = ParseAuthority(name))
  BY <1>1 DEF Verify, Only
<1>4. CASE Refuse
  BY <1>4, Going, Stopped
<1>5. CASE Go /\ ParseAuthority(name) # Nil /\ Records(Content(name)) = ParseAuthority(name)
  <2>1. Records(Content(name)) = printed[name]
    BY <1>5 DEF ParseAuthority
  <2>2. k > ChownAt /\ k > DatabaseAt + 2
    BY <1>2, Numbers DEF Trees
  <2>3. ASSUME NEW other \in Trees PROVE TreeIs(k + 1, other)'
    <3>1. TreeIs(k, other) /\ k > SealAt(other) /\ k # ChownAt
      BY <2>2, SealsComeFirst, Numbers DEF Known
    <3>2. CASE other # name
      <4>1. k # VerifiedAt(other)
        BY <1>2, <3>2, Numbers DEF Trees
      <4> QED
        BY <1>1, <3>1, <4>1, TreeStays
    <3>3. CASE other = name
      <4>1. Records(trees[other]) = printed[other]
        BY <2>1, <3>3 DEF Content, Trees
      <4>2. /\ ~(k + 1 <= SealAt(other)) /\ DOMAIN trees[other] = TreeFields
            /\ DOMAIN ledger[other] = LedgerFields /\ HoldsTheReviewed(printed[other])
            /\ trees[other].owner = "root" /\ ledger[other].owner = "root"
        BY <2>2, <3>1, SealsComeFirst, Numbers DEF TreeIs
      <4>3. Records(trees[other])' = printed'[other]
        BY <1>1, <4>1 DEF Records
      <4>4. HoldsTheReviewed(printed[other])'
        BY <1>1, <4>2 DEF HoldsTheReviewed
      <4> QED
        BY <1>1, <4>2, <4>3, <4>4 DEF TreeIs
    <3> QED
      BY <3>2, <3>3
  <2>4. FinalIs(k + 1)'
    <3>1. FinalIs(k) /\ k # FreshAt /\ k # ConstructAt /\ k # SealHomeAt /\ k # ChownAt
      BY <2>2, Numbers DEF Known
    <3>2. CASE name # "final"
      <4>1. k # VerifiedAt("final")
        BY <1>2, <3>2, Numbers DEF Trees
      <4> QED
        BY <1>1, <3>1, <4>1, FinalStays
    <3>3. CASE name = "final"
      <4>1. Records(home.final) = printed.final
        BY <2>1, <3>3 DEF Content
      <4>2. /\ ~(k + 1 <= SealHomeAt) /\ DOMAIN home.final = HomeFields
            /\ DOMAIN ledger.final = LedgerFields /\ HoldsTheLock(printed.final)
            /\ home.final.owner = "root" /\ ledger.final.owner = "root"
        BY <2>2, <3>1, Numbers DEF FinalIs
      <4>3. Records(home.final)' = printed'.final
        BY <1>1, <4>1 DEF Records
      <4>4. HoldsTheLock(printed.final)'
        BY <1>1, <4>2 DEF HoldsTheLock
      <4> QED
        BY <1>1, <4>2, <4>3, <4>4 DEF FinalIs
    <3> QED
      BY <3>2, <3>3
  <2>5. LockIs(k + 1)'
    BY <1>1, <2>2, Numbers, LockStays DEF Known
  <2>6. Shape'
    BY <1>1 DEF Known, Shape
  <2>7. Known(k + 1)'
    BY <2>3, <2>4, <2>5, <2>6 DEF Known
  <2> QED
    BY <1>5, <2>7, Going, Onward
<1> QED
  BY <1>3, <1>4, <1>5

-----------------------------------------------------------------------------
(* What others do: what is sealed can be edited until it is given away,    *)
(* and what is not made yet cannot.                                        *)
LEMMA HomeEdited ==
  ASSUME NEW k \in 1..(Steps + 1), Known(k), UNCHANGED <<lock, trees, ledger, printed>>,
         NEW x, NEW h, home' = [home EXCEPT ![x] = h],
         x = "final" => /\ ledger.final # Nil /\ home.final.owner = "user"
                        /\ DOMAIN h = DOMAIN home.final
  PROVE  Known(k)'
<1>1. DOMAIN home' = Homes /\ home'.final = IF x = "final" THEN h ELSE home.final
  BY DEF Known, Shape, Homes
<1>2. FinalIs(k)'
  <2>1. CASE x = "final"
    <3>1. k > SealHomeAt /\ ~(k > ChownAt) /\ k > FreshAt /\ ~(k <= SealHomeAt)
          /\ ~(k > VerifiedAt("final"))
      <4>1. ~(k <= SealHomeAt)
        BY <2>1 DEF Known, FinalIs
      <4>2. ~(k > ChownAt)
        BY <2>1 DEF Known, FinalIs
      <4> QED
        BY <4>1, <4>2, Numbers
    <3>2. DOMAIN home'.final = HomeFields
      BY <1>1, <2>1, <3>1 DEF Known, FinalIs
    <3>3. DOMAIN ledger.final = LedgerFields /\ HoldsTheLock(printed.final)
      BY <3>1 DEF Known, FinalIs
    <3>4. HoldsTheLock(printed.final)'
      BY <3>3 DEF HoldsTheLock
    <3> QED
      BY <3>1, <3>2, <3>3, <3>4 DEF FinalIs
  <2>2. CASE x # "final"
    BY <1>1, <2>2, FinalSame DEF Known
  <2> QED
    BY <2>1, <2>2
<1>3. ASSUME NEW name \in Trees PROVE TreeIs(k, name)'
  BY DEF Known, TreeIs, HoldsTheReviewed, Records
<1>4. LockIs(k)' /\ Shape'
  BY <1>1 DEF Known, LockIs, Shape
<1> QED
  BY <1>2, <1>3, <1>4 DEF Known

(* Every edit of a cache is such an edit.                                  *)
LEMMA HomesEdited ==
  ASSUME NEW k \in 1..(Steps + 1), Known(k),
         \/ EditRoots \/ EditArchive \/ EditIndex \/ EditDatabase \/ EditPackage \/ AddPackage
         \/ EditCheckout \/ EditMetadata \/ AddCredential \/ OpenHome
  PROVE  Known(k)'
<1>1. \E x \in Sources \cup Made : \E h : EditHome(x, h) /\ DOMAIN h = DOMAIN home[x]
  <2>1. CASE EditRoots
    BY <2>1 DEF EditRoots
  <2>2. CASE EditArchive
    BY <2>2 DEF EditArchive
  <2>3. CASE EditIndex
    BY <2>3 DEF EditIndex
  <2>4. CASE EditDatabase
    BY <2>4 DEF EditDatabase
  <2>5. CASE EditPackage
    BY <2>5 DEF EditPackage
  <2>6. CASE AddPackage
    BY <2>6 DEF AddPackage
  <2>7. CASE EditCheckout
    BY <2>7 DEF EditCheckout
  <2>8. CASE EditMetadata
    BY <2>8 DEF EditMetadata
  <2>9. CASE AddCredential
    BY <2>9 DEF AddCredential
  <2>10. CASE OpenHome
    BY <2>10 DEF OpenHome
  <2> QED
    BY <2>1, <2>2, <2>3, <2>4, <2>5, <2>6, <2>7, <2>8, <2>9, <2>10
<1>2. PICK x \in Sources \cup Made : \E h : EditHome(x, h) /\ DOMAIN h = DOMAIN home[x]
  BY <1>1
<1>5. PICK h : EditHome(x, h) /\ DOMAIN h = DOMAIN home[x]
  BY <1>2
<1>3. home' = [home EXCEPT ![x] = h] /\ UNCHANGED <<lock, trees, ledger, printed>>
  BY <1>5 DEF EditHome, Editing
<1>4. x = "final" => ledger.final # Nil /\ home.final.owner = "user"
  BY <1>2, <1>5 DEF Sources, Made
<1> QED
  BY <1>2, <1>5, <1>3, <1>4, HomeEdited

(* A tree can be edited until it is given away.                            *)
LEMMA TreesEdited ==
  ASSUME NEW k \in 1..(Steps + 1), Known(k), EditTree
  PROVE  Known(k)'
<1>1. PICK name \in Trees, e \in NodeEdits :
        /\ ledger[name] # Nil /\ trees[name].owner = "user"
        /\ trees' = [trees EXCEPT ![name].files = With(@, Files[1], e.node)]
  BY DEF EditTree
<1>2. UNCHANGED <<lock, home, ledger, printed>>
  BY DEF EditTree, Editing
<1>3. TreeIs(k, name)
  BY DEF Known
<1>4. ~(k <= SealAt(name)) /\ ~(k > ChownAt) /\ k > SealAt(name) /\ ~(k > VerifiedAt(name))
  <2>1. ~(k <= SealAt(name)) /\ ~(k > ChownAt)
    BY <1>1, <1>3 DEF TreeIs
  <2> QED
    BY <2>1, SealsComeFirst, Numbers
<1>5. DOMAIN trees' = Trees /\ DOMAIN trees'[name] = TreeFields
      /\ \A other \in Trees \ {name} : trees'[other] = trees[other]
  BY <1>1, <1>3 DEF Known, Shape, TreeIs
<1>6. TreeIs(k, name)'
  BY <1>2, <1>3, <1>4, <1>5 DEF TreeIs, HoldsTheReviewed
<1>7. ASSUME NEW other \in Trees \ {name} PROVE TreeIs(k, other)'
  BY <1>2, <1>5 DEF Known, TreeIs, HoldsTheReviewed, Records
<1>8. FinalIs(k)'
  BY <1>2, FinalSame DEF Known
<1>9. LockIs(k)' /\ Shape'
  BY <1>2, <1>5 DEF Known, LockIs, Shape
<1> QED
  BY <1>6, <1>7, <1>8, <1>9 DEF Known

(* So can what was recorded of it.                                         *)
LEMMA LedgerEdited ==
  ASSUME NEW k \in 1..(Steps + 1), Known(k), EditLedger
  PROVE  Known(k)'
<1>1. PICK name \in Sealed :
        /\ ledger[name] # Nil /\ ledger[name].owner = "user"
        /\ ledger' = [ledger EXCEPT ![name].records = Records(Content(name))]
  BY DEF EditLedger
<1>2. UNCHANGED <<lock, home, trees, printed>>
  BY DEF EditLedger
<1>3. /\ DOMAIN ledger' = Sealed /\ DOMAIN ledger'[name] = DOMAIN ledger[name]
      /\ \A other \in Sealed \ {name} : ledger'[other] = ledger[other]
  BY <1>1 DEF Known, Shape
<1>4. ASSUME NEW other \in Trees PROVE TreeIs(k, other)'
  <2>1. CASE other # name
    BY <1>2, <1>3, <2>1 DEF Known, TreeIs, HoldsTheReviewed, Records, Sealed
  <2>2. CASE other = name
    <3>1. ~(k <= SealAt(other)) /\ ~(k > ChownAt)
      BY <1>1, <2>2 DEF Known, TreeIs
    <3>2. k > SealAt(other) /\ ~(k > VerifiedAt(other))
      BY <3>1, SealsComeFirst, Numbers
    <3> QED
      BY <1>2, <1>3, <2>2, <3>1, <3>2 DEF Known, TreeIs, HoldsTheReviewed
  <2> QED
    BY <2>1, <2>2
<1>5. FinalIs(k)'
  <2>1. CASE "final" # name
    BY <1>2, <1>3, <2>1, FinalSame DEF Known, Sealed
  <2>2. CASE "final" = name
    <3>1. ~(k <= SealHomeAt) /\ ~(k > ChownAt)
      BY <1>1, <2>2 DEF Known, FinalIs
    <3>2. k > SealHomeAt /\ ~(k > VerifiedAt("final"))
      BY <3>1, Numbers
    <3> QED
      BY <1>2, <1>3, <2>2, <3>1, <3>2 DEF Known, FinalIs, HoldsTheLock
  <2> QED
    BY <2>1, <2>2
<1>6. LockIs(k)' /\ Shape'
  BY <1>2, <1>3 DEF Known, LockIs, Shape
<1> QED
  BY <1>4, <1>5, <1>6 DEF Known

(* What is known outlasts a step that leaves everything alone.             *)
LEMMA Stays ==
  ASSUME NEW k \in 1..(Steps + 1), Known(k), UNCHANGED <<lock, home, trees, ledger, printed>>
  PROVE  Known(k)'
<1>1. FinalIs(k)'
  BY FinalSame DEF Known
<1>2. ASSUME NEW name \in Trees PROVE TreeIs(k, name)'
  BY DEF Known, TreeIs, HoldsTheReviewed, Records
<1>3. LockIs(k)' /\ Shape'
  BY DEF Known, LockIs, Shape
<1> QED
  BY <1>1, <1>2, <1>3 DEF Known

-----------------------------------------------------------------------------
(* Nothing is known before the first step but the shapes.                  *)
LEMMA SnapshotBegins ==
  ASSUME SnapshotInit
  PROVE  SnapshotInvariant
<1>1. Gate \in Seq(Ops(AllNames)) /\ Len(Gate) = Steps /\ Steps \in Nat \ {0}
  BY GateIs, Numbers
<1>2. Progress(1)
  <2>1. SubSeq(Gate, 1, Len(Gate)) = Gate
    BY <1>1
  <2>2. todo = Gate /\ verdict = "none"
    BY DEF SnapshotInit
  <2> QED
    BY <1>1, <2>1, <2>2 DEF Progress
<1>3. Shape /\ lock \in Locks
  BY DEF SnapshotInit, Shape
<1>4. /\ ~(1 > FreshAt) /\ ~(1 > ConstructAt) /\ ~(1 > SealHomeAt) /\ ~(1 > ChownAt)
      /\ ~(1 > VerifiedAt("final")) /\ ~(1 > DatabaseAt) /\ ~(1 > DatabaseAt + 2)
  BY Numbers
<1>5. LockIs(1) /\ FinalIs(1)
  BY <1>3, <1>4 DEF SnapshotInit, LockIs, FinalIs, Sealed
<1>6. ASSUME NEW name \in Trees PROVE TreeIs(1, name)
  <2>1. ~(1 > SealAt(name)) /\ ~(1 > VerifiedAt(name))
    BY SealsComeFirst, Numbers
  <2>2. \A i \in 1..FileCount : ~(Start(name) + i < 1)
    BY SealsComeFirst, Numbers
  <2>3. /\ trees[name] = [files |-> Nothing, inventory |-> Nothing, owner |-> "user"]
        /\ ledger[name] = Nil
    BY DEF SnapshotInit, Sealed
  <2>4. DOMAIN trees[name] = TreeFields /\ AllReviewed(trees[name].files, CopyMode(name))
    BY <2>3 DEF TreeFields, AllReviewed, Nothing
  <2> QED
    BY <1>4, <2>1, <2>2, <2>3, <2>4 DEF TreeIs
<1> QED
  BY <1>1, <1>2, <1>3, <1>5, <1>6 DEF SnapshotInvariant, Known

(* Every step, of the gate or of others, keeps the invariant.              *)
LEMMA SnapshotSteps ==
  ASSUME SnapshotInvariant, [SnapshotNext]_snapshotVars
  PROVE  SnapshotInvariant'
<1>1. CASE UNCHANGED snapshotVars
  <2>1. CASE Rejected
    BY <1>1, <2>1 DEF Rejected, SnapshotInvariant, snapshotVars
  <2>2. ASSUME NEW k \in 1..(Steps + 1), Progress(k), Known(k) PROVE SnapshotInvariant'
    <3>1. Known(k)' /\ Progress(k)'
      BY <1>1, <2>2, Stays DEF snapshotVars, Progress
    <3> QED
      BY <3>1 DEF SnapshotInvariant
  <2> QED
    BY <2>1, <2>2 DEF SnapshotInvariant
<1>2. CASE SnapshotNext
  <2>1. todo # << >>
    BY <1>2 DEF SnapshotNext, Script, Others, At, Editing, EditHome, CopyReviewed, CopyWorkspace, Fresh,
         Begin, SelectConfig, SelectArchive, SelectIndex, SelectDatabase, CopyFile, Clone, Closed,
         CargoUnpacks, FinalIsFresh, ValidateRegistry, ValidateCheckouts, Construct, Seal, Chown, Verify,
         EditRoots, EditArchive, EditIndex, EditDatabase, EditWork, EditPackage, AddPackage,
         EditCheckout, EditMetadata, AddCredential, OpenHome, EditTree, EditLedger
  <2>2. PICK k \in 1..(Steps + 1) : Progress(k) /\ Known(k)
    BY <2>1 DEF SnapshotInvariant, Rejected
  <2>3. k \in 1..Steps
    <3>1. SubSeq(Gate, Steps + 1, Steps) = << >>
      BY GateIs, Numbers
    <3>2. k # Steps + 1
      BY <2>1, <2>2, <3>1 DEF Progress
    <3> QED
      BY <3>2, Numbers
  <2>4. CASE Script
    <3>1. CASE Begin \/ SelectConfig \/ SelectArchive \/ SelectIndex \/ Closed \/ FinalIsFresh
                 \/ ValidateRegistry
      BY <2>2, <2>3, <3>1, Looks
    <3>2. CASE SelectDatabase
      BY <2>2, <2>3, <3>2, LooksAtDatabase
    <3>3. CASE ValidateCheckouts
      BY <2>2, <2>3, <3>3, LooksAtCheckout
    <3>4. CASE CopyFile \/ Clone \/ Fresh \/ CargoUnpacks
      BY <2>2, <2>3, <3>4, FillsHome
    <3>5. CASE Construct
      BY <2>2, <2>3, <3>5, Constructs
    <3>6. CASE CopyReviewed \/ CopyWorkspace
      BY <2>2, <2>3, <3>6, Takes
    <3>7. CASE Seal
      BY <2>2, <2>3, <3>7, SealsTree, SealsHome
    <3>8. CASE Chown
      BY <2>2, <2>3, <3>8, Chowns
    <3>9. CASE Verify
      BY <2>2, <2>3, <3>9, Verifies
    <3> QED
      BY <2>4, <3>1, <3>2, <3>3, <3>4, <3>5, <3>6, <3>7, <3>8, <3>9 DEF Script
  <2>5. CASE Others
    <3>1. UNCHANGED <<todo, verdict>>
      BY <2>5 DEF Others, EditHome, Editing, EditRoots, EditArchive, EditIndex, EditDatabase, EditWork,
                  EditPackage, AddPackage, EditCheckout, EditMetadata, AddCredential, OpenHome,
                  EditTree, EditLedger
    <3>2. Known(k)'
      <4>1. CASE \/ EditRoots \/ EditArchive \/ EditIndex \/ EditDatabase \/ EditPackage \/ AddPackage
                 \/ EditCheckout \/ EditMetadata \/ AddCredential \/ OpenHome
        BY <2>2, <4>1, HomesEdited
      <4>2. CASE EditTree
        BY <2>2, <4>2, TreesEdited
      <4>3. CASE EditLedger
        BY <2>2, <4>3, LedgerEdited
      <4>4. CASE EditWork
        <5>1. UNCHANGED <<lock, home, trees, ledger, printed>>
          BY <4>4 DEF EditWork, Editing
        <5> QED
          BY <2>2, <5>1, Stays
      <4> QED
        BY <2>5, <4>1, <4>2, <4>3, <4>4 DEF Others
    <3>3. Progress(k)'
      BY <2>2, <3>1 DEF Progress
    <3> QED
      BY <3>2, <3>3 DEF SnapshotInvariant
  <2> QED
    BY <1>2, <2>4, <2>5 DEF SnapshotNext
<1> QED
  BY <1>1, <1>2

(* When the gate is through, what was printed is there, and is root's.     *)
LEMMA ThroughIsLocked ==
  ASSUME SnapshotInvariant
  PROVE  OnlyLockedIsBuilt
<1> SUFFICES ASSUME verdict = "accepted" PROVE OnlyLockedIsBuilt
  BY DEF OnlyLockedIsBuilt
<1>1. PICK k \in 1..(Steps + 1) : Progress(k) /\ Known(k)
  BY DEF SnapshotInvariant, Rejected
<1>2. k = Steps + 1
  BY <1>1 DEF Progress
<1>3. /\ DOMAIN home.final = HomeFields /\ HoldsTheLock(printed.final)
      /\ home.final.owner = "root" /\ Records(home.final) = printed.final
  BY <1>1, <1>2, Numbers DEF Known, FinalIs
<1>4. /\ printed.final.src = home.final.src /\ printed.final.checkout = home.final.checkout
      /\ printed.final.strays = home.final.strays
  BY <1>3, RecordsKeep DEF HomeFields
<1>5. ASSUME NEW name \in Trees
      PROVE  /\ trees[name].owner = "root"
             /\ \A f \in Range(Files) :
                  trees[name].files[f].data = "reviewed" /\ trees[name].files[f].mode = "444"
  <2>1. k > SealAt(name) /\ k > ChownAt /\ k > VerifiedAt(name)
    BY <1>2, SealsComeFirst, Numbers DEF Trees
  <2>2. /\ DOMAIN trees[name] = TreeFields /\ HoldsTheReviewed(printed[name])
        /\ trees[name].owner = "root" /\ Records(trees[name]) = printed[name]
    BY <1>1, <2>1 DEF Known, TreeIs
  <2>3. printed[name].files = trees[name].files
    BY <2>2, RecordsKeep DEF TreeFields
  <2> QED
    BY <2>2, <2>3 DEF HoldsTheReviewed
<1>6. \A name \in Sealed : Content(name).owner = "root"
  BY <1>3, <1>5 DEF Sealed, Content
<1> QED
  BY <1>3, <1>4, <1>5, <1>6 DEF OnlyLockedIsBuilt, HoldsTheLock

(* Whatever others do to the homes that are copied, and to what was made   *)
(* until it is root's, an accepted gate builds what the lock and the       *)
(* reviewed digests name, and nothing else.                                *)
THEOREM LockedIsBuilt == SnapshotSpec => []OnlyLockedIsBuilt
<1>1. SnapshotInit => SnapshotInvariant
  BY SnapshotBegins
<1>2. SnapshotInvariant /\ [SnapshotNext]_snapshotVars => SnapshotInvariant'
  BY SnapshotSteps
<1>3. SnapshotInvariant => OnlyLockedIsBuilt
  BY ThroughIsLocked
<1> QED
  BY <1>1, <1>2, <1>3, PTL DEF SnapshotSpec
=============================================================================
