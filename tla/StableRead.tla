----------------------------- MODULE StableRead -----------------------------
(***************************************************************************)
(* How the gate reads a file that somebody may be writing: it takes the    *)
(* status of the path and of what it opened, reads, and takes both again.  *)
(* stable_read does so for one file, seal_cargo_proof_binary for the two   *)
(* files Cargo leaves of one binary, linked or copied, which it then       *)
(* writes out as one that nobody writes to (both in                        *)
(* prepare-ordinary-wallet-plan-proof-snapshot.py), and emit for the       *)
(* diagnostics of a command (capture-bounded-command-diagnostics.py).      *)
(***************************************************************************)
EXTENDS Integers, Sequences, FiniteSets

CONSTANTS
  Inodes,        \* bound: inodes of the file system the files are on
  Payload,       \* bound: the bytes a file may consist of
  Starts,        \* bound: and what the two of them hold at first
  MaxSize,       \* MAX_FILE_BYTES, MAX_PROOF_BINARY_BYTES
  ReadEdits,     \* bound: what the writer does during a read, by job
  Absent         \* no inode, no file, nothing read

ASSUME ReadAssumption ==
  /\ Absent \notin Inodes
  /\ Starts \subseteq Seq(Payload)
  /\ MaxSize \in Nat
  /\ ReadEdits \in [{"single", "pair", "report"} -> Nat]

Paths == {"top", "dep"}
Owner == "builder"             \* the owner both files must have

VARIABLES
  inode,     \* the files themselves
  entry,     \* the inode at each path
  writes,     \* steps left to the writer
  setBack,   \* some modification time was set back
  job,       \* "single" is stable_read, "pair" seal_cargo_proof_binary,
             \*   "report" emit
  steps,      \* what the reader has left to do: <<operation, path>>
  before,    \* what lstat said of a path
  opened,    \* and fstat of what was opened there, with its inode
  data,      \* the bytes read so far
  moments,   \* what the paths have held since the reading began
  sealed,    \* the file written out: its mode and its bytes
  outcome    \* what the reader came to

fileSystem == <<inode, entry, writes, setBack>>
readVars == <<fileSystem, job, steps, before, opened, data, moments, sealed, outcome>>

(* What a status says; the two times stand for nanoseconds that differ     *)
(* whenever something happened in between.                                 *)
Stat(i) ==
  [ino |-> i, kind |-> inode[i].kind, mode |-> inode[i].mode, owner |-> inode[i].owner,
   links |-> inode[i].links, size |-> Len(inode[i].bytes), mtime |-> inode[i].mtime,
   ctime |-> inode[i].ctime]

(* identity and binary_identity: only the second, the exact_identity of    *)
(* the diagnostics as well, looks at who owns a file and when its status   *)
(* changed.                                                                *)
Identity(s) == <<s.ino, s.kind, s.mode, s.links, s.size, s.mtime>>
BinaryIdentity(s) == <<Identity(s), s.owner, s.ctime>>

Pair == job = "pair"

(* Slip: the identity leaves the times out. *)
SameFile(a, b) == a.ino = b.ino /\ a.kind = b.kind /\ a.mode = b.mode /\ a.size = b.size

Same(a, b) ==
  IF job = "single" THEN Identity(a) = Identity(b) ELSE BinaryIdentity(a) = BinaryIdentity(b)

(* The mode the compiler gives a binary, and the capture its diagnostics.  *)
Mode == IF job = "report" THEN "600" ELSE "755"

FreshFile(bytes, mode, links) ==
  [kind |-> "file", mode |-> mode, owner |-> Owner, links |-> links, bytes |-> bytes,
   mtime |-> 0, ctime |-> 0]

Single == <<<<"lstat", "top">>, <<"open", "top">>, <<"read", "top">>, <<"check", "top">>,
            <<"again", "top">>>>
PairReads ==
  <<<<"lstat", "top">>, <<"open", "top">>, <<"lstat", "dep">>, <<"open", "dep">>,
    <<"links", "top">>, <<"read", "top">>, <<"read", "dep">>, <<"compare", "top">>,
    <<"check", "top">>, <<"check", "dep">>, <<"again", "top">>, <<"again", "dep">>,
    <<"write", "top">>, <<"chmod", "top">>>>

HeldNow == [p \in Paths |-> IF entry[p] = Absent THEN Absent ELSE inode[entry[p]].bytes]

ReadInit ==
  /\ job \in {"single", "pair", "report"} /\ steps = IF job = "pair" THEN PairReads ELSE Single
  /\ \E j \in Inodes, first, second \in Starts :
       LET i == CHOOSE k \in Inodes : TRUE IN
       /\ i = j => first = second
       /\ inode = [k \in Inodes |-> FreshFile(IF k = j THEN second ELSE first, Mode,
                                             IF i = j THEN 2 ELSE 1)]
       /\ entry = [top |-> i, dep |-> j]
  /\ setBack = FALSE
  /\ writes = ReadEdits[job]
  /\ before = [p \in Paths |-> Absent] /\ opened = before /\ data = [p \in Paths |-> << >>]
  /\ moments = {HeldNow} /\ sealed = Absent /\ outcome = "none"

-----------------------------------------------------------------------------
(* The writer: what the compiler, or a test, does to the files meanwhile.  *)
now == ReadEdits[job] - writes + 1     \* the clock of the file system

(* The paths the reader looks at.                                          *)
Watched == IF Pair THEN Paths ELSE {"top"}

Touches(files) ==
  /\ writes > 0 /\ writes' = writes - 1
  /\ inode' = files
  /\ UNCHANGED <<job, steps, before, opened, data, sealed, outcome>>

(* Whatever happens to a file, its status has changed.                     *)
Changed(i, file) == [inode EXCEPT ![i] = [file EXCEPT !.ctime = now]]

(* Contents change: in place, at the end, or cut.                          *)
Rewritten(old) ==
  {bytes \in {[old EXCEPT ![k] = x] : k \in DOMAIN old, x \in Payload}
             \cup {Append(old, x) : x \in Payload} \cup {SubSeq(old, 1, Len(old) - 1)} :
     bytes # old /\ Len(bytes) <= MaxSize + 1}
Overwrite(p, bytes) ==
  /\ Touches(Changed(entry[p], [inode[entry[p]] EXCEPT !.bytes = bytes, !.mtime = now]))
  /\ moments' = moments \cup
       {[q \in Paths |-> IF entry[q] = entry[p] THEN bytes ELSE HeldNow[q]]}
  /\ UNCHANGED <<entry, setBack>>
WriteInPlace ==
  \E p \in Watched : entry[p] # Absent /\ \E bytes \in Rewritten(inode[entry[p]].bytes) : Overwrite(p, bytes)

(* The status changes: mode, owner, another link, and the time of the last *)
(* change to the contents, set back to what it was.                        *)
Restat ==
  \E p \in Watched : entry[p] # Absent /\
    /\ \/ Touches(Changed(entry[p], [inode[entry[p]] EXCEPT !.mode = "644"])) /\ UNCHANGED setBack
       \/ Touches(Changed(entry[p], [inode[entry[p]] EXCEPT !.links = @ + 1])) /\ UNCHANGED setBack
       \/ Touches(Changed(entry[p], [inode[entry[p]] EXCEPT !.mtime = 0])) /\ setBack' = TRUE
    /\ UNCHANGED <<entry, moments>>

(* The file at a path loses that link.                                     *)
Dropped(p) ==
  IF entry[p] = Absent THEN inode ELSE Changed(entry[p], [inode[entry[p]] EXCEPT !.links = @ - 1])

(* A number that no path and no reader has any more may be given again.    *)
InUse == {entry[p] : p \in Paths} \cup
        {opened[p].ino : p \in {q \in Paths : opened[q] # Absent}}

(* Another file, or a symbolic link, is moved to the path.                 *)
Replace ==
  \E p \in Watched, kind \in {"file", "link"}, x \in Payload, owner \in {Owner, "other"} :
  \E i \in Inodes \ InUse :
    /\ Touches([Dropped(p) EXCEPT ![i] =
                  [kind |-> kind, mode |-> Mode, owner |-> owner, links |-> 1,
                   bytes |-> <<x, x>>, mtime |-> now, ctime |-> now]])
    /\ entry' = [entry EXCEPT ![p] = i]
    /\ moments' = moments \cup {[HeldNow EXCEPT ![p] = <<x, x>>]}
    /\ UNCHANGED setBack

Unlink ==
  \E p \in Watched :
    /\ entry[p] # Absent
    /\ entry' = [entry EXCEPT ![p] = Absent]
    /\ Touches(Dropped(p))
    /\ UNCHANGED <<setBack, moments>>

-----------------------------------------------------------------------------
(* The reader.                                                             *)
Turn(op, p) == steps # << >> /\ Head(steps) = <<op, p>>
Proceed == steps' = Tail(steps) /\ outcome' = IF Tail(steps) = << >> THEN "accepted" ELSE outcome
Reject == steps' = << >> /\ outcome' = "rejected"
Either(good) == IF good THEN Proceed ELSE Reject

(* A regular file within the bound; of a binary and of the diagnostics the *)
(* mode and the owner are looked at as well.                               *)
Admissible(s) ==
  /\ s.kind = "file" /\ s.size <= MaxSize
  /\ job # "single" => s.mode = Mode /\ s.owner = Owner
  /\ IF Pair THEN s.size > 0 ELSE s.links = 1

Lstat(p) ==
  /\ Turn("lstat", p)
  /\ before' = [before EXCEPT ![p] = IF entry[p] = Absent THEN Absent ELSE Stat(entry[p])]
  /\ Either(entry[p] # Absent /\ Admissible(Stat(entry[p])))
  /\ moments' = IF p = "top" THEN {HeldNow} ELSE moments
  /\ UNCHANGED <<fileSystem, job, opened, data, sealed>>

OpenPath(p) ==
  /\ Turn("open", p)
  /\ Either(entry[p] # Absent /\ inode[entry[p]].kind = "file" /\ Same(before[p], Stat(entry[p])))
  /\ opened' = IF entry[p] = Absent THEN opened ELSE [opened EXCEPT ![p] = Stat(entry[p])]
  /\ before' = [before EXCEPT ![p] = Absent]
  /\ UNCHANGED <<fileSystem, job, data, moments, sealed>>

(* The two paths of a binary: one file with both its links, or two.        *)
Links ==
  /\ Turn("links", "top")
  /\ Either(IF opened.top.ino = opened.dep.ino
            THEN opened.top.links = 2 /\ opened.dep.links = 2
            ELSE opened.top.links = 1 /\ opened.dep.links = 1)
  /\ UNCHANGED <<fileSystem, job, before, opened, data, moments, sealed>>

(* A read of the next bytes; none is the end. The pair looks at the size   *)
(* here, stable_read at its end.                                           *)
Chunk(p) ==
  /\ Turn("read", p)
  /\ LET bytes == inode[opened[p].ino].bytes
         got == Len(data[p])
     IN IF got < Len(bytes)
        THEN /\ data' = [data EXCEPT ![p] = Append(@, bytes[got + 1])]
             /\ IF got + 1 > MaxSize THEN Reject ELSE UNCHANGED <<steps, outcome>>
        ELSE data' = data /\ Either(Pair => got = opened[p].size)
  /\ UNCHANGED <<fileSystem, job, before, opened, moments, sealed>>

CompareBytes ==
  /\ Turn("compare", "top")
  /\ Either(data.top = data.dep)
  /\ UNCHANGED <<fileSystem, job, before, opened, data, moments, sealed>>

(* fstat at the end.                                                       *)
CheckOpened(p) ==
  /\ Turn("check", p)
  /\ Either(Len(data[p]) = opened[p].size /\ Same(opened[p], Stat(opened[p].ino)))
  /\ UNCHANGED <<fileSystem, job, before, opened, data, moments, sealed>>

(* And lstat.                                                              *)
CheckPath(p) ==
  /\ Turn("again", p)
  /\ Either(entry[p] # Absent /\ Same(opened[p], Stat(entry[p])))
  /\ UNCHANGED <<fileSystem, job, before, opened, data, moments, sealed>>

(* write_private: a new file of mode 600, a piece at a time.               *)
WritePrivate ==
  /\ Turn("write", "top")
  /\ LET done == IF sealed = Absent THEN << >> ELSE sealed.bytes IN
     IF Len(done) < Len(data.top)
     THEN /\ \E n \in (Len(done) + 1)..Len(data.top) :
               sealed' = [mode |-> "600", bytes |-> SubSeq(data.top, 1, n)]
          /\ UNCHANGED <<steps, outcome>>
     ELSE sealed' = sealed /\ Proceed
  /\ UNCHANGED <<fileSystem, job, before, opened, data, moments>>

ChmodSealed ==
  /\ Turn("chmod", "top")
  /\ sealed' = [sealed EXCEPT !.mode = "555"]
  /\ Proceed
  /\ UNCHANGED <<fileSystem, job, before, opened, data, moments>>

Writer == WriteInPlace \/ Restat \/ Replace \/ Unlink
Reader ==
  \/ \E p \in Paths : Lstat(p) \/ OpenPath(p) \/ Chunk(p) \/ CheckOpened(p) \/ CheckPath(p)
  \/ Links \/ CompareBytes \/ WritePrivate \/ ChmodSealed

ReadNext == (steps # << >> /\ Writer) \/ Reader
ReadSpec == ReadInit /\ [][ReadNext]_readVars

-----------------------------------------------------------------------------
(* sealed_binary_digest: what is taken for the binary from then on.        *)
TakenForBinary == sealed # Absent /\ sealed.mode = "555"

(* What stable_read and emit return is what the path held at one moment    *)
(* since they began, never a mixture, unless a modification time was set   *)
(* back, which only emit can see; and what is taken for the sealed binary  *)
(* is what both paths held at one moment, set back or not; in every state, *)
(* since the script may be killed in any.                                  *)
ReadIsOneMoment ==
  /\ (outcome = "accepted" /\ ~Pair /\ (setBack => job = "report")) =>
       \E m \in moments : m.top = data.top
  /\ TakenForBinary => \E m \in moments : m.top = sealed.bytes /\ m.dep = sealed.bytes
=============================================================================
