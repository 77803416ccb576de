------------------------------- MODULE MCGates -------------------------------
(***************************************************************************)
(* Four parts of the gate that share nothing, each run to its end from     *)
(* every input: the corpus a checker judges, the sources prepared for a    *)
(* build, a file read while it is written to, and a command under its      *)
(* supervisor. One of them is run, the others stand still.                 *)
(***************************************************************************)
EXTENDS MCCorpusTree, MCProofSnapshot, StableRead, SealedCommand

VARIABLE running

gates == <<running, treeVars, snapshotVars, readVars, commandVars>>

MCExits == {0, -9}
MCReadEdits == [single |-> 2, pair |-> 1, report |-> 1]
MCStarts == {<<"c1", "c1">>, <<"c1", "c2">>}

TreeIdle == corpus = "none" /\ top = << >> /\ vectors = << >> /\ left = 0

SnapshotIdle ==
  /\ lock = Nil /\ home = Nil /\ work = Nil /\ trees = Nil /\ selected = Nil /\ copied = Nil
  /\ ledger = Nil /\ printed = Nil /\ todo = << >> /\ edits = 0 /\ verdict = "none"

ReadIdle ==
  /\ inode = << >> /\ entry = << >> /\ writes = 0 /\ setBack = FALSE /\ job = "none"
  /\ steps = << >> /\ before = << >> /\ opened = << >> /\ data = << >> /\ moments = {}
  /\ sealed = Absent /\ outcome = "none"

CommandIdle ==
  /\ procs = [p \in Pids |-> "free"] /\ parent = << >> /\ sup = "wait" /\ round = 1
  /\ pending = {} /\ clock = 0 /\ exit = Unended /\ result = Unended
  /\ written = 0 /\ total = 0 /\ retained = << >> /\ output = << >>

GatesInit ==
  \/ running = "tree" /\ TreeInit /\ SnapshotIdle /\ ReadIdle /\ CommandIdle
  \/ running = "snapshot" /\ TreeIdle /\ SnapshotInit /\ ReadIdle /\ CommandIdle
  \/ running = "read" /\ TreeIdle /\ SnapshotIdle /\ ReadInit /\ CommandIdle
  \/ running = "command" /\ TreeIdle /\ SnapshotIdle /\ ReadIdle /\ CommandInit

GatesNext ==
  \/ running = "tree" /\ TreeNext /\ UNCHANGED <<running, snapshotVars, readVars, commandVars>>
  \/ running = "snapshot" /\ SnapshotNext /\ UNCHANGED <<running, treeVars, readVars, commandVars>>
  \/ running = "read" /\ ReadNext /\ UNCHANGED <<running, treeVars, snapshotVars, commandVars>>
  \/ running = "command" /\ CommandNext /\ UNCHANGED <<running, treeVars, snapshotVars, readVars>>

GatesSpec == GatesInit /\ [][GatesNext]_gates /\ CommandFairness
=============================================================================
