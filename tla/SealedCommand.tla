---------------------------- MODULE SealedCommand ----------------------------
(***************************************************************************)
(* A sealed command of the gate: run-sealed-command-supervisor.py is PID 1 *)
(* of its namespace, runs the command, and ends whatever the command left  *)
(* behind before it returns its status; what all of them print goes        *)
(* through one pipe to capture-bounded-command-diagnostics.py, which sees  *)
(* its end when the last of them is gone.                                  *)
(***************************************************************************)
EXTENDS Integers, Sequences, FiniteSets

CONSTANTS
  Pids,            \* bound: processes below the supervisor at one time
  Command,         \* the process it starts
  Exits,           \* bound: how the command ends; negative is by a signal
  MaxDiagnostics,  \* MAX_DIAGNOSTIC_BYTES; the truncation marker is one byte
  MaxWritten       \* bound: bytes that are printed

ASSUME DiagnosticsAssumption == MaxDiagnostics \in Nat \ {0}

Supervisor == "supervisor"

VARIABLES
  procs,       \* what each process is doing; "free" is no process
  parent,      \* who each process is a child of
  sup,         \* where the supervisor is
  round,       \* terminate_all: 1 asks with SIGTERM, 2 with SIGKILL
  pending,     \* listed and not yet signalled
  clock,       \* seconds since terminate_all began
  exit,        \* how the command ended; 256 while it has not
  result,      \* what the supervisor returned; 256 while it has not
  written,     \* bytes printed, each worth its place in the stream
  total,       \* capture_stdin: bytes read
  retained,    \*   those it keeps
  output       \*   the file it leaves; << >> before, <<bytes>> after

supervision == <<sup, round, pending, clock, result>>
capturing == <<total, retained, output>>
commandVars == <<procs, parent, exit, written, supervision, capturing>>

Mark == 0
Unended == 256                       \* no exit status

Alive == {p \in Pids : procs[p] \in {"running", "deaf", "dying"}}
Free == {p \in Pids : procs[p] = "free"}

(* descendants: the numbers in /proc other than 1.                         *)
Descendants == Pids \ Free

CommandInit ==
  /\ procs = [p \in Pids |-> IF p = Command THEN "running" ELSE "free"]
  /\ parent = [p \in Pids |-> Supervisor]
  /\ sup = "wait" /\ round = 1 /\ pending = {} /\ clock = 0
  /\ exit = Unended /\ result = Unended
  /\ written = 0 /\ total = 0 /\ retained = << >> /\ output = << >>

(* What the command and its descendants do: fork, with SIGTERM handled or  *)
(* not, print, end. A child whose parent has ended is the supervisor's; a  *)
(* number is used again.                                                   *)
Fork(p) ==
  /\ procs[p] \in {"running", "deaf"}
  /\ \E c \in Free, mood \in {"running", "deaf"} :
       /\ procs' = [procs EXCEPT ![c] = mood]
       /\ parent' = [parent EXCEPT ![c] = p]
  /\ UNCHANGED <<exit, written, supervision, capturing>>

Prints(p) ==
  /\ procs[p] \in {"running", "deaf"} /\ written < MaxWritten
  /\ written' = written + 1
  /\ UNCHANGED <<procs, parent, exit, supervision, capturing>>

End(p) ==
  /\ p \in Alive
  /\ procs' = [procs EXCEPT ![p] = "zombie"]
  /\ parent' = [c \in Pids |-> IF parent[c] = p THEN Supervisor ELSE parent[c]]
  /\ IF p = Command /\ exit = Unended THEN \E code \in Exits : exit' = code ELSE exit' = exit
  /\ UNCHANGED <<written, supervision, capturing>>

(* A parent that waits for its own child.                                  *)
Reaped(gone) == procs' = [p \in Pids |-> IF p \in gone THEN "free" ELSE procs[p]]

WaitForChild(p) ==
  /\ procs[p] = "zombie" /\ parent[p] # Supervisor
  /\ Reaped({p})
  /\ UNCHANGED <<parent, exit, written, supervision, capturing>>

(* main: command.wait, then terminate_all.                                 *)
Wait ==
  /\ sup = "wait" /\ exit # Unended /\ procs[Command] = "zombie"
  /\ Reaped({Command}) /\ sup' = "list"
  /\ UNCHANGED <<parent, exit, written, round, pending, clock, result, capturing>>

List ==
  /\ sup = "list"
  /\ pending' = Descendants /\ sup' = "signal"
  /\ UNCHANGED <<procs, parent, exit, written, round, clock, result, capturing>>

(* os.kill: one that is gone is passed over, and one that ended already    *)
(* takes no notice.                                                        *)
Signal(p) ==
  /\ sup = "signal" /\ p \in pending
  /\ pending' = pending \ {p}
  /\ procs' = IF procs[p] = "running" \/ (procs[p] = "deaf" /\ round = 2)
              THEN [procs EXCEPT ![p] = "dying"] ELSE procs
  /\ UNCHANGED <<parent, exit, written, sup, round, clock, result, capturing>>

Signalled ==
  /\ sup = "signal" /\ pending = {}
  /\ sup' = IF clock < round THEN "reap" ELSE "late"
  /\ UNCHANGED <<procs, parent, exit, written, round, pending, clock, result, capturing>>

Orphans == {p \in Pids : procs[p] = "zombie" /\ parent[p] = Supervisor}

(* reap: all that have ended and are its own by now, in the loop of a      *)
(* round and once more after both.                                         *)
Reap ==
  /\ sup = "reap" \/ (sup = "late" /\ round = 2)
  /\ Reaped(Orphans)
  /\ sup' = IF sup = "reap" THEN "look" ELSE "last look"
  /\ UNCHANGED <<parent, exit, written, round, pending, clock, result, capturing>>

NextRound ==
  /\ sup = "late" /\ round = 1
  /\ round' = 2 /\ sup' = "list"
  /\ UNCHANGED <<procs, parent, exit, written, pending, clock, result, capturing>>

(* The status the shell sees: a signal is 128 and its number.              *)
StatusOf(code) == IF code >= 0 THEN code ELSE 128 - code

Return(value) == sup' = "ended" /\ result' = value

(* Slip: the loop is left when nobody is there, however long that takes. *)
LookForever ==
  /\ sup = "look"
  /\ IF Descendants = {} THEN Return(StatusOf(exit)) ELSE sup' = "reap" /\ result' = result
  /\ UNCHANGED <<procs, parent, exit, written, round, pending, clock, capturing>>

(* Inside the loop; the deadline is looked at again before the next reap.  *)
Look ==
  /\ sup = "look"
  /\ IF Descendants = {} THEN Return(StatusOf(exit))
     ELSE sup' = (IF clock < round THEN "reap" ELSE "late") /\ result' = result
  /\ UNCHANGED <<procs, parent, exit, written, round, pending, clock, capturing>>

(* Slip: the last look is left out. *)
LastLookTrusting ==
  /\ sup = "last look" /\ Return(StatusOf(exit))
  /\ UNCHANGED <<procs, parent, exit, written, round, pending, clock, capturing>>

(* After both deadlines: RuntimeError, status 1, if one is still there.    *)
LastLook ==
  /\ sup = "last look"
  /\ IF Descendants = {} THEN Return(StatusOf(exit)) ELSE Return(1)
  /\ UNCHANGED <<procs, parent, exit, written, round, pending, clock, capturing>>

(* The deadlines of both rounds count from the beginning of the first.     *)
Tick ==
  /\ sup \notin {"wait", "ended"} /\ clock < 2
  /\ clock' = clock + 1
  /\ UNCHANGED <<procs, parent, exit, written, sup, round, pending, result, capturing>>

(* The kernel ends a namespace with its PID 1.                             *)
NamespaceEnds ==
  /\ sup = "ended" /\ Descendants # {}
  /\ Reaped(Pids)
  /\ UNCHANGED <<parent, exit, written, supervision, capturing>>

Least(a, b) == IF a < b THEN a ELSE b

(* capture_stdin: a chunk of what is in the pipe.                          *)
Read ==
  /\ output = << >> /\ total < written
  /\ \E n \in 1..(written - total) :
       /\ total' = total + n
       /\ retained' = retained \o
            [i \in 1..Least(n, MaxDiagnostics - Len(retained)) |-> total + i]
  /\ UNCHANGED <<procs, parent, exit, written, supervision, output>>

(* Slip: the marker goes after what is retained. *)
CappedByAppending == IF total > MaxDiagnostics THEN Append(retained, Mark) ELSE retained

(* The marker replaces the end of what is retained.                        *)
Capped ==
  IF total > MaxDiagnostics THEN [retained EXCEPT ![MaxDiagnostics] = Mark] ELSE retained

(* End of file: nothing in the namespace holds the pipe any more.          *)
Capture ==
  /\ output = << >> /\ total = written /\ sup = "ended" /\ Descendants = {}
  /\ output' = <<Capped>>
  /\ UNCHANGED <<procs, parent, exit, written, supervision, total, retained>>

Supervise ==
  \/ Wait \/ List \/ (\E p \in Pids : Signal(p)) \/ Signalled
  \/ Reap \/ NextRound \/ Look \/ LastLook

CommandNext ==
  \/ \E p \in Pids : Fork(p) \/ Prints(p) \/ End(p) \/ WaitForChild(p)
  \/ Supervise \/ Tick \/ NamespaceEnds \/ Read \/ Capture

(* The supervisor, the clock, the kernel and the capture go on. Nothing is *)
(* asked of the command and what it started, not even that it dies of a    *)
(* signal: what is left of it ends with its namespace.                     *)
CommandFairness ==
  /\ WF_commandVars(Supervise) /\ WF_commandVars(Tick) /\ WF_commandVars(NamespaceEnds)
  /\ WF_commandVars(Read) /\ WF_commandVars(Capture)

CommandSpec == CommandInit /\ [][CommandNext]_commandVars /\ CommandFairness

-----------------------------------------------------------------------------
(* terminate_all and main: a status of the command's own is returned only  *)
(* when none of its descendants is there any more, forked however late;    *)
(* success only if the command succeeded. The captured diagnostics are all *)
(* that was printed or, marked, its beginning, within the bound.           *)
StatusIsOfAllOfIt ==
  /\ (sup = "ended" /\ result # 1) => Descendants = {} /\ result = StatusOf(exit)
  /\ \A bytes \in {output[i] : i \in DOMAIN output} :
       /\ Len(bytes) <= MaxDiagnostics
       /\ \/ bytes = [i \in 1..written |-> i]
          \/ /\ written > Len(bytes)
             /\ bytes = Append([i \in 1..(Len(bytes) - 1) |-> i], Mark)

(* terminate_all's deadlines: once the command has ended, the gate gets    *)
(* its status and its diagnostics, also when descendants fork on without   *)
(* end, ignore SIGTERM or never close the pipe.                            *)
CommandIsReported == (exit # Unended) ~> (output # << >>)
=============================================================================
