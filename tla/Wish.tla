-------------------------------- MODULE Wish --------------------------------
(***************************************************************************)
(* The shell of project-3/wish.c.  The commands of a line stand between    *)
(* "&": each but the last is run by a child, the last by the shell itself. *)
(* A command that is no builtin is looked up and runs in a child of its    *)
(* own.  Process 0 is the shell, i its child for command i.                *)
(*                                                                         *)
(* cd and a command that is refused before fork() change nothing here.     *)
(* Redirection is left out.  A child whose execv() fails frees its command *)
(* twice and is aborted (wish.c:233 and 100): it ends like any other.      *)
(***************************************************************************)
EXTENDS Integers, Sequences, SequencesExt

CONSTANTS
  NULL,
  Bin,        \* "/bin"
  Lines,      \* sequences of commands
  Installed,  \* pairs of a directory and a program in it
  MaxChildren,
  MaxDirs     \* most directories a path command names

VARIABLES
  line,
  at,        \* where each process stands
  program,   \* the program each process runs in a child
  i,         \* children forked, then waits done
  paths,     \* the array, which each process has a copy of
  named      \* history: the directories of the last path command of the shell

vars == <<line, at, program, i, paths, named>>

Jobs == 1..MaxChildren
Procs == {0} \cup Jobs

Init ==
  /\ line = <<>>
  /\ at = [p \in Procs |-> IF p = 0 THEN "prompt" ELSE "none"]
  /\ program = [p \in Procs |-> "none"]
  /\ i = 0
  /\ paths = [p \in Procs |-> [n \in 0..MaxDirs + 1 |-> IF n = 0 THEN Bin ELSE NULL]]
  /\ named = <<Bin>>

GoTo(p, place) == at' = [at EXCEPT ![p] = place]
Children == Len(line) - 1
Command(p) == IF p = 0 THEN Last(line) ELSE line[p]

GetLine ==
  /\ at[0] = "prompt"
  /\ line' \in Lines /\ i' = 0
  /\ GoTo(0, "fork")
  /\ UNCHANGED <<program, paths, named>>

\* fork() may fail; the shell prints an error and goes on.  A child goes on with a
\* copy of the memory, the array included.
Fork ==
  /\ at[0] = "fork" /\ i < Children
  /\ i' = i + 1
  /\ \/ GoTo(i', "analyze") /\ paths' = [paths EXCEPT ![i'] = paths[0]]
     \/ UNCHANGED <<at, paths>>
  /\ UNCHANGED <<line, program, named>>

Forked ==
  /\ at[0] = "fork" /\ i = Children
  /\ i' = 0
  /\ GoTo(0, "analyze")
  /\ UNCHANGED <<line, program, paths, named>>

\* What follows analyze(): the shell waits, a child calls exit().
Done_NoExit(p) == "wait"
Done(p) == IF p = 0 THEN "wait" ELSE "zombie"

-----------------------------------------------------------------------------

\* The array as the loop of "path" leaves it: the element after the last
\* directory keeps what it held.
PathSet(p, dirs) ==
  [n \in DOMAIN paths[p] |->
     IF n < Len(dirs) THEN dirs[n + 1]
     ELSE IF n = Len(dirs) + 1 \/ n = 0 THEN NULL ELSE paths[p][n]]

\* In a child the new array is lost with the process.
Path(p) ==
  /\ at[p] = "analyze" /\ Command(p).name = "path"
  /\ paths' = [paths EXCEPT ![p] = PathSet(p, Command(p).args)]
  /\ named' = IF p = 0 THEN Command(p).args ELSE named
  /\ GoTo(p, Done(p))
  /\ UNCHANGED <<line, program, i>>

\* exit() of the shell does not wait for its children.
ExitBuiltin(p) ==
  /\ at[p] = "analyze" /\ Command(p).name = "exit" /\ Command(p).args = <<>>
  /\ GoTo(p, IF p = 0 THEN "exited" ELSE "zombie")
  /\ UNCHANGED <<line, program, i, paths, named>>

\* forage() tries the directories of the process's copy up to the first NULL.
Searched(p) ==
  {paths[p][n] : n \in {m \in DOMAIN paths[p] : \A j \in 0..m : paths[p][j] # NULL}}
Builtins == {"path", "exit", "cd"}
Found(p) ==
  /\ Command(p).name \notin Builtins
  /\ \E dir \in Searched(p) : <<dir, Command(p).name>> \in Installed

\* cd, an exit with arguments, a program that is not found, a fork() that fails.
NoProgram(p) ==
  /\ at[p] = "analyze"
  /\ Command(p).name \notin {"path", "exit"} \/ (Command(p).name = "exit" /\ Command(p).args # <<>>)
  /\ GoTo(p, Done(p))
  /\ UNCHANGED <<line, program, i, paths, named>>

ForkProgram(p) ==
  /\ at[p] = "analyze" /\ Found(p)
  /\ program' = [program EXCEPT ![p] = "runs"]
  /\ GoTo(p, "waitpid")
  /\ UNCHANGED <<line, i, paths, named>>

WaitForProgram(p) ==
  /\ at[p] = "waitpid" /\ program[p] = "zombie"
  /\ program' = [program EXCEPT ![p] = "none"]
  /\ GoTo(p, Done(p))
  /\ UNCHANGED <<line, i, paths, named>>

ProgramEnds(p) ==
  /\ program[p] = "runs"
  /\ program' = [program EXCEPT ![p] = "zombie"]
  /\ UNCHANGED <<line, at, i, paths, named>>

-----------------------------------------------------------------------------
Forks == {p \in Jobs : at[p] # "none"}

\* wait(NULL) as often as there are commands before the last: it takes any child
\* that has ended, and returns at once when there is no child.
Wait ==
  /\ at[0] = "wait" /\ i < Children
  /\ i' = i + 1
  /\ \/ Forks = {} /\ UNCHANGED at
     \/ \E p \in Forks : at[p] = "zombie" /\ GoTo(p, "none")
  /\ UNCHANGED <<line, program, paths, named>>

NextLine_Early ==
  /\ at[0] = "wait" /\ i + 1 >= Children
  /\ GoTo(0, "prompt")
  /\ line' = <<>> /\ i' = 0
  /\ UNCHANGED <<program, paths, named>>
NextLine ==
  /\ at[0] = "wait" /\ i >= Children
  /\ GoTo(0, "prompt")
  /\ line' = <<>> /\ i' = 0
  /\ UNCHANGED <<program, paths, named>>

\* The shell reaches the end of its input.
EndOfInput ==
  /\ at[0] = "prompt"
  /\ GoTo(0, "exited")
  /\ UNCHANGED <<line, program, i, paths, named>>

Analyze(p) ==
  \/ Path(p) \/ ExitBuiltin(p) \/ NoProgram(p) \/ ForkProgram(p)
  \/ WaitForProgram(p) \/ ProgramEnds(p)

Shell == Fork \/ Forked \/ Wait \/ NextLine

Next ==
  \/ GetLine
  \/ EndOfInput
  \/ Shell
  \/ \E p \in Procs : Analyze(p)

\* Processes are scheduled, and programs end.
Fairness == WF_vars(Shell) /\ \A p \in Procs : WF_vars(Analyze(p))

Spec == Init /\ [][Next]_vars /\ Fairness

-----------------------------------------------------------------------------
\* What the theorems assume of the constants: a line has a command before each "&" and
\* after the last, and the bounds are large enough for the lines.
LinesFit ==
  /\ MaxChildren \in Nat /\ MaxDirs \in Nat
  /\ \A l \in Lines :
       /\ l \in Seq(Range(l)) /\ Len(l) \in 1..(MaxChildren + 1)
       /\ Last(l).name = "path" =>
            Last(l).args \in Seq(Range(Last(l).args)) /\ Len(Last(l).args) <= MaxDirs

TypeOK ==
  /\ line \in Lines \cup {<<>>}
  /\ at \in [Procs -> {"prompt", "fork", "analyze", "waitpid", "wait", "zombie", "none", "exited"}]
  /\ program \in [Procs -> {"none", "runs", "zombie"}]
  /\ i \in 0..MaxChildren

\* When the shell reads a line no process of the lines before is left, running
\* or not reaped (wish.c:95 and 236), whichever fork() failed.
NothingLeft ==
  at[0] = "prompt" => Forks = {} /\ \A p \in Procs : program[p] = "none"

\* The directories the shell searches are those of its last path command and at most
\* one that an earlier command left in the array (wish.c:215-219).
AtMostOneStale ==
  /\ \A n \in DOMAIN named : paths[0][n - 1] = named[n]
  /\ \E n \in 0..Len(named) + 1 : paths[0][n] = NULL

\* Every line comes to its end: the waits are never more than the children
\* that will end.
LineEnds == at[0] = "fork" ~> at[0] \in {"prompt", "exited"}

\* Between two lines the shell has no child left, and a path with at most one
\* directory too many.
WishInv == TypeOK /\ NothingLeft /\ AtMostOneStale
=============================================================================
