----------------------------- MODULE ProcessTree -----------------------------
(***************************************************************************)
(* What fork(), exit() and wait() promise to user programs, without slots' *)
(* embryonic states, locks, CPUs or sleeping: a tree of processes in which *)
(* a dead process stays a zombie until its parent, or init after the       *)
(* parent's death, collects it.  Module Proc implements it.                *)
(***************************************************************************)
CONSTANTS Process, Root, Nobody

VARIABLES
  alive,    \* processes that may still run
  zombie,   \* dead, not yet waited for
  par       \* whom each process is a child of

tree == <<alive, zombie, par>>

Init ==
  /\ alive = {Root}
  /\ zombie = {}
  /\ par = [p \in Process |-> Nobody]

\* fork() returns: a new child of p.
Spawn(p, c) ==
  /\ p \in alive
  /\ c \in Process \ (alive \cup zombie)
  /\ alive' = alive \cup {c}
  /\ par' = [par EXCEPT ![c] = p]
  /\ UNCHANGED zombie

\* exit(): the children go to Root in the same step.
Die(p) ==
  /\ p \in alive \ {Root}
  /\ alive' = alive \ {p}
  /\ zombie' = zombie \cup {p}
  /\ par' = [c \in Process |-> IF par[c] = p THEN Root ELSE par[c]]

\* wait() returns c to its parent.
Reap(p, c) ==
  /\ p \in alive
  /\ c \in zombie
  /\ par[c] = p
  /\ zombie' = zombie \ {c}
  /\ par' = [par EXCEPT ![c] = Nobody]
  /\ UNCHANGED alive

Next ==
  \/ \E p, c \in Process : Spawn(p, c) \/ Reap(p, c)
  \/ \E p \in Process : Die(p)

Spec == Init /\ [][Next]_tree

\* A dead child of Root is collected, whatever its former parent did.
OrphansReaped ==
  \A c \in Process \ {Root} : (c \in zombie /\ par[c] = Root) ~> c \notin zombie
=============================================================================
