--------------------------------- MODULE Task ---------------------------------
(***************************************************************************)
(* What the console and the pipes use of a process: where it is, whether   *)
(* it has been killed (proc.c:483), and the buffer of its read() or        *)
(* write(), arg 1 of the system call.  Between its test of killed and its  *)
(* sleep() a process holds the lock of its device, which keeps wakeups     *)
(* away but not a kill() of another CPU.                                   *)
(***************************************************************************)
EXTENDS Integers, Sequences

CONSTANTS
  Tasks,   \* processes
  UINT     \* number of values of an unsigned int

VARIABLES pc, killed, ubuf
task == <<pc, killed, ubuf>>

Plus(x, k) == (x + k) % UINT
Minus(x, k) == (x - k) % UINT

At(p, places) == pc[p] \in places
GoTo(p, place) == pc' = [pc EXCEPT ![p] = place]

\* sleep(): ptable.lock is taken before the lock of the device is given back.
Asleep == [con_sleep |-> "con_asleep", pr_sleep |-> "pr_asleep", pw_sleep |-> "pw_asleep"]
Sleep(p) ==
  /\ At(p, DOMAIN Asleep)
  /\ GoTo(p, Asleep[pc[p]])
  /\ UNCHANGED <<killed, ubuf>>

\* Where a sleeper goes on when it is woken.
Resume == [con_asleep |-> "con_read", pr_asleep |-> "pr", pw_asleep |-> "pw"]

\* wakeup(): all who sleep at the place, and p goes on to its own next step.
Woken(place) == [q \in Tasks |-> IF pc[q] = place THEN Resume[place] ELSE pc[q]]

\* kill() in proc.c: the mark, and the sleeper runs on.
Kill(p) ==
  /\ ~killed[p]
  /\ killed' = [killed EXCEPT ![p] = TRUE]
  /\ pc' = IF At(p, DOMAIN Resume) THEN [pc EXCEPT ![p] = Resume[@]] ELSE pc
  /\ UNCHANGED ubuf
=============================================================================
