-------------------------------- MODULE Stream --------------------------------
(***************************************************************************)
(* cat | wc: the user types, cat copies its input to a pipe, wc reads the  *)
(* pipe to its end (cat.c, wc.c of project 2), and the shell that started  *)
(* them still has to close its own descriptors of the pipe (sh.c:120).     *)
(***************************************************************************)
EXTENDS Console, Pipe

CONSTANTS
  Cat, Wc,
  Shells,      \* a process for each end the shell has open
  WcN          \* bytes a read() of wc asks for

ASSUME StreamAssumption ==
  /\ Tasks = {Cat, Wc} \cup Shells /\ IsFiniteSet(Shells)
  /\ Cat # Wc /\ {Cat, Wc} \cap Shells = {}
  /\ Typists = {Cat} /\ Cat \in Writers /\ Wc \in Readers
  /\ Writers \cup Readers = Tasks
  /\ WcN \in Nat \ {0}

vars == <<console, pipe, task>>

Init ==
  /\ ConsoleInit
  /\ PipeInit
  /\ pc = [p \in Tasks |-> IF p \in Shells THEN "close" ELSE "user"]
  /\ killed = [p \in Tasks |-> FALSE]
  /\ ubuf = [p \in Tasks |-> <<>>]

\* while((n = read(fd, buf, sizeof(buf))) > 0) of cat() and wc().
CatReads ==
  /\ pc[Cat] = "user" /\ ~killed[Cat]
  /\ ConsoleRead(Cat)
  /\ UNCHANGED pipe
WcReads ==
  /\ pc[Wc] = "user" /\ ~killed[Wc]
  /\ GoTo(Wc, "pr")
  /\ UNCHANGED <<console, pipe, killed, ubuf>>

\* A killed process leaves when its next call begins (trap.c:40) or its call
\* returns (trap.c:43), or at an interrupt while it computes (trap.c:100).
Leaves(p) ==
  \/ At(p, {"con_failed", "pr_failed", "pw_failed"})
  \/ At(p, {"con_done", "pr_done"}) /\ ubuf[p] = <<>>
  \/ At(p, {"user", "con_done", "pr_done", "pw_done"}) /\ killed[p]

\* exit() closes its descriptors.
Exit(p) ==
  /\ Leaves(p)
  /\ GoTo(p, "close")
  /\ ubuf' = [ubuf EXCEPT ![p] = <<>>]
  /\ UNCHANGED <<console, pipe, killed>>

\* cat writes what it has read; both then read on.
GoesOn(p) ==
  /\ ~Leaves(p)
  /\ \/ pc[p] = "con_done" /\ GoTo(p, "pw")
     \/ At(p, {"pr_done", "pw_done"}) /\ GoTo(p, "user")
  /\ ubuf' = IF pc[p] = "pr_done" THEN [ubuf EXCEPT ![p] = <<>>] ELSE ubuf
  /\ UNCHANGED <<console, pipe, killed>>

Program(p) ==
  \/ p = Cat /\ CatReads
  \/ p = Wc /\ WcReads
  \/ Exit(p)
  \/ GoesOn(p)
  \/ Sleep(p) /\ UNCHANGED <<console, pipe>>
  \/ ConsoleStep(p) /\ UNCHANGED pipe
  \/ (PipeWrite(p) \/ PipeReadWait(p) \/ PipeRead(p, WcN) \/ Close(p)) /\ UNCHANGED console

Next ==
  \/ \E p \in Tasks : Program(p)
  \/ Type /\ UNCHANGED pipe
  \/ \E p \in {Cat, Wc} : Kill(p) /\ UNCHANGED <<console, pipe>>

Fairness == \A p \in Tasks : WF_vars(Program(p))

Spec == Init /\ [][Next]_vars /\ Fairness

-----------------------------------------------------------------------------
Places == {"user", "con_read", "con_sleep", "con_asleep", "con_copy", "con_done",
           "con_failed", "pr", "pr_sleep", "pr_asleep", "pr_done", "pr_failed",
           "pw", "pw_sleep", "pw_asleep", "pw_done", "pw_failed",
           "close", "pipeclose", "exited"}

TypeOK ==
  /\ ConsoleTypeOK /\ PipeTypeOK
  /\ pc \in [Tasks -> Places] /\ killed \in [Tasks -> BOOLEAN]
  /\ \A p \in Tasks : Len(ubuf[p]) <= target + WcN

\* When every writer has left, or was killed, wc sees the end and leaves too.
EofReachesReader ==
  (\A p \in Writers : pc[p] = "exited") ~> pc[Wc] = "exited"

\* What was submitted is read, as long as cat is there to read it: it is never
\* stuck behind a full pipe or a reader that has gone.
InputArrives == []<>(r = w \/ At(Cat, {"con_done", "exited"}))

\* Nobody sleeps on the console or the pipe that could go on, the end of the pipe
\* is read only when it is the end, and its page is freed once, unused.
StreamInv == TypeOK /\ InputNoticed /\ PipeNoticed /\ EofIsFinal /\ FreedWhenUnused
=============================================================================
