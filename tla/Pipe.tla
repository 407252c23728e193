--------------------------------- MODULE Pipe ---------------------------------
(***************************************************************************)
(* A pipe (project-2/src/pipe.c) with the two open files that refer to it  *)
(* (fileclose() in file.c).  nread and nwrite are unsigned counters that   *)
(* wrap around; a byte lives at its counter modulo PIPESIZE, and its cell  *)
(* is Empty once it is read.  A step is a critical section of p->lock, or  *)
(* its part up to sleep().                                                 *)
(***************************************************************************)
EXTENDS Task, FiniteSets

CONSTANTS
  PIPESIZE,
  Empty,             \* the value of no byte
  Writers, Readers   \* the processes with a descriptor of either end

ASSUME PipeAssumption ==
  /\ PIPESIZE \in Nat \ {0} /\ UINT % PIPESIZE = 0 /\ UINT >= 2 * PIPESIZE
  /\ Writers \cap Readers = {} /\ Writers \cup Readers \subseteq Tasks

VARIABLES
  data, nread, nwrite, readopen, writeopen,   \* struct pipe
  kfreed,                                     \* times its page was given back
  ref                                         \* f->ref of each end's file

pipe == <<data, nread, nwrite, readopen, writeopen, kfreed, ref>>

PipeInit ==
  /\ data = [i \in 0..(PIPESIZE - 1) |-> Empty]
  /\ nread = 0 /\ nwrite = 0
  /\ readopen = TRUE /\ writeopen = TRUE
  /\ kfreed = 0
  /\ ref = [read |-> Cardinality(Readers), write |-> Cardinality(Writers)]

\* Who is about to sleep still has p->lock.
PipeLockFree == \A p \in Tasks : ~At(p, {"pr_sleep", "pw_sleep"})

Stored == Minus(nwrite, nread)
Least(i, j) == IF i < j THEN i ELSE j

-----------------------------------------------------------------------------
(* pipewrite(): what fits now, a sleep when there is more *)

Room_OneMore == PIPESIZE + 1 - Stored
Room == PIPESIZE - Stored

PipeWrite(p) ==
  /\ pc[p] = "pw" /\ PipeLockFree
  /\ LET k == Least(Room, Len(ubuf[p])) IN
       /\ data' = [i \in DOMAIN data |->
            IF Minus(i, nwrite) % PIPESIZE < k
            THEN ubuf[p][(Minus(i, nwrite) % PIPESIZE) + 1] ELSE data[i]]
       /\ nwrite' = Plus(nwrite, k)
       /\ ubuf' = [ubuf EXCEPT ![p] = SubSeq(@, k + 1, Len(@))]
       /\ pc' = IF k = Len(ubuf[p])
                THEN [Woken("pr_asleep") EXCEPT ![p] = "pw_done"]
                ELSE IF ~readopen \/ killed[p]
                THEN [pc EXCEPT ![p] = "pw_failed"]
                ELSE [Woken("pr_asleep") EXCEPT ![p] = "pw_sleep"]
  /\ UNCHANGED <<nread, readopen, writeopen, kfreed, ref, killed>>

-----------------------------------------------------------------------------
(* piperead() of n bytes *)

PipeReadWait(p) ==
  /\ pc[p] = "pr" /\ PipeLockFree
  /\ nread = nwrite /\ writeopen
  /\ GoTo(p, IF killed[p] THEN "pr_failed" ELSE "pr_sleep")
  /\ UNCHANGED <<pipe, killed, ubuf>>

PipeRead_NoWakeup(p, n) ==
  /\ pc[p] = "pr" /\ PipeLockFree
  /\ nread # nwrite \/ ~writeopen
  /\ LET k == Least(Stored, n) IN
       /\ ubuf' = [ubuf EXCEPT ![p] = [i \in 1..k |-> data[Plus(nread, i - 1) % PIPESIZE]]]
       /\ nread' = Plus(nread, k)
       /\ data' = [i \in DOMAIN data |->
            IF Minus(i, nread) % PIPESIZE < k THEN Empty ELSE data[i]]
  /\ GoTo(p, "pr_done")
  /\ UNCHANGED <<nwrite, readopen, writeopen, kfreed, ref, killed>>
PipeRead(p, n) ==
  /\ pc[p] = "pr" /\ PipeLockFree
  /\ nread # nwrite \/ ~writeopen
  /\ LET k == Least(Stored, n) IN
       /\ ubuf' = [ubuf EXCEPT ![p] = [i \in 1..k |-> data[Plus(nread, i - 1) % PIPESIZE]]]
       /\ nread' = Plus(nread, k)
       /\ data' = [i \in DOMAIN data |->
            IF Minus(i, nread) % PIPESIZE < k THEN Empty ELSE data[i]]
  /\ pc' = [Woken("pw_asleep") EXCEPT ![p] = "pr_done"]
  /\ UNCHANGED <<nwrite, readopen, writeopen, kfreed, ref, killed>>

-----------------------------------------------------------------------------
(* fileclose(), and pipeclose() after it has given ftable.lock back *)

End(p) == IF p \in Writers THEN "write" ELSE "read"

FileClose_AnyReference(p) ==
  /\ pc[p] = "close"
  /\ ref' = [ref EXCEPT ![End(p)] = @ - 1]
  /\ GoTo(p, "pipeclose")
  /\ UNCHANGED <<data, nread, nwrite, readopen, writeopen, kfreed, killed, ubuf>>
FileClose(p) ==
  /\ pc[p] = "close"
  /\ ref' = [ref EXCEPT ![End(p)] = @ - 1]
  /\ GoTo(p, IF ref[End(p)] > 1 THEN "exited" ELSE "pipeclose")
  /\ UNCHANGED <<data, nread, nwrite, readopen, writeopen, kfreed, killed, ubuf>>

PipeClose_NoWakeup(p) ==
  /\ pc[p] = "pipeclose" /\ PipeLockFree
  /\ IF p \in Writers THEN writeopen' = FALSE /\ UNCHANGED readopen
                      ELSE readopen' = FALSE /\ UNCHANGED writeopen
  /\ kfreed' = IF ~readopen' /\ ~writeopen' THEN kfreed + 1 ELSE kfreed
  /\ GoTo(p, "exited")
  /\ UNCHANGED <<data, nread, nwrite, ref, killed, ubuf>>
PipeClose(p) ==
  /\ pc[p] = "pipeclose" /\ PipeLockFree
  /\ IF p \in Writers THEN writeopen' = FALSE /\ UNCHANGED readopen
                      ELSE readopen' = FALSE /\ UNCHANGED writeopen
  /\ kfreed' = IF ~readopen' /\ ~writeopen' THEN kfreed + 1 ELSE kfreed
  /\ pc' = [Woken(IF p \in Writers THEN "pr_asleep" ELSE "pw_asleep") EXCEPT ![p] = "exited"]
  /\ UNCHANGED <<data, nread, nwrite, ref, killed, ubuf>>

Close(p) == FileClose(p) \/ PipeClose(p)

-----------------------------------------------------------------------------
PipeTypeOK ==
  /\ {nread, nwrite} \subseteq 0..(UINT - 1) /\ Stored <= PIPESIZE
  /\ readopen \in BOOLEAN /\ writeopen \in BOOLEAN
  /\ kfreed \in {0, 1}
  /\ ref \in [{"read", "write"} -> 0..Cardinality(Tasks)]

Channel == INSTANCE ByteChannel WITH
  Room <- PIPESIZE,
  chan <- [i \in 1..Stored |-> data[Plus(nread, i - 1) % PIPESIZE]],
  hold <- ubuf

\* Every byte written arrives once and in order, with writers and readers that
\* sleep half way through their calls and counters that wrap around.
ChannelSafe == Channel!Safe

\* A read that returns 0 has met the end: nothing is left in the pipe and no
\* writer can add to it (pipe.c:105).
EofIsFinal ==
  \A q \in Readers : pc[q] = "pr_done" /\ ubuf[q] = <<>> =>
    Stored = 0 /\ ~writeopen /\ \A p \in Writers : pc[p] = "exited"

\* The page of the pipe is freed once, and nobody uses it afterwards (pipe.c:68).
FreedWhenUnused ==
  kfreed > 0 => \A p \in Readers \cup Writers : pc[p] = "exited"

\* No process sleeps on a pipe that it could go on with, except that a killed
\* writer leaves a full pipe without waking the reader (pipe.c:87): the reader
\* then sleeps until somebody else writes, or closes the last descriptor.
GaveUp(p) == killed[p] /\ At(p, {"pw_failed", "close", "pipeclose", "exited"})
PipeNoticed == \A p \in Tasks :
  /\ pc[p] = "pw_asleep" => Stored = PIPESIZE /\ readopen
  /\ pc[p] = "pr_asleep" =>
       /\ writeopen
       /\ \/ Stored = 0
          \/ Stored = PIPESIZE /\ \E q \in Writers : GaveUp(q)
=============================================================================
