----------------------------- MODULE AtomicStore -----------------------------
(***************************************************************************)
(* What the log promises to the file system calls that run between         *)
(* begin_op() and end_op(): their writes reach the disk together, at a     *)
(* moment when no call is half way, and a crash takes the store back to    *)
(* the last such moment.  Module Log implements it.                        *)
(***************************************************************************)
CONSTANTS Block, Op, Content, Blank

VARIABLES
  mem,       \* the blocks as the running system sees them
  durable,   \* the blocks a crash would leave
  active     \* file system calls in progress

store == <<mem, durable, active>>

Init ==
  /\ mem = [b \in Block |-> Blank]
  /\ durable = mem
  /\ active = {}

Begin(o) ==
  /\ o \notin active
  /\ active' = active \cup {o}
  /\ UNCHANGED <<mem, durable>>

Write(o, b, v) ==
  /\ o \in active
  /\ mem' = [mem EXCEPT ![b] = v]
  /\ UNCHANGED <<durable, active>>

End(o) ==
  /\ o \in active
  /\ active' = active \ {o}
  /\ UNCHANGED <<mem, durable>>

Commit ==
  /\ active = {}
  /\ durable' = mem
  /\ UNCHANGED <<mem, active>>

Crash ==
  /\ mem' = durable
  /\ active' = {}
  /\ UNCHANGED durable

Next ==
  \/ \E o \in Op : \/ Begin(o) \/ End(o)
                   \/ \E b \in Block, v \in Content : Write(o, b, v)
  \/ Commit
  \/ Crash

Spec == Init /\ [][Next]_store
=============================================================================
