--------------------------------- MODULE Log ---------------------------------
(***************************************************************************)
(* The write-ahead log of the xv6 file system (project-2/src/log.c), with  *)
(* what it uses of the buffer cache and the disk: a B_DIRTY buffer stays   *)
(* cached, a clean one may be evicted, and bwrite() of one block is atomic *)
(* and durable when it returns.  The machine may crash between any two     *)
(* block writes; initlog() then recovers before any other call runs.       *)
(*                                                                         *)
(* A block's content is the number of times it was modified.               *)
(***************************************************************************)
EXTENDS Integers, Sequences, FiniteSets, Functions

CONSTANTS
  Ops,          \* processes that make file system calls
  Blocks,       \* block numbers outside the log
  NoBlock,      \* not one of them
  MAXOPBLOCKS,  \* blocks begin_op() reserves for a call (param.h)
  LOGSIZE,      \* entries of struct logheader (param.h)
  LogBlocks,    \* log.size: blocks of the on-disk log, its header included
  OpBlocks,     \* blocks a call really writes
  MaxContent,   \* bound on the modifications of a block
  MaxChanges    \* bound on those of all blocks

ASSUME LogAssumption ==
  /\ IsFiniteSet(Ops)
  /\ MAXOPBLOCKS \in Nat \ {0}
  /\ LOGSIZE \in Nat /\ MAXOPBLOCKS <= LOGSIZE
  /\ LogBlocks \in Nat \ {0}
  /\ OpBlocks \in 0..MAXOPBLOCKS
  /\ MaxContent \in Nat /\ MaxChanges \in Nat
  /\ NoBlock \notin Blocks

\* The log on disk has a block more than the calls that begin_op() admits
\* together really write.  mkfs makes log.size = LOGSIZE = 3 * MAXOPBLOCKS: then it
\* is enough that a call writes one block fewer than it reserves.
LogHasRoom ==
  /\ OpBlocks < MAXOPBLOCKS
  /\ OpBlocks < LogBlocks - 1
  /\ LOGSIZE - (2 * (MAXOPBLOCKS - OpBlocks)) < LogBlocks - 1

LogSlots == 1..(LogBlocks - 1)
Contents == 0..MaxContent

VARIABLES
  home, logb, head,     \* on disk: the blocks, the log's blocks, its header
  cache, dirty,         \* buffers: b->data, and B_DIRTY
  lh,                   \* log.lh as the sequence of its block numbers
  outstanding, committing,
  pc,                   \* where each process is in begin_op/log_write/end_op
  writing,              \* the buffer a process has modified and holds locked
  wrote,                \* blocks its call has written
  tail,                 \* loop index of write_log() and install_trans()
  boot                  \* "up", or the step of recover_from_log()

disk == <<home, logb, head>>
buffers == <<cache, dirty>>
vars == <<home, logb, head, cache, dirty, lh, outstanding, committing,
          pc, writing, wrote, tail, boot>>

Init ==
  /\ home = [b \in Blocks |-> 0]
  /\ logb = [i \in LogSlots |-> 0]
  /\ head = <<>>
  /\ cache = home
  /\ dirty = [b \in Blocks |-> FALSE]
  /\ lh = <<>>
  /\ outstanding = 0
  /\ committing = FALSE
  /\ pc = [o \in Ops |-> "idle"]
  /\ writing = [o \in Ops |-> NoBlock]
  /\ wrote = [o \in Ops |-> {}]
  /\ tail = 1
  /\ boot = "up"

At(o, place) == boot = "up" /\ pc[o] = place
GoTo(o, place) == pc' = [pc EXCEPT ![o] = place]

\* wakeup(&log): the sleepers retry the loop of begin_op().
Woken(places) == [o \in Ops |-> IF places[o] = "asleep" THEN "begin" ELSE places[o]]

-----------------------------------------------------------------------------
(* begin_op() *)

MayBegin_ForgetsOthers == ~committing /\ Len(lh) + MAXOPBLOCKS <= LOGSIZE
MayBegin == ~committing /\ Len(lh) + (outstanding + 1) * MAXOPBLOCKS <= LOGSIZE

BeginCall(o) ==
  /\ At(o, "idle")
  /\ GoTo(o, "begin")
  /\ UNCHANGED <<disk, buffers, lh, outstanding, committing, writing, wrote, tail, boot>>

BeginOp(o) ==
  /\ At(o, "begin")
  /\ MayBegin
  /\ outstanding' = outstanding + 1
  /\ GoTo(o, "op")
  /\ UNCHANGED <<disk, buffers, lh, committing, writing, wrote, tail, boot>>

BeginSleep(o) ==
  /\ At(o, "begin")
  /\ ~MayBegin
  /\ GoTo(o, "asleep")
  /\ UNCHANGED <<disk, buffers, lh, outstanding, committing, writing, wrote, tail, boot>>

-----------------------------------------------------------------------------
(* log_write() *)

\* The caller locks the buffer and changes it; log_write() makes its two
\* tests before it takes log.lock.
Modify(o, b) ==
  /\ At(o, "op")
  /\ \A p \in Ops : writing[p] # b
  /\ Cardinality(wrote[o] \cup {b}) <= OpBlocks
  /\ cache[b] < MaxContent /\ FoldFunction(+, 0, cache) < MaxChanges
  /\ cache' = [cache EXCEPT ![b] = @ + 1]
  /\ wrote' = [wrote EXCEPT ![o] = @ \cup {b}]
  /\ writing' = [writing EXCEPT ![o] = b]
  /\ GoTo(o, IF Len(lh) >= LOGSIZE \/ Len(lh) >= LogBlocks - 1 \/ outstanding < 1
             THEN "panic" ELSE "log_write")
  /\ UNCHANGED <<disk, dirty, lh, outstanding, committing, tail, boot>>

\* Under log.lock: absorb or append, and pin the buffer.  brelse() follows.
LogWrite_NoPin(o) ==
  /\ At(o, "log_write")
  /\ lh' = IF \E i \in DOMAIN lh : lh[i] = writing[o] THEN lh ELSE Append(lh, writing[o])
  /\ writing' = [writing EXCEPT ![o] = NoBlock]
  /\ GoTo(o, "op")
  /\ UNCHANGED <<disk, buffers, outstanding, committing, wrote, tail, boot>>
LogWrite(o) ==
  /\ At(o, "log_write")
  /\ lh' = IF \E i \in DOMAIN lh : lh[i] = writing[o] THEN lh ELSE Append(lh, writing[o])
  /\ dirty' = [dirty EXCEPT ![writing[o]] = TRUE]
  /\ writing' = [writing EXCEPT ![o] = NoBlock]
  /\ GoTo(o, "op")
  /\ UNCHANGED <<disk, cache, outstanding, committing, wrote, tail, boot>>

\* bget() recycles a clean, unlocked buffer; the next bread() reads the disk.
Evict(b) ==
  /\ boot = "up"
  /\ ~dirty[b]
  /\ \A o \in Ops : writing[o] # b
  /\ cache' = [cache EXCEPT ![b] = home[b]]
  /\ UNCHANGED <<disk, dirty, lh, outstanding, committing, pc, writing, wrote, tail, boot>>

-----------------------------------------------------------------------------
(* end_op() and commit() *)

\* Others are still running: only the reservation is given back.
EndOpLeave(o) ==
  /\ At(o, "op")
  /\ outstanding > 1
  /\ outstanding' = outstanding - 1
  /\ pc' = [Woken(pc) EXCEPT ![o] = IF committing THEN "panic" ELSE "idle"]
  /\ wrote' = [wrote EXCEPT ![o] = {}]
  /\ UNCHANGED <<disk, buffers, lh, committing, writing, tail, boot>>

\* The last call commits, without holding log.lock.
EndOpCommit(o) ==
  /\ At(o, "op")
  /\ outstanding = 1
  /\ outstanding' = 0
  /\ committing' = TRUE
  /\ tail' = 1
  /\ wrote' = [wrote EXCEPT ![o] = {}]
  /\ GoTo(o, IF committing THEN "panic" ELSE IF lh = <<>> THEN "committed" ELSE "write_log")
  /\ UNCHANGED <<disk, buffers, lh, writing, boot>>

\* write_log(): one log block from the cache.
WriteLog(o) ==
  /\ At(o, "write_log")
  /\ tail <= Len(lh)
  /\ logb' = [logb EXCEPT ![tail] = cache[lh[tail]]]
  /\ tail' = tail + 1
  /\ UNCHANGED <<home, head, buffers, lh, outstanding, committing, pc, writing, wrote, boot>>

\* write_head(): the true point at which the transaction commits.
WriteHead_BeforeBlocks(o) ==
  /\ At(o, "write_log")
  /\ head' = lh
  /\ tail' = 1
  /\ GoTo(o, "install")
  /\ UNCHANGED <<home, logb, buffers, lh, outstanding, committing, writing, wrote, boot>>
WriteHead(o) ==
  /\ At(o, "write_log")
  /\ tail > Len(lh)
  /\ head' = lh
  /\ tail' = 1
  /\ GoTo(o, "install")
  /\ UNCHANGED <<home, logb, buffers, lh, outstanding, committing, writing, wrote, boot>>

\* install_trans(): one block from the log to its home; bwrite() cleans it.
InstallBlock ==
  /\ tail <= Len(lh)
  /\ home' = [home EXCEPT ![lh[tail]] = logb[tail]]
  /\ cache' = [cache EXCEPT ![lh[tail]] = logb[tail]]
  /\ dirty' = [dirty EXCEPT ![lh[tail]] = FALSE]
  /\ tail' = tail + 1
  /\ UNCHANGED <<logb, head, lh, outstanding, committing, pc, writing, wrote, boot>>

InstallTrans(o) == At(o, "install") /\ InstallBlock

\* log.lh.n = 0, and write_head() again erases the transaction.
ClearHead(o) ==
  /\ At(o, "install")
  /\ tail > Len(lh)
  /\ lh' = <<>>
  /\ head' = <<>>
  /\ GoTo(o, "committed")
  /\ UNCHANGED <<home, logb, buffers, outstanding, committing, writing, wrote, tail, boot>>

EndCommit_NoWakeup(o) ==
  /\ At(o, "committed")
  /\ committing' = FALSE
  /\ pc' = [pc EXCEPT ![o] = "idle"]
  /\ UNCHANGED <<disk, buffers, lh, outstanding, writing, wrote, tail, boot>>
EndCommit(o) ==
  /\ At(o, "committed")
  /\ committing' = FALSE
  /\ pc' = [Woken(pc) EXCEPT ![o] = "idle"]
  /\ UNCHANGED <<disk, buffers, lh, outstanding, writing, wrote, tail, boot>>

-----------------------------------------------------------------------------
(* Crash, and initlog() at the next boot *)

Crash ==
  /\ cache' = home
  /\ dirty' = [b \in Blocks |-> FALSE]
  /\ lh' = <<>>
  /\ outstanding' = 0
  /\ committing' = FALSE
  /\ pc' = [o \in Ops |-> "idle"]
  /\ writing' = [o \in Ops |-> NoBlock]
  /\ wrote' = [o \in Ops |-> {}]
  /\ tail' = 1
  /\ boot' = "read_head"
  /\ UNCHANGED disk

ReadHead ==
  /\ boot = "read_head"
  /\ lh' = head
  /\ tail' = 1
  /\ boot' = "install"
  /\ UNCHANGED <<disk, buffers, outstanding, committing, pc, writing, wrote>>

RecoverInstall == boot = "install" /\ InstallBlock

RecoverClear ==
  /\ boot = "install"
  /\ tail > Len(lh)
  /\ lh' = <<>>
  /\ head' = <<>>
  /\ boot' = "up"
  /\ UNCHANGED <<home, logb, buffers, outstanding, committing, pc, writing, wrote, tail>>

-----------------------------------------------------------------------------
Commit(o) ==
  \/ WriteLog(o) \/ WriteHead(o) \/ InstallTrans(o) \/ ClearHead(o) \/ EndCommit(o)
EndOp(o) == EndOpLeave(o) \/ EndOpCommit(o)
Recover == ReadHead \/ RecoverInstall \/ RecoverClear

Next ==
  \/ \E o \in Ops : \/ BeginCall(o) \/ BeginOp(o) \/ BeginSleep(o)
                    \/ \E b \in Blocks : Modify(o, b)
                    \/ LogWrite(o) \/ EndOp(o) \/ Commit(o)
  \/ \E b \in Blocks : Evict(b)
  \/ Crash
  \/ Recover

Spec == Init /\ [][Next]_vars

\* A call that has begun ends, the committing process and the recovery go on.
Fairness ==
  /\ \A o \in Ops : WF_vars(LogWrite(o)) /\ WF_vars(EndOp(o)) /\ WF_vars(Commit(o))
  /\ WF_vars(Recover)

FairSpec == Spec /\ Fairness

-----------------------------------------------------------------------------
TypeOK ==
  /\ home \in [Blocks -> Contents] /\ cache \in [Blocks -> Contents]
  /\ logb \in [LogSlots -> Contents]
  /\ head \in Seq(Blocks) /\ lh \in Seq(Blocks) /\ Len(lh) < LogBlocks /\ IsInjective(lh)
  /\ dirty \in [Blocks -> BOOLEAN]
  /\ outstanding \in Nat
  /\ committing \in BOOLEAN
  /\ pc \in [Ops -> {"idle", "begin", "asleep", "op", "log_write", "write_log",
                     "install", "committed", "panic"}]
  /\ writing \in [Ops -> Blocks \cup {NoBlock}]
  /\ wrote \in [Ops -> SUBSET Blocks]
  /\ tail \in Nat \ {0}
  /\ boot \in {"up", "read_head", "install"}

\* The content recovery would give a block if the machine stopped now.
Recovered ==
  [b \in Blocks |-> IF \E i \in DOMAIN head : head[i] = b
                    THEN logb[CHOOSE i \in DOMAIN head : head[i] = b] ELSE home[b]]

Store == INSTANCE AtomicStore WITH
  Block <- Blocks, Op <- Ops, Content <- Contents, Blank <- 0,
  mem <- IF boot = "up" THEN cache ELSE Recovered,
  durable <- Recovered,
  active <- {o \in Ops : pc[o] \in {"op", "log_write"}}

\* A crash, also during commit or recovery, leaves all or nothing of the calls
\* that committed together, and never part of one (log.c:10-18).
ImplementsStore == Store!Spec

\* When no call and no commit is in progress everything written is durable:
\* the last end_op() returns only after its group is on disk.
QuiescentDurable ==
  boot = "up" /\ outstanding = 0 /\ ~committing => Recovered = cache

\* No modified buffer can be recycled before its content is home.
NoLostBuffer ==
  boot = "up" => \A b \in Blocks :
    cache[b] # home[b] => dirty[b] \/ \E o \in Ops : writing[o] = b

\* The reservation of begin_op() is enough: no call finds the log full, none
\* writes outside a transaction, none ends during a commit.
NoLogPanic == \A o \in Ops : pc[o] # "panic"

\* A process asleep in begin_op() has a call or a commit that will wake it.
SleeperHasWaker ==
  (\E o \in Ops : pc[o] = "asleep") => outstanding > 0 \/ committing

\* A process asleep in begin_op() gets to test again.
SleeperRetries == \A o \in Ops : pc[o] = "asleep" ~> pc[o] # "asleep"

\* The log between its calls, commits, crashes and recoveries: what is not home
\* is pinned, what was reported durable is, and who sleeps will be woken.
LogInv == TypeOK /\ QuiescentDurable /\ NoLostBuffer /\ SleeperHasWaker
=============================================================================
