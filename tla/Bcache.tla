-------------------------------- MODULE Bcache --------------------------------
(***************************************************************************)
(* The buffer cache (project-2/src/bio.c), its sleep locks (sleeplock.c)   *)
(* and the disk driver with its request queue and interrupt (ide.c).       *)
(*                                                                         *)
(* A step is a critical section of bcache.lock, of a sleep lock's spin     *)
(* lock or of idelock.  A process holds one buffer, or two: bmap() and     *)
(* itrunc() hold an indirect block while balloc(), bzero() and bfree() use *)
(* another, and the log holds one of its blocks while it copies it to or   *)
(* from its place.                                                         *)
(***************************************************************************)
EXTENDS Integers, Sequences, FiniteSets, Functions

CONSTANTS
  Procs,      \* processes
  NBUF,       \* buffers (param.h)
  Blocks,     \* block numbers
  LogBlocks,  \* those of the log
  Indirect,   \* those that hold the numbers of a file's blocks
  Values,     \* contents are 0..Values-1
  MaxPinned,  \* buffers the log leaves B_DIRTY between calls
  ReadOK,     \* results of idewait(1) when a read completes: TRUE, no error
  Nobody

ASSUME BcacheAssumption ==
  /\ IsFiniteSet(Procs)
  /\ NBUF \in Nat \ {0} /\ Values \in Nat \ {0}
  /\ MaxPinned \in Nat /\ Blocks \subseteq Nat \ {0} /\ ReadOK \subseteq BOOLEAN
  /\ LogBlocks \subseteq Blocks /\ Indirect \subseteq Blocks \ LogBlocks
  /\ Nobody \notin Procs

Bufs == 1..NBUF
NoBlock == 0      \* device 0, block 0: what binit() leaves in a buffer
Contents == 0..(Values - 1)

VARIABLES
  mru,                              \* the list from bcache.head.next on
  blockno, refcnt, valid, dirty, data,   \* struct buf
  lock,                             \* lk->locked and lk->pid
  idequeue,
  disk,
  pc,
  stack                             \* the buffers of a process, the one it works on first

cache == <<mru, blockno, refcnt>>
flags == <<valid, dirty>>
vars == <<mru, blockno, refcnt, valid, dirty, data, lock, idequeue, disk, pc, stack>>

Init ==
  /\ mru = [i \in Bufs |-> NBUF + 1 - i]
  /\ blockno = [b \in Bufs |-> NoBlock]
  /\ refcnt = [b \in Bufs |-> 0]
  /\ valid = [b \in Bufs |-> FALSE]
  /\ dirty = [b \in Bufs |-> FALSE]
  /\ data = [b \in Bufs |-> 0]
  /\ lock = [b \in Bufs |-> Nobody]
  /\ idequeue = <<>>
  /\ disk = [k \in Blocks |-> 0]
  /\ pc = [p \in Procs |-> "idle"]
  /\ stack = [p \in Procs |-> <<>>]

GoTo(p, place) == pc' = [pc EXCEPT ![p] = place]
Buf(p) == Head(stack[p])

\* The steps of a sleep lock and of a transfer for bread() and for bwrite().
Lock == [lock_asleep |-> "lock"]
Start == [read |-> "read_asleep", write |-> "write_asleep"]
Intr == [read_asleep |-> "read_awake", write_asleep |-> "write_awake"]
Done == [read_awake |-> "use", write_awake |-> "written"]

\* wakeup(): the processes asleep on buffer b take their next step.
Woken(b, next) ==
  [p \in Procs |-> IF pc[p] \in DOMAIN next /\ Buf(p) = b THEN next[pc[p]] ELSE pc[p]]

-----------------------------------------------------------------------------
(* bget() *)

\* Who calls bread(): with a buffer in hand, write_log() and install_trans(), which
\* have a block of the log and ask for one outside; and bmap() and itrunc(), which
\* have an indirect block and ask for the bitmap or a new block, again and again.
Under(p) == blockno[Buf(p)]
MayAsk_AnyOrder(p, k) ==
  \/ pc[p] = "idle"
  \/ pc[p] \in {"use", "resumed"} /\ Len(stack[p]) = 1 /\ k # Under(p)
MayAsk(p, k) ==
  \/ pc[p] = "idle"
  \/ /\ pc[p] \in {"use", "resumed"} /\ Len(stack[p]) = 1 /\ k \notin LogBlocks
     /\ \/ pc[p] = "use" /\ Under(p) \in LogBlocks
        \/ Under(p) \in Indirect /\ k \notin Indirect

Caching(k) == {b \in Bufs : blockno[b] = k}
Recyclable_Dirty == {i \in DOMAIN mru : refcnt[mru[i]] = 0}
Recyclable == {i \in DOMAIN mru : refcnt[mru[i]] = 0 /\ ~dirty[mru[i]]}

\* The block is cached: take a reference; its lock comes later.
BgetHit(p, k) ==
  /\ MayAsk(p, k)
  /\ \E i \in DOMAIN mru :
       /\ blockno[mru[i]] = k
       /\ \A j \in 1..(i - 1) : blockno[mru[j]] # k
       /\ refcnt' = [refcnt EXCEPT ![mru[i]] = @ + 1]
       /\ stack' = [stack EXCEPT ![p] = <<mru[i]>> \o @]
  /\ GoTo(p, "lock")
  /\ UNCHANGED <<mru, blockno, flags, data, lock, idequeue, disk>>

\* Not cached: the least recently used buffer that nobody needs.
BgetRecycle(p, k) ==
  /\ MayAsk(p, k)
  /\ Caching(k) = {}
  /\ \E i \in Recyclable :
       /\ \A j \in Recyclable : j <= i
       /\ blockno' = [blockno EXCEPT ![mru[i]] = k]
       /\ valid' = [valid EXCEPT ![mru[i]] = FALSE]
       /\ dirty' = [dirty EXCEPT ![mru[i]] = FALSE]
       /\ refcnt' = [refcnt EXCEPT ![mru[i]] = 1]
       /\ stack' = [stack EXCEPT ![p] = <<mru[i]>> \o @]
  /\ GoTo(p, "lock")
  /\ UNCHANGED <<mru, data, lock, idequeue, disk>>

\* panic("bget: no buffers") stops the machine.
BgetPanics(p, k) == MayAsk(p, k) /\ Caching(k) = {} /\ Recyclable = {}

\* acquiresleep(); bread() then tests B_VALID, which only the holder changes.
AcquireSleep(p) ==
  /\ pc[p] = "lock"
  /\ lock[Buf(p)] = Nobody
  /\ lock' = [lock EXCEPT ![Buf(p)] = p]
  /\ GoTo(p, IF valid[Buf(p)] THEN "use" ELSE "read")
  /\ UNCHANGED <<cache, flags, data, idequeue, disk, stack>>

AcquireSleepWait(p) ==
  /\ pc[p] = "lock"
  /\ lock[Buf(p)] # Nobody
  /\ GoTo(p, "lock_asleep")
  /\ UNCHANGED <<cache, flags, data, lock, idequeue, disk, stack>>

-----------------------------------------------------------------------------
(* What the file system and the log do with a buffer they hold *)

Modify(p) ==
  /\ pc[p] \in {"use", "resumed"}
  /\ data' = [data EXCEPT ![Buf(p)] = (@ + 1) % Values]
  /\ GoTo(p, "modified")
  /\ UNCHANGED <<cache, flags, lock, idequeue, disk, stack>>

\* The log has its block and the one at its place: write_log() fills and writes the
\* first one taken and gives it back last, install_trans() the other way round.
Turn(p) ==
  /\ pc[p] \in {"use", "written"} /\ Len(stack[p]) = 2
  /\ \E i \in 1..2 : blockno[stack[p][i]] \in LogBlocks
  /\ stack' = [stack EXCEPT ![p] = <<@[2], @[1]>>]
  /\ GoTo(p, IF pc[p] = "use" THEN "resumed" ELSE "written")
  /\ UNCHANGED <<cache, flags, data, lock, idequeue, disk>>

\* log_write(): the buffer is left to the log, pinned.
LogWrite(p) ==
  /\ pc[p] = "modified"
  /\ dirty[Buf(p)] \/ Cardinality({b \in Bufs : dirty[b]}) < MaxPinned
  /\ dirty' = [dirty EXCEPT ![Buf(p)] = TRUE]
  /\ GoTo(p, "written")
  /\ UNCHANGED <<cache, valid, data, lock, idequeue, disk, stack>>

Bwrite(p) ==
  /\ pc[p] = "modified"
  /\ dirty' = [dirty EXCEPT ![Buf(p)] = TRUE]
  /\ GoTo(p, "write")
  /\ UNCHANGED <<cache, valid, data, lock, idequeue, disk, stack>>

-----------------------------------------------------------------------------
(* iderw() and ideintr().  The head of the queue is the active request. *)

Iderw(p) ==
  /\ pc[p] \in DOMAIN Start
  /\ idequeue' = Append(idequeue, Buf(p))
  /\ GoTo(p, Start[pc[p]])
  /\ UNCHANGED <<cache, flags, data, lock, disk, stack>>

\* The transfer is seen to happen when its interrupt is handled.
Ideintr_WakesNext ==
  /\ idequeue # <<>>
  /\ LET b == Head(idequeue) IN
       /\ disk' = IF dirty[b] THEN [disk EXCEPT ![blockno[b]] = data[b]] ELSE disk
       /\ data' = IF dirty[b] THEN data ELSE [data EXCEPT ![b] = disk[blockno[b]]]
       /\ valid' = [valid EXCEPT ![b] = TRUE]
       /\ dirty' = [dirty EXCEPT ![b] = FALSE]
       /\ idequeue' = Tail(idequeue)
       /\ pc' = IF Tail(idequeue) = <<>> THEN Woken(b, Intr)
                ELSE Woken(Head(Tail(idequeue)), Intr)
  /\ UNCHANGED <<cache, lock, stack>>
Ideintr ==
  /\ idequeue # <<>>
  /\ LET b == Head(idequeue) IN
       /\ disk' = IF dirty[b] THEN [disk EXCEPT ![blockno[b]] = data[b]] ELSE disk
       /\ \E ok \in ReadOK :
            data' = IF dirty[b] \/ ~ok THEN data ELSE [data EXCEPT ![b] = disk[blockno[b]]]
       /\ valid' = [valid EXCEPT ![b] = TRUE]
       /\ dirty' = [dirty EXCEPT ![b] = FALSE]
       /\ idequeue' = Tail(idequeue)
       /\ pc' = Woken(b, Intr)
  /\ UNCHANGED <<cache, lock, stack>>

\* The loop of iderw() tests the flags again.
IderwReturn(p) ==
  /\ pc[p] \in DOMAIN Done
  /\ valid[Buf(p)] /\ ~dirty[Buf(p)]
  /\ GoTo(p, Done[pc[p]])
  /\ UNCHANGED <<cache, flags, data, lock, idequeue, disk, stack>>

-----------------------------------------------------------------------------
(* brelse(): first the sleep lock, then the reference and the list *)

ReleaseSleep(p) ==
  /\ pc[p] \in {"use", "resumed", "written"}
  /\ lock' = [lock EXCEPT ![Buf(p)] = Nobody]
  /\ pc' = [Woken(Buf(p), Lock) EXCEPT ![p] = "unref"]
  /\ UNCHANGED <<cache, flags, data, idequeue, disk, stack>>

\* The list when the buffer at place i of it is moved to the front.
MovedToFront(i) ==
  [j \in Bufs |-> IF j = 1 THEN mru[i] ELSE IF j <= i THEN mru[j - 1] ELSE mru[j]]
Place(b) == CHOOSE i \in Bufs : mru[i] = b

Unref_LastOnly(p) ==
  /\ pc[p] = "unref"
  /\ refcnt' = IF refcnt[Buf(p)] = 1 THEN [refcnt EXCEPT ![Buf(p)] = 0] ELSE refcnt
  /\ mru' = IF refcnt[Buf(p)] = 1 THEN MovedToFront(Place(Buf(p))) ELSE mru
  /\ stack' = [stack EXCEPT ![p] = Tail(@)]
  /\ GoTo(p, IF Len(stack[p]) = 1 THEN "idle" ELSE "resumed")
  /\ UNCHANGED <<blockno, flags, data, lock, idequeue, disk>>
Unref(p) ==
  /\ pc[p] = "unref"
  /\ refcnt' = [refcnt EXCEPT ![Buf(p)] = @ - 1]
  /\ mru' = IF refcnt[Buf(p)] = 1 THEN MovedToFront(Place(Buf(p))) ELSE mru
  /\ stack' = [stack EXCEPT ![p] = Tail(@)]
  /\ GoTo(p, IF Len(stack[p]) = 1 THEN "idle" ELSE "resumed")
  /\ UNCHANGED <<blockno, flags, data, lock, idequeue, disk>>

-----------------------------------------------------------------------------
Bget(p) == \E k \in Blocks : BgetHit(p, k) \/ BgetRecycle(p, k)
Acquire(p) == AcquireSleep(p) \/ AcquireSleepWait(p)
Write(p) == LogWrite(p) \/ Bwrite(p)
Brelse(p) == ReleaseSleep(p) \/ Unref(p)

Next ==
  \/ \E p \in Procs : \/ Bget(p) \/ Acquire(p) \/ Modify(p) \/ Turn(p) \/ Write(p)
                      \/ Iderw(p) \/ IderwReturn(p) \/ Brelse(p)
  \/ Ideintr

\* The disk answers and the processes run.  Nobody has to ask for a block, but
\* every caller of bread() comes to its brelse(), also when it asks for others in
\* between: the loop of itrunc() ends.
ReleaseLast(p) == Len(stack[p]) = 1 /\ ReleaseSleep(p)
Fairness ==
  /\ WF_vars(Ideintr)
  /\ \A p \in Procs : /\ WF_vars(Acquire(p)) /\ WF_vars(Write(p)) /\ WF_vars(Iderw(p))
                      /\ WF_vars(IderwReturn(p)) /\ WF_vars(Brelse(p))
                      /\ SF_vars(ReleaseLast(p))

Spec == Init /\ [][Next]_vars /\ Fairness

-----------------------------------------------------------------------------
TypeOK ==
  /\ mru \in [Bufs -> Bufs] /\ IsInjective(mru)
  /\ blockno \in [Bufs -> Blocks \cup {NoBlock}]
  /\ refcnt \in [Bufs -> Nat]
  /\ valid \in [Bufs -> BOOLEAN] /\ dirty \in [Bufs -> BOOLEAN]
  /\ data \in [Bufs -> Contents] /\ disk \in [Blocks -> Contents]
  /\ lock \in [Bufs -> Procs \cup {Nobody}]
  /\ idequeue \in Seq(Bufs)
  /\ pc \in [Procs -> {"idle", "lock", "lock_asleep", "use", "resumed", "modified",
                       "written", "unref"} \cup DOMAIN Start \cup DOMAIN Intr \cup DOMAIN Done]
  /\ stack \in [Procs -> Seq(Bufs)]

\* What the holder of block k sees: a valid buffer, else what it will read.
ContentOf(k) ==
  IF \E b \in Caching(k) : valid[b] \/ dirty[b]
  THEN data[CHOOSE b \in Caching(k) : valid[b] \/ dirty[b]] ELSE disk[k]
HolderOf(k) ==
  IF \E b \in Caching(k) : lock[b] # Nobody
  THEN lock[CHOOSE b \in Caching(k) : lock[b] # Nobody] ELSE Nobody

Store == INSTANCE BlockStore WITH
  Block <- Blocks, Proc <- Procs, Content <- Contents, Blank <- 0,
  content <- [k \in Blocks |-> ContentOf(k)],
  stable <- disk,
  holder <- [k \in Blocks |-> HolderOf(k)]

\* bread() hands a block to one process at a time, with what was last left in
\* it, through hits, recycling, pinning and transfers (bio.c:7-16).
ImplementsStore == Store!Spec

\* Two processes that ask for a block at once get the same buffer, and a
\* reference that is still needed keeps the buffer for its block: the count is
\* that of the processes between bget() and the end of brelse() (bio.c:66, 124).
References ==
  /\ \A b, c \in Bufs : blockno[b] = blockno[c] /\ blockno[b] # NoBlock => b = c
  /\ \A b \in Bufs : refcnt[b] = Cardinality({p \in Procs : b \in Range(stack[p])})

\* A clean valid buffer that nobody is changing is equal to its block on disk,
\* so that recycling it loses nothing (bio.c:78).
CleanIsOnDisk ==
  \A b \in Bufs : valid[b] /\ ~dirty[b] =>
    \/ data[b] = disk[blockno[b]]
    \/ \E p \in Procs : pc[p] = "modified" /\ Buf(p) = b

\* The requests in the queue are exactly those that somebody waits for, each
\* once, on a buffer its process has locked (ide.c:136-160).
QueueIsWaitedFor ==
  /\ IsInjective(idequeue)
  /\ Range(idequeue) = {Buf(p) : p \in {q \in Procs : pc[q] \in DOMAIN Intr}}
  /\ \A p \in Procs : pc[p] \in DOMAIN Intr => lock[Buf(p)] = p

\* Nobody sleeps on a sleep lock that is free: whoever released it has woken
\* all who waited, and only one of them has it again (sleeplock.c:25, 39).
LockSleeperHasHolder ==
  \A p \in Procs : pc[p] = "lock_asleep" => lock[Buf(p)] # Nobody

\* bget() finds no buffer only when the processes hold, and the log pins, all
\* of them: no path through hit, recycling and release leaks one (bio.c:92).
PanicsOnlyWhenFull ==
  \A p \in Procs, k \in Blocks : BgetPanics(p, k) =>
    \A b \in Bufs : dirty[b] \/ \E q \in Procs : b \in Range(stack[q])

\* A transfer that was asked for is done and its process goes on (ide.c:121).
DiskAnswers == \A p \in Procs :
  /\ pc[p] = "read_asleep" ~> pc[p] = "use"
  /\ pc[p] = "write_asleep" ~> pc[p] = "written"

\* Whoever waits for a sleep lock gets to try for it, also while others hold one lock
\* and wait for another: nobody who has the bitmap or a block of a file asks for more,
\* and nobody asks for a block of the log with a buffer in hand (fs.c:389-395,
\* 422-428, log.c:75-80, 183-188).
LockIsReleased == \A p \in Procs : pc[p] = "lock_asleep" ~> pc[p] = "lock"

\* The cache, its locks and the queue of the disk agree at every step: one buffer
\* for a block, no lost content, no lost request, no lost wakeup, no lost buffer.
BcacheInv ==
  /\ TypeOK
  /\ References
  /\ CleanIsOnDisk
  /\ QueueIsWaitedFor
  /\ LockSleeperHasHolder
  /\ PanicsOnlyWhenFull
=============================================================================
