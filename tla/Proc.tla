-------------------------------- MODULE Proc --------------------------------
(***************************************************************************)
(* The process life cycle of the xv6 kernel (project-2/src/proc.c, with    *)
(* trap.c, sys_sleep of sysproc.c and the sleep/wakeup side of console.c). *)
(*                                                                         *)
(* Everything the kernel does between acquire(&ptable.lock) and the        *)
(* matching release, including a hand-over of the lock to the scheduler    *)
(* through sched()/swtch, is one action.  What happens outside that lock   *)
(* is split where another CPU or an interrupt can get in between: the      *)
(* steps of fork(), and the gap between testing a condition under its own  *)
(* lock and sleep()'s acquire(&ptable.lock).                               *)
(***************************************************************************)
EXTENDS Integers, FiniteSets

CONSTANTS
  NPROC,     \* slots of ptable.proc
  NCPU,      \* CPUs that run scheduler()
  MaxPid,    \* bound: fork() is not called once nextpid exceeds it
  Pages,     \* free memory, in units of one kernel stack or one address space
  KillPids,  \* the arguments user programs pass to kill()
  MaxSleep   \* bound on the argument of sleep()

ASSUME NPROCAssumption == NPROC \in Nat \ {0}
ASSUME NCPUAssumption == NCPU \in Nat \ {0}
ASSUME BoundsAssumption == MaxPid \in Nat \ {0} /\ Pages \in Nat /\ MaxSleep \in Nat
ASSUME KillPidsAssumption == KillPids \subseteq Int

Slots == 1..NPROC
Cpus == 0..(NCPU - 1)
None == 0
InitProc == 1              \* the slot initproc points to

\* Sleep channels are kernel addresses: a process's own slot (wait()), &ticks
\* and &input.r.  The last two are conditions guarded by a lock of their own.
Ticks == NPROC + 1
Input == NPROC + 2
Conditions == {Ticks, Input}

States == {"UNUSED", "EMBRYO", "SLEEPING", "RUNNABLE", "RUNNING", "ZOMBIE"}

\* Where a process stands: in user code, on the way back to it, at a step of
\* fork(), before the critical section of exit() or wait(), before the test of
\* a condition, or past a failed test with the condition's lock held.
Places == {"user", "trapret", "fork_kstack", "fork_copy", "fork_ready",
           "exit", "wait", "check", "block", "panic"}

VARIABLES
  state, pid, parent, chan, killed,   \* struct proc, per slot
  kstack, space,                      \* the slot owns a kernel stack, a pgdir
  free,                               \* pages on kmem.freelist
  nextpid,
  cpu,                                \* c->proc
  pc, child,                          \* where a process is; np of its fork()
  on, left,                           \* condition tested; ticks sys_sleep still waits for
  avail                               \* input.r # input.w

table  == <<state, pid, parent, chan, killed>>
memory == <<kstack, space, free>>
waits  == <<on, left, avail>>
vars == <<state, pid, parent, chan, killed, kstack, space, free, nextpid,
          cpu, pc, child, on, left, avail>>

Init ==
  /\ state = [s \in Slots |-> IF s = InitProc THEN "RUNNABLE" ELSE "UNUSED"]
  /\ pid = [s \in Slots |-> IF s = InitProc THEN 1 ELSE 0]
  /\ parent = [s \in Slots |-> None]
  /\ chan = [s \in Slots |-> None]
  /\ killed = [s \in Slots |-> FALSE]
  /\ kstack = [s \in Slots |-> s = InitProc]
  /\ space = [s \in Slots |-> s = InitProc]
  /\ free = Pages
  /\ nextpid = 2
  /\ cpu = [c \in Cpus |-> None]
  /\ pc = [s \in Slots |-> "user"]
  /\ child = [s \in Slots |-> None]
  /\ on = [s \in Slots |-> None]
  /\ left = [s \in Slots |-> 0]
  /\ avail = FALSE

-----------------------------------------------------------------------------
Executing(s) == \E c \in Cpus : cpu[c] = s
At(s, place) == Executing(s) /\ pc[s] = place
GoTo(s, place) == pc' = [pc EXCEPT ![s] = place]

\* A system call: trap() first sends a killed process to exit().
UserCall(s) == At(s, "user") /\ ~killed[s]

\* The lock of a condition is held from a failed test until sleep() has
\* ptable.lock; interrupts are off on that CPU meanwhile, and on one that spins
\* for the lock (pushcli in acquire()).
LockFree_NoLock(ch) == TRUE
LockFree(ch) == \A s \in Slots : ~(pc[s] = "block" /\ on[s] = ch)
Spins(s) == pc[s] = "check" /\ ~LockFree(on[s])
IntrOn(c) ==
  \A s \in Slots : cpu[c] = s => pc[s] \notin {"block", "panic"} /\ ~Spins(s)

\* wakeup1(ch)
Woken(st, ch) ==
  [s \in Slots |-> IF st[s] = "SLEEPING" /\ chan[s] = ch THEN "RUNNABLE" ELSE st[s]]

\* sched(): the process leaves its CPU to the scheduler.
LeaveCpu(s) == cpu' = [c \in Cpus |-> IF cpu[c] = s THEN None ELSE cpu[c]]

\* The first slot of a set the scans of ptable.proc would stop at.
First(S) == CHOOSE s \in S : \A t \in S : s <= t

-----------------------------------------------------------------------------
(* scheduler() *)

Dispatch(c, s) ==
  /\ cpu[c] = None
  /\ state[s] = "RUNNABLE"
  /\ cpu' = [cpu EXCEPT ![c] = s]
  /\ state' = [state EXCEPT ![s] = "RUNNING"]
  /\ chan' = [chan EXCEPT ![s] = None]           \* "Tidy up" in sleep()
  /\ UNCHANGED <<pid, parent, killed, memory, nextpid, pc, child, waits>>

-----------------------------------------------------------------------------
(* fork() and allocproc() *)

Unused == {s \in Slots : state[s] = "UNUSED"}

ForkAlloc(s) ==
  /\ UserCall(s)
  /\ nextpid <= MaxPid
  /\ Unused # {}
  /\ LET np == First(Unused) IN
       /\ state' = [state EXCEPT ![np] = "EMBRYO"]
       /\ pid' = [pid EXCEPT ![np] = nextpid]
       /\ child' = [child EXCEPT ![s] = np]
  /\ nextpid' = nextpid + 1
  /\ GoTo(s, "fork_kstack")
  /\ UNCHANGED <<parent, chan, killed, memory, cpu, waits>>

ForkNoSlot(s) ==
  /\ UserCall(s)
  /\ Unused = {}
  /\ GoTo(s, "trapret")
  /\ UNCHANGED <<table, memory, nextpid, cpu, child, waits>>

\* kalloc() of the kernel stack.
ForkKstack(s) ==
  /\ At(s, "fork_kstack")
  /\ free > 0
  /\ kstack' = [kstack EXCEPT ![child[s]] = TRUE]
  /\ free' = free - 1
  /\ GoTo(s, "fork_copy")
  /\ UNCHANGED <<table, space, nextpid, cpu, child, waits>>

\* No kernel stack: the slot is given back without ptable.lock, its pid kept.
ForkNoKstack(s) ==
  /\ At(s, "fork_kstack")
  /\ free = 0
  /\ state' = [state EXCEPT ![child[s]] = "UNUSED"]
  /\ child' = [child EXCEPT ![s] = None]
  /\ GoTo(s, "trapret")
  /\ UNCHANGED <<pid, parent, chan, killed, memory, nextpid, cpu, waits>>

\* copyuvm(), then np->parent and the rest of the copy, without ptable.lock.
ForkCopy(s) ==
  /\ At(s, "fork_copy")
  /\ free > 0
  /\ space' = [space EXCEPT ![child[s]] = TRUE]
  /\ free' = free - 1
  /\ parent' = [parent EXCEPT ![child[s]] = s]
  /\ GoTo(s, "fork_ready")
  /\ UNCHANGED <<state, pid, chan, killed, kstack, nextpid, cpu, child, waits>>

ForkNoSpace_Leak(s) ==
  /\ At(s, "fork_copy")
  /\ free = 0
  /\ kstack' = [kstack EXCEPT ![child[s]] = FALSE]
  /\ state' = [state EXCEPT ![child[s]] = "UNUSED"]
  /\ child' = [child EXCEPT ![s] = None]
  /\ GoTo(s, "trapret")
  /\ UNCHANGED <<pid, parent, chan, killed, space, free, nextpid, cpu, waits>>
ForkNoSpace(s) ==
  /\ At(s, "fork_copy")
  /\ free = 0
  /\ kstack' = [kstack EXCEPT ![child[s]] = FALSE]
  /\ free' = free + 1
  /\ state' = [state EXCEPT ![child[s]] = "UNUSED"]
  /\ child' = [child EXCEPT ![s] = None]
  /\ GoTo(s, "trapret")
  /\ UNCHANGED <<pid, parent, chan, killed, space, nextpid, cpu, waits>>

\* The child will start in forkret(), which returns straight to user code.
ForkReady(s) ==
  /\ At(s, "fork_ready")
  /\ state' = [state EXCEPT ![child[s]] = "RUNNABLE"]
  /\ pc' = [pc EXCEPT ![s] = "trapret", ![child[s]] = "user"]
  /\ child' = [child EXCEPT ![s] = None]
  /\ UNCHANGED <<pid, parent, chan, killed, memory, nextpid, cpu, waits>>

-----------------------------------------------------------------------------
(* exit() and wait() *)

\* Calling exit(), or a fault in user code.
ExitCall(s) ==
  /\ UserCall(s)
  /\ GoTo(s, "exit")
  /\ UNCHANGED <<table, memory, nextpid, cpu, child, waits>>

Fault(s) ==
  /\ At(s, "user")
  /\ killed' = [killed EXCEPT ![s] = TRUE]
  /\ GoTo(s, "exit")
  /\ UNCHANGED <<state, pid, parent, chan, memory, nextpid, cpu, child, waits>>

ExitPanic(s) ==
  /\ At(s, "exit")
  /\ s = InitProc
  /\ GoTo(s, "panic")
  /\ UNCHANGED <<table, memory, nextpid, cpu, child, waits>>

Abandoned_None(s) == {}
Abandoned_LiveOnly(s) == {p \in Slots : parent[p] = s /\ state[p] # "ZOMBIE"}
Abandoned(s) == {p \in Slots : parent[p] = s}
ZombieAbandoned(s) == \E p \in Abandoned(s) : state[p] = "ZOMBIE"

AfterExit_WakesItself(s) == Woken(state, s)
\* wakeup1(curproc->parent), and wakeup1(initproc) for a zombie handed over.
AfterExit(s) ==
  LET told == Woken(state, parent[s]) IN
    IF ZombieAbandoned(s) THEN Woken(told, InitProc) ELSE told

\* Wake the parent, pass the children to init, wake init if one is a zombie.
Exit(s) ==
  /\ At(s, "exit")
  /\ s # InitProc
  /\ state' = [AfterExit(s) EXCEPT ![s] = "ZOMBIE"]
  /\ parent' = [p \in Slots |-> IF p \in Abandoned(s) THEN InitProc ELSE parent[p]]
  /\ LeaveCpu(s)
  /\ UNCHANGED <<pid, chan, killed, memory, nextpid, pc, child, waits>>

WaitCall(s) ==
  /\ UserCall(s)
  /\ GoTo(s, "wait")
  /\ UNCHANGED <<table, memory, nextpid, cpu, child, waits>>

Children(s) == {p \in Slots : parent[p] = s}
ZombieChildren(s) == {p \in Children(s) : state[p] = "ZOMBIE"}

WaitReap(s) ==
  /\ At(s, "wait")
  /\ ZombieChildren(s) # {}
  /\ LET z == First(ZombieChildren(s)) IN
       /\ kstack' = [kstack EXCEPT ![z] = FALSE]
       /\ space' = [space EXCEPT ![z] = FALSE]
       /\ free' = free + 2
       /\ pid' = [pid EXCEPT ![z] = 0]
       /\ parent' = [parent EXCEPT ![z] = None]
       /\ killed' = [killed EXCEPT ![z] = FALSE]
       /\ state' = [state EXCEPT ![z] = "UNUSED"]
  /\ GoTo(s, "trapret")
  /\ UNCHANGED <<chan, nextpid, cpu, child, waits>>

WaitFail(s) ==
  /\ At(s, "wait")
  /\ ZombieChildren(s) = {}
  /\ Children(s) = {} \/ killed[s]
  /\ GoTo(s, "trapret")
  /\ UNCHANGED <<table, memory, nextpid, cpu, child, waits>>

\* sleep(curproc, &ptable.lock): test and sleep are one critical section.
WaitSleep(s) ==
  /\ At(s, "wait")
  /\ ZombieChildren(s) = {}
  /\ Children(s) # {} /\ ~killed[s]
  /\ state' = [state EXCEPT ![s] = "SLEEPING"]
  /\ chan' = [chan EXCEPT ![s] = s]
  /\ LeaveCpu(s)
  /\ UNCHANGED <<pid, parent, killed, memory, nextpid, pc, child, waits>>

-----------------------------------------------------------------------------
(* kill() *)

\* The scan compares p->pid only, whatever the state of the slot.
KillTargets(p) == {t \in Slots : pid[t] = p}

Kill_AnyState(s, p) ==
  /\ UserCall(s)
  /\ KillTargets(p) # {}
  /\ LET t == First(KillTargets(p)) IN
       /\ killed' = [killed EXCEPT ![t] = TRUE]
       /\ state' = [state EXCEPT ![t] = "RUNNABLE"]
  /\ GoTo(s, "trapret")
  /\ UNCHANGED <<pid, parent, chan, memory, nextpid, cpu, child, waits>>
Kill(s, p) ==
  /\ UserCall(s)
  /\ KillTargets(p) # {}
  /\ LET t == First(KillTargets(p)) IN
       /\ killed' = [killed EXCEPT ![t] = TRUE]
       /\ state' = [state EXCEPT ![t] = IF @ = "SLEEPING" THEN "RUNNABLE" ELSE @]
  /\ GoTo(s, "trapret")
  /\ UNCHANGED <<pid, parent, chan, memory, nextpid, cpu, child, waits>>

\* getpid(), like every call that only looks at its caller.
GetPid(s) ==
  /\ UserCall(s)
  /\ GoTo(s, "trapret")
  /\ UNCHANGED <<table, memory, nextpid, cpu, child, waits>>

-----------------------------------------------------------------------------
(* sys_sleep() and consoleread(): a condition tested under its own lock, and *)
(* sleep(chan, lk) when it does not hold.                                    *)

Return(s) ==
  /\ GoTo(s, "trapret")
  /\ on' = [on EXCEPT ![s] = None]
  /\ left' = [left EXCEPT ![s] = 0]

\* ticks0 is read and the first test made in one hold of tickslock.
SysSleep(s, n) ==
  /\ UserCall(s)
  /\ LockFree(Ticks)
  /\ on' = [on EXCEPT ![s] = Ticks]
  /\ left' = [left EXCEPT ![s] = n]
  /\ GoTo(s, "block")
  /\ UNCHANGED <<table, memory, nextpid, cpu, child, avail>>

ReadCall(s) ==
  /\ UserCall(s)
  /\ on' = [on EXCEPT ![s] = Input]
  /\ GoTo(s, "check")
  /\ UNCHANGED <<table, memory, nextpid, cpu, child, left, avail>>

Ready(s) == IF on[s] = Ticks THEN left[s] = 0 ELSE avail

\* A reader may leave input for the next one.
CheckDone(s) ==
  /\ At(s, "check")
  /\ LockFree(on[s])
  /\ Ready(s)
  /\ IF on[s] = Input THEN avail' \in BOOLEAN ELSE avail' = avail
  /\ Return(s)
  /\ UNCHANGED <<table, memory, nextpid, cpu, child>>

CheckKilled(s) ==
  /\ At(s, "check")
  /\ LockFree(on[s])
  /\ ~Ready(s) /\ killed[s]
  /\ Return(s)
  /\ UNCHANGED <<table, memory, nextpid, cpu, child, avail>>

CheckFail_KilledToo(s) ==
  /\ At(s, "check")
  /\ LockFree(on[s])
  /\ ~Ready(s)
  /\ GoTo(s, "block")
  /\ UNCHANGED <<table, memory, nextpid, cpu, child, waits>>
CheckFail(s) ==
  /\ At(s, "check")
  /\ LockFree(on[s])
  /\ ~Ready(s) /\ ~killed[s]
  /\ GoTo(s, "block")
  /\ UNCHANGED <<table, memory, nextpid, cpu, child, waits>>

\* sleep(chan, lk): ptable.lock is taken, then lk released.
Block(s) ==
  /\ At(s, "block")
  /\ state' = [state EXCEPT ![s] = "SLEEPING"]
  /\ chan' = [chan EXCEPT ![s] = on[s]]
  /\ LeaveCpu(s)
  /\ GoTo(s, "check")
  /\ UNCHANGED <<pid, parent, killed, memory, nextpid, child, waits>>

-----------------------------------------------------------------------------
(* trap(): the way back to user code, and interrupts *)

TrapReturn(s) ==
  /\ At(s, "trapret")
  /\ GoTo(s, IF killed[s] THEN "exit" ELSE "user")
  /\ UNCHANGED <<table, memory, nextpid, cpu, child, waits>>

\* Any trap out of user code finds that the process has been killed.
NoticeKilled(s) ==
  /\ At(s, "user")
  /\ killed[s]
  /\ GoTo(s, "exit")
  /\ UNCHANGED <<table, memory, nextpid, cpu, child, waits>>

\* CPU 0 counts the tick and wakes every process sleeping in sys_sleep().
CountTick_Wrap(c) ==
  /\ c = 0 => LockFree(Ticks)
  /\ left' = IF c = 0 THEN [s \in Slots |-> left[s] - 1] ELSE left
CountTick(c) ==
  /\ c = 0 => LockFree(Ticks)
  /\ left' = IF c = 0 THEN [s \in Slots |-> IF left[s] > 0 THEN left[s] - 1 ELSE 0]
             ELSE left
AfterTick(c) == IF c = 0 THEN Woken(state, Ticks) ELSE state

TimerIdle(c) ==
  /\ cpu[c] = None
  /\ CountTick(c)
  /\ state' = AfterTick(c)
  /\ UNCHANGED <<pid, parent, chan, killed, memory, nextpid, cpu, pc, child, on, avail>>

TimerYield(c) ==
  /\ cpu[c] # None
  /\ IntrOn(c)
  /\ CountTick(c)
  /\ LET s == cpu[c] IN
       /\ ~(pc[s] = "user" /\ killed[s])          \* see NoticeKilled
       /\ state' = [AfterTick(c) EXCEPT ![s] = "RUNNABLE"]
       /\ GoTo(s, IF pc[s] = "user" THEN "trapret" ELSE pc[s])
  /\ cpu' = [cpu EXCEPT ![c] = None]
  /\ UNCHANGED <<pid, parent, chan, killed, memory, nextpid, child, on, avail>>

TimerInterrupt(c) == TimerIdle(c) \/ TimerYield(c)

\* consoleintr(), on CPU 0: a line of input is complete.
ConsoleIntr ==
  /\ IntrOn(0)
  /\ LockFree(Input)
  /\ avail' = TRUE
  /\ state' = Woken(state, Input)
  /\ UNCHANGED <<pid, parent, chan, killed, memory, nextpid, cpu, pc, child, on, left>>

-----------------------------------------------------------------------------
Fork(s) ==
  \/ ForkAlloc(s) \/ ForkNoSlot(s) \/ ForkKstack(s) \/ ForkNoKstack(s)
  \/ ForkCopy(s) \/ ForkNoSpace(s) \/ ForkReady(s)

\* The steps a process takes inside the kernel once it has entered it.
Kernel(s) ==
  \/ ForkKstack(s) \/ ForkNoKstack(s) \/ ForkCopy(s) \/ ForkNoSpace(s) \/ ForkReady(s)
  \/ Exit(s) \/ ExitPanic(s)
  \/ WaitReap(s) \/ WaitFail(s) \/ WaitSleep(s)
  \/ CheckDone(s) \/ CheckKilled(s) \/ CheckFail(s) \/ Block(s)
  \/ TrapReturn(s) \/ NoticeKilled(s)

\* What programs ask of the kernel; init.c only forks and waits.
User(s) ==
  \/ ForkAlloc(s) \/ ForkNoSlot(s) \/ WaitCall(s)
  \/ /\ s # InitProc
     /\ \/ ExitCall(s) \/ Fault(s) \/ ReadCall(s) \/ GetPid(s)
        \/ \E p \in KillPids : Kill(s, p)
        \/ \E n \in 1..MaxSleep : SysSleep(s, n)

Next ==
  \/ \E c \in Cpus, s \in Slots : Dispatch(c, s)
  \/ \E s \in Slots : Kernel(s) \/ User(s)
  \/ \E c \in Cpus : TimerInterrupt(c)
  \/ ConsoleIntr

Spec == Init /\ [][Next]_vars

\* A runnable process is dispatched (the scan visits every slot), a process
\* inside the kernel makes progress whenever it has a CPU, the local APIC of CPU 0
\* (the others are not needed) keeps a timer interrupt pending until it is taken,
\* and init loops in wait().
Fairness ==
  /\ \A s \in Slots : /\ SF_vars(\E c \in Cpus : Dispatch(c, s))
                      /\ SF_vars(Kernel(s))
  /\ SF_vars(TimerInterrupt(0))
  /\ SF_vars(WaitCall(InitProc))

FairSpec == Spec /\ Fairness
-----------------------------------------------------------------------------
TypeOK ==
  /\ state \in [Slots -> States]
  /\ pid \in [Slots -> 0..MaxPid]
  /\ parent \in [Slots -> Slots \cup {None}]
  /\ chan \in [Slots -> Slots \cup Conditions \cup {None}]
  /\ killed \in [Slots -> BOOLEAN]
  /\ kstack \in [Slots -> BOOLEAN]
  /\ space \in [Slots -> BOOLEAN]
  /\ free \in Nat
  /\ nextpid \in Nat
  /\ cpu \in [Cpus -> Slots \cup {None}]
  /\ pc \in [Slots -> Places]
  /\ child \in [Slots -> Slots \cup {None}]
  /\ on \in [Slots -> Conditions \cup {None}]
  /\ left \in [Slots -> 0..MaxSleep]
  /\ avail \in BOOLEAN

-----------------------------------------------------------------------------
\* A process executes on one CPU at a time, and exactly the RUNNING ones do:
\* no hand-over between yield/sleep/exit, kill() and scheduler() leaves a slot
\* RUNNING without a CPU or two CPUs on one kernel stack.
OnOneCpu ==
  /\ \A c \in Cpus : cpu[c] # None => state[cpu[c]] = "RUNNING"
  /\ \A c, d \in Cpus : cpu[c] = cpu[d] /\ cpu[c] # None => c = d
  /\ \A s \in Slots : state[s] = "RUNNING" => Executing(s)

\* The failure paths of fork() and the reaping in wait() neither leak a page
\* nor free one twice, and no process that can still run, or whose stack
\* wait() has yet to free, has lost its stack or its address space.
MemoryConserved ==
  /\ free + Cardinality({s \in Slots : kstack[s]})
          + Cardinality({s \in Slots : space[s]}) = Pages + 2
  /\ \A s \in Slots : state[s] \in States \ {"UNUSED", "EMBRYO"} => kstack[s] /\ space[s]

\* The parent of every process is there to wait for it: exit() hands its
\* children to init in the step in which it dies, so that no zombie is left
\* to a dead parent.
ParentAlive ==
  \A s \in Slots \ {InitProc} :
    state[s] \notin {"UNUSED", "EMBRYO"} =>
      /\ parent[s] \in Slots
      /\ state[parent[s]] \in {"SLEEPING", "RUNNABLE", "RUNNING"}

\* A parent asleep in wait() has something to wait for: no child is a zombie
\* already (exit's wakeup1 was not missed, also for children inherited by
\* init), it still has a child, and it has not been killed.
NoMissedExit ==
  \A s \in Slots : state[s] = "SLEEPING" /\ chan[s] = s =>
    ZombieChildren(s) = {} /\ Children(s) # {} /\ ~killed[s]

\* sleep() releases the condition's lock only under ptable.lock, so that the
\* wakeup of a tick or of console input cannot fall between test and sleep.
NoLostWakeup ==
  \A s \in Slots : state[s] = "SLEEPING" /\ chan[s] \in Conditions => ~Ready(s)

\* kill() came between consoleread()'s test of killed and its sleep
\* (console.c:246-251) and found nobody asleep: only a line of input helps.
Missed(s) == on[s] = Input /\ (pc[s] = "block" \/ state[s] = "SLEEPING")
Dead(s) == state[s] \in {"ZOMBIE", "UNUSED"}

\* What a process does in the kernel comes to an end, with any number of CPUs.
\* A killed process dies (proc.c:476-478), wherever kill() met it, unless kill()
\* was missed by consoleread(), and then as soon as a line wakes it; sys_sleep()
\* comes back through any interleaving of ticks and kills.
CallsEnd ==
  \A s \in Slots \ {InitProc} :
    (killed[s] /\ ~Dead(s) /\ ~Missed(s)) \/ on[s] = Ticks
      ~> Dead(s) \/ (~killed[s] /\ on[s] # Ticks)

Tree == INSTANCE ProcessTree WITH
  Process <- Slots, Root <- InitProc, Nobody <- None,
  alive <- {s \in Slots : state[s] \in {"SLEEPING", "RUNNABLE", "RUNNING"}},
  zombie <- {s \in Slots : state[s] = "ZOMBIE"},
  par <- [s \in Slots |-> IF state[s] \in {"UNUSED", "EMBRYO"} THEN None ELSE parent[s]]

\* fork, exit and wait implement the tree of module ProcessTree.
ImplementsTree == Tree!Spec

\* An orphan is collected by init.
OrphansReaped == Tree!OrphansReaped
=============================================================================
