----------------------------- MODULE ProcProofs -----------------------------
(***************************************************************************)
(* Theorems about Proc: types, one CPU for each RUNNING process, a parent  *)
(* for each, no exit() or wakeup() missed, no page of memory lost, and the *)
(* tree of processes implemented; for any number of slots and CPUs.        *)
(*                                                                         *)
(* Then about Lottery: project 4's kernel is project 2's without mypstat,  *)
(* so that these theorems hold of it; the divisor of the draw is zero only *)
(* on overflow; who can be drawn, for any numbers of tickets and values of *)
(* rand(); a child inherits its parent's tickets.                          *)
(***************************************************************************)
EXTENDS Lottery, SumProofs, FiniteSetTheorems, WellFoundedInduction, TLAPS

\* First() returns an element of a non-empty set of slots, and the least one:
\* among the sets of the elements up to one of them, a smallest exists.
LEMMA FirstIsMin ==
  ASSUME NEW S, S \subseteq Slots, S # {}
  PROVE  First(S) \in S /\ \A t \in S : First(S) <= t
<1> DEFINE UpTo(s) == {t \in S : t <= s}
           Ups == {UpTo(s) : s \in S}
<1>1. S \subseteq Nat
  BY NPROCAssumption DEF Slots
<1>2. IsFiniteSet(S)
  <2>1. 1 \in Int /\ NPROC \in Int
    BY NPROCAssumption
  <2>2. IsFiniteSet(Slots)
    BY <2>1, FS_Interval DEF Slots
  <2>. QED BY <2>2, FS_Subset
<1>3. Ups \subseteq FiniteSubsetsOf(S) /\ Ups # {}
  <2>1. Ups \subseteq SUBSET S
    OBVIOUS
  <2>2. Ups # {}
    OBVIOUS
  <2>. QED BY <1>2, <2>1, <2>2, FS_FiniteSubsetsOfFinite
<1>4. PICK u \in Ups : \A v \in Ups : ~(<<v, u>> \in StrictSubsetOrdering(S))
  <2> HIDE DEF Ups
  <2>. QED BY <1>3, FS_StrictSubsetOrderingWellFounded, WFMin
<1>5. PICK s \in S : u = UpTo(s)
  OBVIOUS
<1>6. ASSUME NEW t \in S, ~(s <= t) PROVE FALSE
  <2>1. t \in Nat /\ s \in Nat /\ t < s
    BY <1>1, <1>6
  <2>2. UpTo(t) \subseteq UpTo(s)
    <3>1. SUFFICES ASSUME NEW r \in S, r <= t PROVE r <= s
      OBVIOUS
    <3>2. r \in Nat
      BY <1>1
    <3>. QED BY <2>1, <3>1, <3>2
  <2>3. s \in UpTo(s) /\ s \notin UpTo(t)
    BY <1>1, <2>1
  <2>4. UpTo(t) \in Ups
    OBVIOUS
  <2>5. UpTo(t) \in SUBSET S /\ UpTo(s) \in SUBSET S
    OBVIOUS
  <2>6. <<UpTo(t), UpTo(s)>> \in StrictSubsetOrdering(S)
    <3> HIDE DEF UpTo
    <3>. QED BY <2>2, <2>3, <2>5 DEF StrictSubsetOrdering
  <2>. QED BY <2>4, <2>6, <1>4, <1>5
<1>. QED
  BY <1>6 DEF First
-----------------------------------------------------------------------------
\* Every step of the specification is a step of one of these actions.
LEMMA NextCases ==
  ASSUME Next
  PROVE  \/ \E c \in Cpus, s \in Slots : Dispatch(c, s)
         \/ \E s \in Slots : Fork(s)
         \/ \E s \in Slots : ExitCall(s) \/ Fault(s) \/ Exit(s) \/ ExitPanic(s)
         \/ \E s \in Slots : WaitCall(s) \/ WaitReap(s) \/ WaitFail(s) \/ WaitSleep(s)
         \/ \E s \in Slots, p \in KillPids : Kill(s, p)
         \/ \E s \in Slots, n \in 1..MaxSleep : SysSleep(s, n)
         \/ \E s \in Slots : ReadCall(s) \/ CheckDone(s) \/ CheckKilled(s) \/ CheckFail(s) \/ Block(s)
         \/ \E s \in Slots : TrapReturn(s) \/ NoticeKilled(s) \/ GetPid(s)
         \/ \E c \in Cpus : TimerIdle(c) \/ TimerYield(c)
         \/ ConsoleIntr
BY DEF Next, Kernel, User, Fork, TimerInterrupt

\* The variables have the types of the declarations in proc.h and proc.c: in
\* particular fork() always works on a slot of the table.
THEOREM TypeCorrect == Spec => []TypeOK
<1>1. Init => TypeOK
  <2> SUFFICES ASSUME Init PROVE TypeOK
    OBVIOUS
  <2>1. kstack \in [Slots -> BOOLEAN] /\ space \in [Slots -> BOOLEAN] /\ killed \in [Slots -> BOOLEAN]
    BY Zenon DEF Init
  <2>2. pid \in [Slots -> 0..MaxPid] /\ left \in [Slots -> 0..MaxSleep] /\ free \in Nat /\ nextpid \in Nat
    BY BoundsAssumption DEF Init
  <2>3. state \in [Slots -> States] /\ pc \in [Slots -> Places]
    BY DEF Init, States, Places
  <2>. QED BY <2>1, <2>2, <2>3 DEF Init, TypeOK
<1>2. TypeOK /\ [Next]_vars => TypeOK'
  <2> SUFFICES ASSUME TypeOK, [Next]_vars PROVE TypeOK'
    OBVIOUS
  <2> USE DEF TypeOK, States, Places, GoTo, table, memory, waits
  <2>1. ASSUME NEW s \in Slots, ForkAlloc(s) PROVE TypeOK'
    <3>1. Unused \subseteq Slots /\ Unused # {}
      BY <2>1 DEF ForkAlloc, Unused
    <3>2. First(Unused) \in Slots
      BY <3>1, FirstIsMin
    <3>3. nextpid \in 0..MaxPid
      BY <2>1, BoundsAssumption DEF ForkAlloc
    <3>. QED BY <2>1, <3>2, <3>3 DEF ForkAlloc
  <2>2. ASSUME NEW s \in Slots, ForkNoSlot(s) PROVE TypeOK'
    BY <2>2, BoundsAssumption DEF ForkNoSlot
  <2>3. ASSUME NEW s \in Slots, ForkKstack(s) PROVE TypeOK'
    <3>1. kstack' \in [Slots -> BOOLEAN]
      BY <2>3, Zenon DEF ForkKstack
    <3>2. free' \in Nat
      BY <2>3 DEF ForkKstack
    <3>. QED BY <2>3, <3>1, <3>2 DEF ForkKstack
  <2>4. ASSUME NEW s \in Slots, ForkNoKstack(s) PROVE TypeOK'
    BY <2>4, BoundsAssumption DEF ForkNoKstack
  <2>5. ASSUME NEW s \in Slots, ForkCopy(s) PROVE TypeOK'
    <3>1. space' \in [Slots -> BOOLEAN]
      BY <2>5, Zenon DEF ForkCopy
    <3>2. free' \in Nat
      BY <2>5 DEF ForkCopy
    <3>. QED BY <2>5, <3>1, <3>2 DEF ForkCopy
  <2>6. ASSUME NEW s \in Slots, ForkNoSpace(s) PROVE TypeOK'
    <3>1. kstack' \in [Slots -> BOOLEAN]
      BY <2>6, Zenon DEF ForkNoSpace
    <3>2. free' \in Nat
      BY <2>6 DEF ForkNoSpace
    <3>. QED BY <2>6, <3>1, <3>2 DEF ForkNoSpace
  <2>7. ASSUME NEW s \in Slots, ForkReady(s) PROVE TypeOK'
    BY <2>7, BoundsAssumption DEF ForkReady
  <2>8. ASSUME NEW s \in Slots, Exit(s) PROVE TypeOK'
    BY <2>8, NPROCAssumption DEF Exit, AfterExit, Woken, LeaveCpu, InitProc, Slots
  <2>9. ASSUME NEW s \in Slots, ExitPanic(s) PROVE TypeOK'
    BY <2>9, BoundsAssumption DEF ExitPanic
  <2>10. ASSUME NEW s \in Slots, WaitReap(s) PROVE TypeOK'
    <3>1. kstack' \in [Slots -> BOOLEAN] /\ space' \in [Slots -> BOOLEAN] /\ killed' \in [Slots -> BOOLEAN]
      BY <2>10, Zenon DEF WaitReap
    <3>2. free' \in Nat
      BY <2>10 DEF WaitReap
    <3>3. pid' \in [Slots -> 0..MaxPid]
      <4>1. 0 \in 0..MaxPid
        BY BoundsAssumption
      <4>. QED BY <2>10, <4>1, Zenon DEF WaitReap
    <3>. QED BY <2>10, <3>1, <3>2, <3>3 DEF WaitReap
  <2>11. ASSUME NEW s \in Slots, WaitFail(s) PROVE TypeOK'
    BY <2>11, BoundsAssumption DEF WaitFail
  <2>12. ASSUME NEW s \in Slots, WaitSleep(s) PROVE TypeOK'
    BY <2>12, BoundsAssumption DEF WaitSleep, LeaveCpu
  <2>13. ASSUME NEW s \in Slots, CheckDone(s) PROVE TypeOK'
    BY <2>13, BoundsAssumption DEF CheckDone, Return, Conditions
  <2>14. ASSUME NEW s \in Slots, CheckKilled(s) PROVE TypeOK'
    BY <2>14, BoundsAssumption DEF CheckKilled, Return
  <2>15. ASSUME NEW s \in Slots, CheckFail(s) PROVE TypeOK'
    BY <2>15, BoundsAssumption DEF CheckFail
  <2>16. ASSUME NEW s \in Slots, Block(s) PROVE TypeOK'
    BY <2>16, BoundsAssumption DEF Block, LeaveCpu
  <2>17. ASSUME NEW s \in Slots, TrapReturn(s) PROVE TypeOK'
    BY <2>17, BoundsAssumption DEF TrapReturn
  <2>18. ASSUME NEW s \in Slots, NoticeKilled(s) PROVE TypeOK'
    BY <2>18, BoundsAssumption DEF NoticeKilled
  <2>19. ASSUME NEW s \in Slots, ExitCall(s) PROVE TypeOK'
    BY <2>19, BoundsAssumption DEF ExitCall
  <2>20. ASSUME NEW s \in Slots, Fault(s) PROVE TypeOK'
    BY <2>20, BoundsAssumption DEF Fault
  <2>21. ASSUME NEW s \in Slots, WaitCall(s) PROVE TypeOK'
    BY <2>21, BoundsAssumption DEF WaitCall
  <2>22. ASSUME NEW s \in Slots, ReadCall(s) PROVE TypeOK'
    BY <2>22, BoundsAssumption DEF ReadCall, Conditions
  <2>23. ASSUME NEW c \in Cpus, NEW s \in Slots, Dispatch(c, s) PROVE TypeOK'
    BY <2>23 DEF Dispatch
  <2>24. ASSUME NEW s \in Slots, NEW p \in KillPids, Kill(s, p) PROVE TypeOK'
    BY <2>24 DEF Kill
  <2>25. ASSUME NEW s \in Slots, NEW n \in 1..MaxSleep, SysSleep(s, n) PROVE TypeOK'
    BY <2>25, BoundsAssumption DEF SysSleep, Conditions
  <2>26. ASSUME NEW c \in Cpus, TimerIdle(c) PROVE TypeOK'
    BY <2>26, BoundsAssumption DEF TimerIdle, CountTick, AfterTick, Woken
  <2>27. ASSUME NEW c \in Cpus, TimerYield(c) PROVE TypeOK'
    BY <2>27, BoundsAssumption DEF TimerYield, CountTick, AfterTick, Woken
  <2>28. ASSUME ConsoleIntr PROVE TypeOK'
    BY <2>28 DEF ConsoleIntr, Woken
  <2>29. ASSUME UNCHANGED vars PROVE TypeOK'
    BY <2>29 DEF vars
  <2>30. ASSUME NEW s \in Slots, GetPid(s) PROVE TypeOK'
    BY <2>30, BoundsAssumption DEF GetPid
  <2> QED
    BY NextCases, <2>30, <2>1, <2>2, <2>3, <2>4, <2>5, <2>6, <2>7, <2>8, <2>9, <2>10, <2>11, <2>12, <2>13, <2>14, <2>15, <2>16, <2>17, <2>18, <2>19, <2>20, <2>21, <2>22, <2>23, <2>24, <2>25, <2>26, <2>27, <2>28, <2>29 DEF Fork
<1>. QED
  BY <1>1, <1>2, PTL DEF Spec
-----------------------------------------------------------------------------
Live == {"SLEEPING", "RUNNABLE", "RUNNING"}
Forking == {"fork_kstack", "fork_copy", "fork_ready"}

\* The steps of a process that has a CPU and keeps it, which only move it to
\* another place: no slot changes state or parent.
Quiet(s) ==
  /\ Executing(s)
  /\ UNCHANGED <<state, parent, chan, cpu, child>>
  /\ \E place \in Places : /\ GoTo(s, place)
                           /\ place \in Forking =>
                                place = "fork_copy" /\ pc[s] = "fork_kstack"
  /\ \A t \in Slots : killed'[t] => killed[t] \/ t = s

LEMMA QuietSteps ==
  ASSUME TypeOK, NEW s \in Slots,
         \/ ForkNoSlot(s) \/ ForkKstack(s) \/ ExitCall(s) \/ Fault(s) \/ ExitPanic(s)
         \/ WaitCall(s) \/ WaitFail(s) \/ ReadCall(s) \/ CheckDone(s) \/ CheckKilled(s)
         \/ CheckFail(s) \/ TrapReturn(s) \/ NoticeKilled(s) \/ GetPid(s)
         \/ \E n \in 1..MaxSleep : SysSleep(s, n)
  PROVE  Quiet(s)
<1> USE DEF Quiet, GoTo, At, UserCall, Places, Forking, table, waits, TypeOK
<1>1. CASE ForkNoSlot(s) \/ ForkKstack(s)
  BY <1>1 DEF ForkNoSlot, ForkKstack
<1>2. CASE ExitCall(s) \/ ExitPanic(s)
  BY <1>2 DEF ExitCall, ExitPanic
<1>3. CASE Fault(s)
  BY <1>3 DEF Fault
<1>4. CASE WaitCall(s) \/ WaitFail(s)
  BY <1>4 DEF WaitCall, WaitFail
<1>5. CASE ReadCall(s) \/ \E n \in 1..MaxSleep : SysSleep(s, n)
  BY <1>5 DEF ReadCall, SysSleep
<1>6. CASE CheckDone(s) \/ CheckKilled(s) \/ CheckFail(s)
  BY <1>6 DEF CheckDone, CheckKilled, CheckFail, Return
<1>7. CASE TrapReturn(s) \/ NoticeKilled(s) \/ GetPid(s)
  BY <1>7 DEF TrapReturn, NoticeKilled, GetPid
<1>. QED BY <1>1, <1>2, <1>3, <1>4, <1>5, <1>6, <1>7

\* The other steps, named; the rest of the proofs have one case for each.
LEMMA StepCases ==
  ASSUME TypeOK, [Next]_vars
  PROVE  \/ \E s \in Slots : Quiet(s)
         \/ \E c \in Cpus, s \in Slots : Dispatch(c, s)
         \/ \E s \in Slots : ForkAlloc(s) \/ ForkNoKstack(s) \/ ForkCopy(s) \/ ForkNoSpace(s) \/ ForkReady(s)
         \/ \E s \in Slots : Exit(s) \/ WaitReap(s) \/ WaitSleep(s) \/ Block(s)
         \/ \E s \in Slots, p \in KillPids : Kill(s, p)
         \/ \E c \in Cpus : TimerIdle(c) \/ TimerYield(c)
         \/ ConsoleIntr
         \/ UNCHANGED vars
<1>1. CASE Next
  BY <1>1, NextCases, QuietSteps DEF Fork
<1>. QED BY <1>1
-----------------------------------------------------------------------------
\* wakeup1() makes some sleepers runnable, and does nothing else.
LEMMA WokenEffect ==
  ASSUME NEW st \in [Slots -> States], NEW ch
  PROVE  /\ Woken(st, ch) \in [Slots -> States]
         /\ \A t \in Slots : Woken(st, ch)[t] # st[t] =>
              st[t] = "SLEEPING" /\ chan[t] = ch /\ Woken(st, ch)[t] = "RUNNABLE"
         /\ \A t \in Slots : Woken(st, ch)[t] = "SLEEPING" => chan[t] # ch
BY DEF Woken, States

\* exit() moves the caller to ZOMBIE and changes no other slot but to wake it.
LEMMA ExitEffect ==
  ASSUME TypeOK, NEW s \in Slots, Exit(s)
  PROVE  /\ state'[s] = "ZOMBIE"
         /\ \A t \in Slots \ {s} : state'[t] # state[t] =>
              state[t] = "SLEEPING" /\ state'[t] = "RUNNABLE"
         /\ \A t \in Slots \ {s} : state'[t] = "SLEEPING" =>
              chan[t] # parent[s] /\ (ZombieAbandoned(s) => chan[t] # InitProc)
<1> DEFINE told == Woken(state, parent[s])
<1>1. state \in [Slots -> States]
  BY DEF TypeOK
<1>2. told \in [Slots -> States] /\ Woken(told, InitProc) \in [Slots -> States]
  BY <1>1, WokenEffect
<1>3. state' = [AfterExit(s) EXCEPT ![s] = "ZOMBIE"] /\ AfterExit(s) \in [Slots -> States]
  BY <1>2 DEF Exit, AfterExit
<1>4. \A t \in Slots : AfterExit(s)[t] # state[t] =>
        state[t] = "SLEEPING" /\ AfterExit(s)[t] = "RUNNABLE"
  BY <1>1, <1>2, WokenEffect DEF AfterExit
<1>5. \A t \in Slots : AfterExit(s)[t] = "SLEEPING" =>
        chan[t] # parent[s] /\ (ZombieAbandoned(s) => chan[t] # InitProc)
  BY <1>1, <1>2, WokenEffect DEF AfterExit
<1>. QED BY <1>3, <1>4, <1>5

\* wait() collects a zombie child of its caller.
LEMMA ReapedIsZombie ==
  ASSUME NEW s \in Slots, WaitReap(s)
  PROVE  LET z == First(ZombieChildren(s)) IN
           z \in Slots /\ state[z] = "ZOMBIE" /\ parent[z] = s
<1>1. ZombieChildren(s) \subseteq Slots /\ ZombieChildren(s) # {}
  BY DEF WaitReap, ZombieChildren, Children
<1>2. First(ZombieChildren(s)) \in ZombieChildren(s)
  BY <1>1, FirstIsMin
<1>. QED BY <1>2 DEF ZombieChildren, Children

\* fork() works on an embryo, and no two fork()s on the same one.
ForkInv ==
  /\ \A s \in Slots : pc[s] \in Forking =>
       child[s] \in Slots /\ state[child[s]] = "EMBRYO"
  /\ \A s, t \in Slots :
       pc[s] \in Forking /\ pc[t] \in Forking /\ child[s] = child[t] => s = t

CpuInv == OnOneCpu /\ ForkInv

\* The CPUs and the slots agree on what runs, and no step of a fork() disturbs
\* it: for any number of CPUs and slots.
THEOREM CpuCorrect == Spec => []CpuInv
<1>1. Init => CpuInv
  BY NPROCAssumption DEF Init, CpuInv, OnOneCpu, ForkInv, Forking, Slots, InitProc, None
<1>2. TypeOK /\ CpuInv /\ [Next]_vars => CpuInv'
  <2> SUFFICES ASSUME TypeOK, CpuInv, [Next]_vars PROVE CpuInv'
    OBVIOUS
  <2>0. \A s \in Slots : s # None
    BY NPROCAssumption DEF Slots, None
  <2> USE <2>0 DEF CpuInv, OnOneCpu, ForkInv, Forking, TypeOK, Executing, At, GoTo, table
  <2>1. ASSUME NEW s \in Slots, Quiet(s) PROVE CpuInv'
    BY <2>1 DEF Quiet
  <2>2. ASSUME NEW c \in Cpus, NEW s \in Slots, Dispatch(c, s) PROVE CpuInv'
    BY <2>2 DEF Dispatch
  <2>3. ASSUME NEW s \in Slots, ForkAlloc(s) PROVE CpuInv'
    <3>1. First(Unused) \in Slots /\ state[First(Unused)] = "UNUSED"
      BY <2>3, FirstIsMin DEF ForkAlloc, Unused
    <3>. QED BY <2>3, <3>1 DEF ForkAlloc, UserCall
  <2>4. ASSUME NEW s \in Slots, ForkNoKstack(s) PROVE CpuInv'
    BY <2>4 DEF ForkNoKstack
  <2>5. ASSUME NEW s \in Slots, ForkCopy(s) PROVE CpuInv'
    BY <2>5 DEF ForkCopy
  <2>6. ASSUME NEW s \in Slots, ForkNoSpace(s) PROVE CpuInv'
    BY <2>6 DEF ForkNoSpace
  <2>7. ASSUME NEW s \in Slots, ForkReady(s) PROVE CpuInv'
    BY <2>7 DEF ForkReady
  <2>8. ASSUME NEW s \in Slots, Exit(s) PROVE CpuInv'
    <3>1. /\ state'[s] = "ZOMBIE"
          /\ \A t \in Slots \ {s} : state'[t] # state[t] =>
               state[t] = "SLEEPING" /\ state'[t] = "RUNNABLE"
      BY <2>8, ExitEffect
    <3>2. At(s, "exit") /\ LeaveCpu(s) /\ UNCHANGED <<pc, child>>
      BY <2>8 DEF Exit
    <3>. QED BY <3>1, <3>2 DEF LeaveCpu
  <2>9. ASSUME NEW s \in Slots, WaitReap(s) PROVE CpuInv'
    <3>1. First(ZombieChildren(s)) \in Slots /\ state[First(ZombieChildren(s))] = "ZOMBIE"
      BY <2>9, ReapedIsZombie
    <3>2. state' = [state EXCEPT ![First(ZombieChildren(s))] = "UNUSED"]
      BY <2>9 DEF WaitReap
    <3>3. /\ At(s, "wait") /\ GoTo(s, "trapret")
          /\ UNCHANGED <<cpu, child>>
      BY <2>9 DEF WaitReap
    <3>. QED BY <3>1, <3>2, <3>3
  <2>10. ASSUME NEW s \in Slots, WaitSleep(s) PROVE CpuInv'
    BY <2>10 DEF WaitSleep, LeaveCpu
  <2>11. ASSUME NEW s \in Slots, Block(s) PROVE CpuInv'
    BY <2>11 DEF Block, LeaveCpu
  <2>12. ASSUME NEW s \in Slots, NEW p \in KillPids, Kill(s, p) PROVE CpuInv'
    <3>1. First(KillTargets(p)) \in Slots
      BY <2>12, FirstIsMin DEF Kill, KillTargets
    <3>. QED BY <2>12, <3>1 DEF Kill, UserCall
  <2>13. ASSUME NEW c \in Cpus, TimerIdle(c) PROVE CpuInv'
    BY <2>13 DEF TimerIdle, AfterTick, Woken
  <2>14. ASSUME NEW c \in Cpus, TimerYield(c) PROVE CpuInv'
    BY <2>14 DEF TimerYield, AfterTick, Woken
  <2>15. ASSUME ConsoleIntr PROVE CpuInv'
    BY <2>15 DEF ConsoleIntr, Woken
  <2>16. ASSUME UNCHANGED vars PROVE CpuInv'
    BY <2>16 DEF vars
  <2>. QED
    BY StepCases, <2>1, <2>2, <2>3, <2>4, <2>5, <2>6, <2>7, <2>8, <2>9, <2>10,
       <2>11, <2>12, <2>13, <2>14, <2>15, <2>16
<1>. QED
  BY <1>1, <1>2, TypeCorrect, PTL DEF Spec

\* So every running process is on one CPU, and every CPU runs a RUNNING one.
THEOREM OneCpuEach == Spec => []OnOneCpu
BY CpuCorrect, PTL DEF CpuInv
-----------------------------------------------------------------------------
\* init never dies and has no parent; the child of a fork() has the forking
\* process as its parent from copyuvm() on, and an unused slot has none.
TreeInv ==
  /\ ParentAlive
  /\ state[InitProc] \in Live /\ parent[InitProc] = None
  /\ \A s \in Slots : parent[s] # s
  /\ \A s \in Slots : state[s] = "UNUSED" => parent[s] = None
  /\ \A s \in Slots : /\ pc[s] = "fork_ready" => parent[child[s]] = s
                      /\ pc[s] \in {"fork_kstack", "fork_copy"} => parent[child[s]] = None

\* fork(), exit() and wait() keep the tree whole, for any number of slots and
\* CPUs.
THEOREM TreeCorrect == Spec => []TreeInv
<1>0. InitProc \in Slots /\ \A s \in Slots : s # None
  BY NPROCAssumption DEF Slots, None, InitProc
<1>1. Init => TreeInv
  BY <1>0 DEF Init, TreeInv, ParentAlive, Live
<1>2. TypeOK /\ CpuInv /\ TreeInv /\ [Next]_vars => TreeInv'
  <2> SUFFICES ASSUME TypeOK, CpuInv, TreeInv, [Next]_vars PROVE TreeInv'
    OBVIOUS
  <2> USE <1>0 DEF TreeInv, ParentAlive, Live, At, GoTo, table
  <2>0. /\ \A s \in Slots : Executing(s) => state[s] = "RUNNING"
        /\ \A s \in Slots : pc[s] \in Forking => child[s] \in Slots /\ state[child[s]] = "EMBRYO"
        /\ \A s, t \in Slots :
             pc[s] \in Forking /\ pc[t] \in Forking /\ child[s] = child[t] => s = t
    BY <1>0 DEF CpuInv, OnOneCpu, ForkInv, Executing
  <2>00. /\ state \in [Slots -> States] /\ parent \in [Slots -> Slots \cup {None}]
         /\ pc \in [Slots -> Places] /\ child \in [Slots -> Slots \cup {None}]
    BY DEF TypeOK
  <2>1. ASSUME NEW s \in Slots, Quiet(s) PROVE TreeInv'
    BY <2>1, <2>0, <2>00 DEF Quiet, Forking
  <2>2. ASSUME NEW c \in Cpus, NEW s \in Slots, Dispatch(c, s) PROVE TreeInv'
    BY <2>2, <2>0, <2>00 DEF Dispatch
  <2>3. ASSUME NEW s \in Slots, ForkAlloc(s) PROVE TreeInv'
    <3>1. First(Unused) \in Slots /\ state[First(Unused)] = "UNUSED"
      BY <2>3, FirstIsMin DEF ForkAlloc, Unused
    <3>. QED BY <2>3, <2>0, <2>00, <3>1 DEF ForkAlloc, UserCall, Forking
  <2>4. ASSUME NEW s \in Slots, ForkNoKstack(s) PROVE TreeInv'
    BY <2>4, <2>0, <2>00 DEF ForkNoKstack, Forking
  <2>5. ASSUME NEW s \in Slots, ForkCopy(s) PROVE TreeInv'
    BY <2>5, <2>0, <2>00 DEF ForkCopy, Forking
  <2>6. ASSUME NEW s \in Slots, ForkNoSpace(s) PROVE TreeInv'
    BY <2>6, <2>0, <2>00 DEF ForkNoSpace, Forking
  <2>7. ASSUME NEW s \in Slots, ForkReady(s) PROVE TreeInv'
    BY <2>7, <2>0, <2>00 DEF ForkReady, Forking
  <2>8. ASSUME NEW s \in Slots, Exit(s) PROVE TreeInv'
    <3>1. /\ state'[s] = "ZOMBIE"
          /\ \A t \in Slots \ {s} : state'[t] # state[t] =>
               state[t] = "SLEEPING" /\ state'[t] = "RUNNABLE"
      BY <2>8, ExitEffect
    <3>2. /\ s # InitProc /\ At(s, "exit") /\ UNCHANGED <<pc, child>>
          /\ \A t \in Slots : parent'[t] = IF parent[t] = s THEN InitProc ELSE parent[t]
      BY <2>8 DEF Exit, Abandoned
    <3>. QED BY <3>1, <3>2, <2>0, <2>00 DEF Forking
  <2>9. ASSUME NEW s \in Slots, WaitReap(s) PROVE TreeInv'
    <3> DEFINE z == First(ZombieChildren(s))
    <3>1. z \in Slots /\ state[z] = "ZOMBIE" /\ parent[z] = s
      BY <2>9, ReapedIsZombie
    <3>2. /\ At(s, "wait") /\ GoTo(s, "trapret") /\ UNCHANGED <<cpu, child>>
          /\ state' = [state EXCEPT ![z] = "UNUSED"]
          /\ parent' = [parent EXCEPT ![z] = None]
      BY <2>9 DEF WaitReap
    <3> HIDE DEF z
    <3>. QED BY <3>1, <3>2, <2>0, <2>00 DEF Forking
  <2>10. ASSUME NEW s \in Slots, WaitSleep(s) PROVE TreeInv'
    BY <2>10, <2>0, <2>00 DEF WaitSleep
  <2>11. ASSUME NEW s \in Slots, Block(s) PROVE TreeInv'
    BY <2>11, <2>0, <2>00 DEF Block
  <2>12. ASSUME NEW s \in Slots, NEW p \in KillPids, Kill(s, p) PROVE TreeInv'
    <3>1. First(KillTargets(p)) \in Slots
      BY <2>12, FirstIsMin DEF Kill, KillTargets
    <3>. QED BY <2>12, <3>1, <2>0, <2>00 DEF Kill, UserCall
  <2>13. ASSUME NEW c \in Cpus, TimerIdle(c) PROVE TreeInv'
    BY <2>13, <2>0, <2>00 DEF TimerIdle, AfterTick, Woken
  <2>14. ASSUME NEW c \in Cpus, TimerYield(c) PROVE TreeInv'
    <3>1. cpu[c] \in Slots /\ state[cpu[c]] = "RUNNING"
      BY <2>14 DEF TimerYield, TypeOK, CpuInv, OnOneCpu
    <3>. QED BY <2>14, <3>1, <2>0, <2>00 DEF TimerYield, AfterTick, Woken
  <2>15. ASSUME ConsoleIntr PROVE TreeInv'
    BY <2>15, <2>0, <2>00 DEF ConsoleIntr, Woken
  <2>16. ASSUME UNCHANGED vars PROVE TreeInv'
    BY <2>16 DEF vars
  <2>. QED
    BY StepCases, <2>1, <2>2, <2>3, <2>4, <2>5, <2>6, <2>7, <2>8, <2>9, <2>10,
       <2>11, <2>12, <2>13, <2>14, <2>15, <2>16
<1>. QED
  BY <1>1, <1>2, TypeCorrect, CpuCorrect, PTL DEF Spec

\* So at every moment the parent of every process, zombies included, can still
\* wait for it.
THEOREM ParentsAlive == Spec => []ParentAlive
BY TreeCorrect, PTL DEF TreeInv
-----------------------------------------------------------------------------
\* No exit() is missed by a parent asleep in wait(), for any number of slots
\* and CPUs: its own child's, or that of a zombie it inherits as init.
THEOREM ExitsNotMissed == Spec => []NoMissedExit
<1>0. InitProc \in Slots /\ \A s \in Slots : s # None /\ s \notin Conditions
  BY NPROCAssumption DEF Slots, None, InitProc, Conditions, Ticks, Input
<1>1. Init => NoMissedExit
  BY DEF Init, NoMissedExit
<1>2. TypeOK /\ CpuInv /\ TreeInv /\ NoMissedExit /\ [Next]_vars => NoMissedExit'
  <2> SUFFICES ASSUME TypeOK, CpuInv, TreeInv, NoMissedExit, [Next]_vars
               PROVE NoMissedExit'
    OBVIOUS
  <2> DEFINE Asleep(s) == state[s] = "SLEEPING" /\ chan[s] = s
  <2> USE <1>0 DEF NoMissedExit, ZombieChildren, Children, At, GoTo, table
  <2>0. /\ \A s \in Slots : Executing(s) => state[s] = "RUNNING"
        /\ \A s \in Slots : pc[s] \in Forking => child[s] \in Slots /\ state[child[s]] = "EMBRYO"
        /\ \A s \in Slots : pc[s] \in {"fork_kstack", "fork_copy"} => parent[child[s]] = None
        /\ parent[InitProc] = None
    BY DEF CpuInv, OnOneCpu, ForkInv, Executing, TreeInv
  <2>00. /\ state \in [Slots -> States] /\ parent \in [Slots -> Slots \cup {None}]
         /\ chan \in [Slots -> Slots \cup Conditions \cup {None}]
         /\ on \in [Slots -> Conditions \cup {None}]
    BY DEF TypeOK
  <2>1. ASSUME NEW s \in Slots, Quiet(s) PROVE NoMissedExit'
    BY <2>1, <2>0, <2>00 DEF Quiet
  <2>2. ASSUME NEW c \in Cpus, NEW s \in Slots, Dispatch(c, s) PROVE NoMissedExit'
    BY <2>2, <2>0, <2>00 DEF Dispatch
  <2>3. ASSUME NEW s \in Slots, ForkAlloc(s) PROVE NoMissedExit'
    <3>1. First(Unused) \in Slots /\ state[First(Unused)] = "UNUSED"
      BY <2>3, FirstIsMin DEF ForkAlloc, Unused
    <3>. QED BY <2>3, <2>0, <2>00, <3>1 DEF ForkAlloc, UserCall
  <2>4. ASSUME NEW s \in Slots, ForkNoKstack(s) PROVE NoMissedExit'
    BY <2>4, <2>0, <2>00 DEF ForkNoKstack, Forking
  <2>5. ASSUME NEW s \in Slots, ForkCopy(s) PROVE NoMissedExit'
    BY <2>5, <2>0, <2>00 DEF ForkCopy, Forking
  <2>6. ASSUME NEW s \in Slots, ForkNoSpace(s) PROVE NoMissedExit'
    BY <2>6, <2>0, <2>00 DEF ForkNoSpace, Forking
  <2>7. ASSUME NEW s \in Slots, ForkReady(s) PROVE NoMissedExit'
    BY <2>7, <2>0, <2>00 DEF ForkReady, Forking
  <2>8. ASSUME NEW s \in Slots, Exit(s) PROVE NoMissedExit'
    <3>1. /\ state'[s] = "ZOMBIE"
          /\ \A t \in Slots \ {s} : state'[t] # state[t] =>
               state[t] = "SLEEPING" /\ state'[t] = "RUNNABLE"
          /\ \A t \in Slots \ {s} : state'[t] = "SLEEPING" =>
               chan[t] # parent[s] /\ (ZombieAbandoned(s) => chan[t] # InitProc)
      BY <2>8, ExitEffect
    <3>2. /\ s # InitProc /\ UNCHANGED <<chan, killed>>
          /\ \A t \in Slots : parent'[t] = IF parent[t] = s THEN InitProc ELSE parent[t]
      BY <2>8 DEF Exit, Abandoned
    <3>3. SUFFICES ASSUME NEW t \in Slots, Asleep(t)'
                   PROVE (ZombieChildren(t) = {} /\ Children(t) # {} /\ ~killed[t])'
      OBVIOUS
    <3>4. t # s /\ Asleep(t) /\ t # parent[s] /\ (ZombieAbandoned(s) => t # InitProc)
      BY <3>1, <3>2, <3>3, <2>00
    <3>5. ASSUME NEW p \in Slots, parent'[p] = t, state'[p] = "ZOMBIE" PROVE FALSE
      <4>1. CASE p = s
        BY <4>1, <3>2, <3>4, <3>5 DEF TreeInv
      <4>2. CASE p # s
        <5>1. state[p] = "ZOMBIE"
          BY <4>2, <3>1, <3>5
        <5>2. parent[p] # s
          BY <5>1, <3>2, <3>4, <3>5 DEF ZombieAbandoned, Abandoned
        <5>3. p \in ZombieChildren(t)
          BY <5>1, <5>2, <3>2, <3>5
        <5>. QED BY <5>3, <3>4
      <4>. QED BY <4>1, <4>2
    <3>6. \E p \in Slots : parent'[p] = t
      BY <3>2, <3>4
    <3>. QED BY <3>2, <3>4, <3>5, <3>6
  <2>9. ASSUME NEW s \in Slots, WaitReap(s) PROVE NoMissedExit'
    <3> DEFINE z == First(ZombieChildren(s))
    <3>1. z \in Slots /\ state[z] = "ZOMBIE" /\ parent[z] = s
      BY <2>9, ReapedIsZombie
    <3>2. /\ At(s, "wait") /\ UNCHANGED chan
          /\ state' = [state EXCEPT ![z] = "UNUSED"]
          /\ parent' = [parent EXCEPT ![z] = None]
      BY <2>9 DEF WaitReap
    <3>3. \A t \in Slots : t # z => killed'[t] = killed[t]
      BY <2>9, Zenon DEF WaitReap, TypeOK
    <3> HIDE DEF z
    <3>. QED BY <3>1, <3>2, <3>3, <2>0, <2>00
  <2>10. ASSUME NEW s \in Slots, WaitSleep(s) PROVE NoMissedExit'
    BY <2>10, <2>0, <2>00 DEF WaitSleep
  <2>11. ASSUME NEW s \in Slots, Block(s) PROVE NoMissedExit'
    BY <2>11, <2>0, <2>00 DEF Block
  <2>12. ASSUME NEW s \in Slots, NEW p \in KillPids, Kill(s, p) PROVE NoMissedExit'
    <3> DEFINE k == First(KillTargets(p))
    <3>1. k \in Slots
      BY <2>12, FirstIsMin DEF Kill, KillTargets
    <3>2. UNCHANGED <<parent, chan>>
      BY <2>12 DEF Kill
    <3>3. \A t \in Slots : t # k => killed'[t] = killed[t] /\ state'[t] = state[t]
      BY <2>12, <3>1 DEF Kill, TypeOK
    <3>4. state'[k] = IF state[k] = "SLEEPING" THEN "RUNNABLE" ELSE state[k]
      BY <2>12, <3>1, <2>00 DEF Kill
    <3> HIDE DEF k
    <3>. QED BY <3>1, <3>2, <3>3, <3>4, <2>00
  <2>13. ASSUME NEW c \in Cpus, TimerIdle(c) PROVE NoMissedExit'
    BY <2>13, <2>0, <2>00 DEF TimerIdle, AfterTick, Woken
  <2>14. ASSUME NEW c \in Cpus, TimerYield(c) PROVE NoMissedExit'
    <3>1. cpu[c] \in Slots /\ state[cpu[c]] = "RUNNING"
      BY <2>14 DEF TimerYield, TypeOK, CpuInv, OnOneCpu
    <3>. QED BY <2>14, <3>1, <2>0, <2>00 DEF TimerYield, AfterTick, Woken
  <2>15. ASSUME ConsoleIntr PROVE NoMissedExit'
    BY <2>15, <2>0, <2>00 DEF ConsoleIntr, Woken
  <2>16. ASSUME UNCHANGED vars PROVE NoMissedExit'
    BY <2>16 DEF vars
  <2>. QED
    BY StepCases, <2>1, <2>2, <2>3, <2>4, <2>5, <2>6, <2>7, <2>8, <2>9, <2>10,
       <2>11, <2>12, <2>13, <2>14, <2>15, <2>16
<1>. QED
  BY <1>1, <1>2, TypeCorrect, CpuCorrect, TreeCorrect, PTL DEF Spec
-----------------------------------------------------------------------------
\* A process between a failed test and its sleep() still has nothing to find,
\* and sleeps on the condition it tested.
WaitInv ==
  /\ NoLostWakeup
  /\ \A s \in Slots : pc[s] \in {"check", "block"} => on[s] \in Conditions
  /\ \A s \in Slots : pc[s] = "block" => ~Ready(s)
  /\ \A s \in Slots : state[s] = "SLEEPING" /\ chan[s] \in Conditions =>
       pc[s] = "check" /\ on[s] = chan[s]

\* No process sleeps on a condition that holds: the lock of the condition is
\* held from the failed test until sleep() has ptable.lock, so the tick or the
\* key that makes it true comes after, and wakes the sleeper.
THEOREM WakeupsNotLost == Spec => []NoLostWakeup
<1>0. /\ \A s \in Slots : s # None /\ s \notin Conditions
      /\ None \notin Conditions /\ Ticks # Input
  BY NPROCAssumption DEF Slots, None, Conditions, Ticks, Input
<1>1. Init => WaitInv
  BY DEF Init, WaitInv, NoLostWakeup
<1>2. TypeOK /\ CpuInv /\ WaitInv /\ [Next]_vars => WaitInv'
  <2> SUFFICES ASSUME TypeOK, CpuInv, WaitInv, [Next]_vars PROVE WaitInv'
    OBVIOUS
  <2>0. /\ \A s \in Slots : Executing(s) => state[s] = "RUNNING"
        /\ \A s \in Slots : pc[s] \in Forking => child[s] \in Slots /\ state[child[s]] = "EMBRYO"
    BY <1>0 DEF CpuInv, OnOneCpu, ForkInv, Executing
  <2>00. /\ state \in [Slots -> States] /\ pc \in [Slots -> Places]
         /\ chan \in [Slots -> Slots \cup Conditions \cup {None}]
         /\ on \in [Slots -> Conditions \cup {None}]
         /\ left \in [Slots -> 0..MaxSleep]
    BY DEF TypeOK
  <2>000. \A s \in Slots : on[s] \in Conditions => on[s] \in {Ticks, Input}
    BY DEF Conditions
  <2> USE <1>0, <2>0, <2>00, <2>000 DEF WaitInv, NoLostWakeup, Ready, At, GoTo, table, waits
  <2>1. ASSUME NEW s \in Slots,
               ForkNoSlot(s) \/ ForkKstack(s) \/ ExitCall(s) \/ Fault(s) \/ ExitPanic(s)
                 \/ WaitCall(s) \/ WaitFail(s) \/ TrapReturn(s) \/ NoticeKilled(s) \/ GetPid(s)
        PROVE  WaitInv'
    <3>1. UNCHANGED <<state, chan, waits>>
      BY <2>1 DEF ForkNoSlot, ForkKstack, ExitCall, Fault, ExitPanic, WaitCall,
                  WaitFail, TrapReturn, NoticeKilled, GetPid
    <3>2. Executing(s) /\ \E place \in Places \ {"check", "block"} : GoTo(s, place)
      BY <2>1 DEF ForkNoSlot, ForkKstack, ExitCall, Fault, ExitPanic, WaitCall,
                  WaitFail, TrapReturn, NoticeKilled, GetPid, UserCall, Places
    <3>. QED BY <3>1, <3>2
  <2>2. ASSUME NEW c \in Cpus, NEW s \in Slots, Dispatch(c, s) PROVE WaitInv'
    BY <2>2 DEF Dispatch
  <2>3. ASSUME NEW s \in Slots, ForkAlloc(s) PROVE WaitInv'
    <3>1. First(Unused) \in Slots
      BY <2>3, FirstIsMin DEF ForkAlloc, Unused
    <3>. QED BY <2>3, <3>1 DEF ForkAlloc, UserCall
  <2>4. ASSUME NEW s \in Slots, ForkNoKstack(s) \/ ForkCopy(s) \/ ForkNoSpace(s) PROVE WaitInv'
    BY <2>4 DEF ForkNoKstack, ForkCopy, ForkNoSpace, Forking
  <2>5. ASSUME NEW s \in Slots, ForkReady(s) PROVE WaitInv'
    BY <2>5 DEF ForkReady, Forking
  <2>6. ASSUME NEW s \in Slots, Exit(s) PROVE WaitInv'
    <3>1. \A t \in Slots : state'[t] = "SLEEPING" => state[t] = "SLEEPING"
      BY <2>6, ExitEffect
    <3>2. UNCHANGED <<pc, chan, waits>>
      BY <2>6 DEF Exit
    <3>. QED BY <3>1, <3>2
  <2>7. ASSUME NEW s \in Slots, WaitReap(s) PROVE WaitInv'
    <3>1. First(ZombieChildren(s)) \in Slots
      BY <2>7, ReapedIsZombie
    <3>2. /\ At(s, "wait") /\ GoTo(s, "trapret") /\ UNCHANGED <<chan, waits>>
          /\ state' = [state EXCEPT ![First(ZombieChildren(s))] = "UNUSED"]
      BY <2>7 DEF WaitReap
    <3>. QED BY <3>1, <3>2
  <2>8. ASSUME NEW s \in Slots, WaitSleep(s) PROVE WaitInv'
    BY <2>8 DEF WaitSleep
  <2>9. ASSUME NEW s \in Slots, NEW p \in KillPids, Kill(s, p) PROVE WaitInv'
    <3>1. First(KillTargets(p)) \in Slots
      BY <2>9, FirstIsMin DEF Kill, KillTargets
    <3>. QED BY <2>9, <3>1 DEF Kill, UserCall
  <2>10. ASSUME NEW s \in Slots, NEW n \in 1..MaxSleep, SysSleep(s, n) PROVE WaitInv'
    BY <2>10 DEF SysSleep, UserCall, Conditions
  <2>11. ASSUME NEW s \in Slots, ReadCall(s) PROVE WaitInv'
    BY <2>11 DEF ReadCall, UserCall, Conditions
  <2>12. ASSUME NEW s \in Slots, CheckDone(s) PROVE WaitInv'
    <3>1. \A t \in Slots : on[t] = Input /\ on[s] = Input => pc[t] # "block"
                             /\ ~(state[t] = "SLEEPING" /\ chan[t] \in Conditions)
      BY <2>12 DEF CheckDone, LockFree
    <3>2. on[s] # Input => avail' = avail
      BY <2>12 DEF CheckDone
    <3>3. /\ At(s, "check") /\ UNCHANGED <<state, chan>>
          /\ pc' = [pc EXCEPT ![s] = "trapret"]
          /\ on' = [on EXCEPT ![s] = None] /\ left' = [left EXCEPT ![s] = 0]
      BY <2>12 DEF CheckDone, Return
    <3>. QED BY <3>1, <3>2, <3>3
  <2>13. ASSUME NEW s \in Slots, CheckKilled(s) PROVE WaitInv'
    BY <2>13 DEF CheckKilled, Return
  <2>14. ASSUME NEW s \in Slots, CheckFail(s) PROVE WaitInv'
    BY <2>14 DEF CheckFail
  <2>15. ASSUME NEW s \in Slots, Block(s) PROVE WaitInv'
    BY <2>15 DEF Block
  <2>16. ASSUME NEW c \in Cpus, TimerIdle(c) \/ TimerYield(c) PROVE WaitInv'
    <3>1. \A t \in Slots : state'[t] = "SLEEPING" =>
            state[t] = "SLEEPING" /\ (c = 0 => chan[t] # Ticks)
      <4>1. \A t \in Slots : AfterTick(c)[t] = "SLEEPING" =>
              state[t] = "SLEEPING" /\ (c = 0 => chan[t] # Ticks)
        BY DEF AfterTick, Woken
      <4>2. AfterTick(c) \in [Slots -> States]
        BY DEF AfterTick, Woken, States
      <4>. QED BY <2>16, <4>1, <4>2 DEF TimerIdle, TimerYield
    <3>2. /\ UNCHANGED <<chan, on, avail>>
          /\ \A t \in Slots : pc'[t] = pc[t] \/ (pc[t] = "user" /\ pc'[t] = "trapret")
      BY <2>16 DEF TimerIdle, TimerYield
    <3>3. \A t \in Slots : on[t] = Ticks /\ pc[t] = "block" => left'[t] = left[t]
      BY <2>16 DEF TimerIdle, TimerYield, CountTick, LockFree
    <3>4. c # 0 => left' = left
      BY <2>16 DEF TimerIdle, TimerYield, CountTick
    <3>. QED BY <3>1, <3>2, <3>3, <3>4
  <2>17. ASSUME ConsoleIntr PROVE WaitInv'
    BY <2>17 DEF ConsoleIntr, Woken, LockFree
  <2>18. ASSUME UNCHANGED vars PROVE WaitInv'
    BY <2>18 DEF vars
  <2>19. CASE Next
    BY <2>19, NextCases, <2>1, <2>2, <2>3, <2>4, <2>5, <2>6, <2>7, <2>8, <2>9, <2>10,
       <2>11, <2>12, <2>13, <2>14, <2>15, <2>16, <2>17 DEF Fork
  <2>. QED BY <2>18, <2>19
<1>. QED
  BY <1>1, <1>2, TypeCorrect, CpuCorrect, PTL DEF Spec, WaitInv
-----------------------------------------------------------------------------
\* The number of slots that own a page of a kind.
Owners(f) == Cardinality({s \in Slots : f[s]})

\* A page given to a slot that has none, or taken from one that has one, is
\* one page.
LEMMA OwnersCount ==
  ASSUME NEW f \in [Slots -> BOOLEAN], NEW k \in Slots
  PROVE  /\ Owners(f) \in Nat
         /\ ~f[k] => Owners([f EXCEPT ![k] = TRUE]) = Owners(f) + 1
         /\ f[k] => Owners([f EXCEPT ![k] = FALSE]) = Owners(f) - 1
<1> DEFINE S == {s \in Slots : f[s]}
<1>1. IsFiniteSet(S) /\ Cardinality(S) \in Nat
  <2>1. IsFiniteSet(1..NPROC)
    BY NPROCAssumption, FS_Interval
  <2>2. IsFiniteSet(S)
    BY <2>1, FS_Subset DEF Slots
  <2>. QED BY <2>2, FS_CardinalityType
<1>2. ASSUME ~f[k] PROVE Owners([f EXCEPT ![k] = TRUE]) = Owners(f) + 1
  <2>1. {s \in Slots : [f EXCEPT ![k] = TRUE][s]} = S \cup {k}
    BY Zenon
  <2>2. k \notin S
    BY <1>2
  <2> HIDE DEF S
  <2>3. Cardinality(S \cup {k}) = Cardinality(S) + 1
    BY <1>1, <2>2, FS_AddElement
  <2>. QED BY <2>1, <2>3 DEF Owners, S
<1>3. ASSUME f[k] PROVE Owners([f EXCEPT ![k] = FALSE]) = Owners(f) - 1
  <2>1. {s \in Slots : [f EXCEPT ![k] = FALSE][s]} = S \ {k}
    BY Zenon
  <2>2. k \in S
    BY <1>3
  <2> HIDE DEF S
  <2>3. Cardinality(S \ {k}) = Cardinality(S) - 1
    BY <1>1, <2>2, FS_RemoveElement
  <2>. QED BY <2>1, <2>3 DEF Owners, S
<1>. QED BY <1>1, <1>2, <1>3 DEF Owners

\* A slot owns nothing while it is unused, what fork() has given it so far
\* while it is an embryo, and a stack and an address space from then on.
OwnInv ==
  /\ \A s \in Slots : state[s] \in States \ {"UNUSED", "EMBRYO"} => kstack[s] /\ space[s]
  /\ \A s \in Slots : state[s] = "UNUSED" => ~kstack[s] /\ ~space[s]
  /\ \A s \in Slots : pc[s] = "fork_kstack" => ~kstack[child[s]] /\ ~space[child[s]]
  /\ \A s \in Slots : pc[s] = "fork_copy" => kstack[child[s]] /\ ~space[child[s]]
  /\ \A s \in Slots : pc[s] = "fork_ready" => kstack[child[s]] /\ space[child[s]]

\* Every page is on the free list or owned by one slot.
AllCounted == free + Owners(kstack) + Owners(space) = Pages + 2

\* A step moves pages as the slots' needs change: it moves none, gives one to
\* the child of a fork(), takes one back from it, or frees a dead child.
PageMoves ==
  \/ UNCHANGED memory
  \/ \E k \in Slots : /\ ~kstack[k] /\ kstack' = [kstack EXCEPT ![k] = TRUE]
                      /\ free' = free - 1 /\ UNCHANGED space
  \/ \E k \in Slots : /\ ~space[k] /\ space' = [space EXCEPT ![k] = TRUE]
                      /\ free' = free - 1 /\ UNCHANGED kstack
  \/ \E k \in Slots : /\ kstack[k] /\ kstack' = [kstack EXCEPT ![k] = FALSE]
                      /\ free' = free + 1 /\ UNCHANGED space
  \/ \E k \in Slots : /\ kstack[k] /\ kstack' = [kstack EXCEPT ![k] = FALSE]
                      /\ space[k] /\ space' = [space EXCEPT ![k] = FALSE]
                      /\ free' = free + 2

\* None of these moves loses or invents a page.
LEMMA MovesConserve ==
  ASSUME TypeOK, AllCounted, PageMoves
  PROVE  AllCounted'
<1>1. kstack \in [Slots -> BOOLEAN] /\ space \in [Slots -> BOOLEAN] /\ free \in Nat
  BY DEF TypeOK
<1>2. InitProc \in Slots /\ Pages \in Nat
  BY NPROCAssumption, BoundsAssumption DEF Slots, InitProc
<1>3. Owners(kstack) \in Nat /\ Owners(space) \in Nat
  BY <1>1, <1>2, OwnersCount
<1>4. AllCounted' <=> free' + Owners(kstack') + Owners(space') = Pages + 2
  BY DEF AllCounted, Owners
<1>5. CASE UNCHANGED memory
  BY <1>5 DEF AllCounted, Owners, memory
<1>6. ASSUME NEW k \in Slots, ~kstack[k], kstack' = [kstack EXCEPT ![k] = TRUE],
             free' = free - 1, UNCHANGED space
      PROVE  AllCounted'
  <2>1. Owners(kstack') = Owners(kstack) + 1
    BY <1>1, <1>6, OwnersCount
  <2>2. Owners(space') = Owners(space)
    BY <1>6
  <2>. QED BY <1>1, <1>2, <1>3, <1>4, <1>6, <2>1, <2>2 DEF AllCounted
<1>7. ASSUME NEW k \in Slots, ~space[k], space' = [space EXCEPT ![k] = TRUE],
             free' = free - 1, UNCHANGED kstack
      PROVE  AllCounted'
  <2>1. Owners(space') = Owners(space) + 1
    BY <1>1, <1>7, OwnersCount
  <2>2. Owners(kstack') = Owners(kstack)
    BY <1>7
  <2>. QED BY <1>1, <1>2, <1>3, <1>4, <1>7, <2>1, <2>2 DEF AllCounted
<1>8. ASSUME NEW k \in Slots, kstack[k], kstack' = [kstack EXCEPT ![k] = FALSE],
             free' = free + 1, UNCHANGED space
      PROVE  AllCounted'
  <2>1. Owners(kstack') = Owners(kstack) - 1
    BY <1>1, <1>8, OwnersCount
  <2>2. Owners(space') = Owners(space)
    BY <1>8
  <2>. QED BY <1>1, <1>2, <1>3, <1>4, <1>8, <2>1, <2>2 DEF AllCounted
<1>9. ASSUME NEW k \in Slots, kstack[k], kstack' = [kstack EXCEPT ![k] = FALSE],
             space[k], space' = [space EXCEPT ![k] = FALSE], free' = free + 2
      PROVE  AllCounted'
  <2>1. Owners(kstack') = Owners(kstack) - 1 /\ Owners(space') = Owners(space) - 1
    BY <1>1, <1>9, OwnersCount
  <2>. QED BY <1>1, <1>2, <1>3, <1>4, <1>9, <2>1 DEF AllCounted
<1>. QED BY <1>5, <1>6, <1>7, <1>8, <1>9 DEF PageMoves

\* The steps that leave memory alone, and the needs of every slot as they are.
LEMMA NoPageSteps ==
  ASSUME TypeOK, OwnInv, NEW s \in Slots,
         \/ ForkNoSlot(s) \/ ExitCall(s) \/ Fault(s) \/ ExitPanic(s)
         \/ WaitCall(s) \/ WaitFail(s) \/ ReadCall(s) \/ CheckDone(s) \/ CheckKilled(s)
         \/ CheckFail(s) \/ TrapReturn(s) \/ NoticeKilled(s) \/ GetPid(s)
         \/ \E n \in 1..MaxSleep : SysSleep(s, n)
  PROVE  PageMoves /\ OwnInv'
<1>1. UNCHANGED memory
  BY DEF ForkNoSlot, ExitCall, Fault, ExitPanic, WaitCall, WaitFail, ReadCall, CheckDone,
         CheckKilled, CheckFail, TrapReturn, NoticeKilled, GetPid, SysSleep
<1>2. UNCHANGED <<state, child>>
  BY DEF ForkNoSlot, ExitCall, Fault, ExitPanic, WaitCall, WaitFail, ReadCall, CheckDone,
         CheckKilled, CheckFail, TrapReturn, NoticeKilled, GetPid, SysSleep, table
<1>3. \E place \in Places \ Forking : GoTo(s, place)
  BY DEF ForkNoSlot, ExitCall, Fault, ExitPanic, WaitCall, WaitFail, ReadCall, CheckDone,
         CheckKilled, CheckFail, TrapReturn, NoticeKilled, GetPid, SysSleep, Return, Places, Forking
<1>4. \A t \in Slots : pc'[t] \in Forking => pc'[t] = pc[t]
  BY <1>3 DEF TypeOK, GoTo
<1>. QED BY <1>1, <1>2, <1>4 DEF PageMoves, OwnInv, memory, Forking

\* The steps that leave memory alone and change the state of slots that own all
\* they need: none of them makes one unused or an embryo.
LEMMA StateSteps ==
  ASSUME TypeOK, OwnInv, UNCHANGED <<memory, child>>,
         \A t \in Slots : state'[t] # state[t] =>
           {state[t], state'[t]} \cap {"UNUSED", "EMBRYO"} = {},
         state' \in [Slots -> States],
         \A t \in Slots : pc'[t] = pc[t] \/ pc'[t] \notin Forking
  PROVE  PageMoves /\ OwnInv'
<1>1. PageMoves
  BY DEF PageMoves
<1>2. \A t \in Slots : state'[t] \in {"UNUSED", "EMBRYO"} => state'[t] = state[t]
  OBVIOUS
<1>3. \A t \in Slots : state[t] \in {"UNUSED", "EMBRYO"} => state'[t] = state[t]
  OBVIOUS
<1>4. \A t \in Slots : state'[t] \in States \ {"UNUSED", "EMBRYO"} =>
        state[t] \in States \ {"UNUSED", "EMBRYO"}
  BY <1>3 DEF TypeOK
<1>5. OwnInv'
  BY <1>2, <1>4 DEF OwnInv, memory, Forking
<1>. QED BY <1>1, <1>5

\* What each step of fork() takes and gives back.
LEMMA ForkPages ==
  ASSUME TypeOK, CpuInv, OwnInv, NEW s \in Slots,
         \/ ForkAlloc(s) \/ ForkKstack(s) \/ ForkNoKstack(s) \/ ForkCopy(s)
         \/ ForkNoSpace(s) \/ ForkReady(s)
  PROVE  PageMoves /\ OwnInv'
<1> DEFINE k == child[s]
<1>0. /\ state \in [Slots -> States] /\ pc \in [Slots -> Places]
      /\ child \in [Slots -> Slots \cup {None}]
      /\ kstack \in [Slots -> BOOLEAN] /\ space \in [Slots -> BOOLEAN]
  BY DEF TypeOK
<1>1. /\ \A t \in Slots : pc[t] \in Forking => child[t] \in Slots /\ state[child[t]] = "EMBRYO"
      /\ \A t, u \in Slots :
           pc[t] \in Forking /\ pc[u] \in Forking /\ child[t] = child[u] => t = u
      /\ \A t \in Slots : Executing(t) => state[t] = "RUNNING"
  <2>1. \A t \in Slots : t # None
    BY NPROCAssumption DEF Slots, None
  <2>. QED BY <2>1 DEF CpuInv, ForkInv, OnOneCpu, Executing
<1> USE <1>0, <1>1
<1>2. ASSUME ForkAlloc(s) PROVE PageMoves /\ OwnInv'
  <2> DEFINE np == First(Unused)
  <2>1. np \in Slots /\ state[np] = "UNUSED"
    BY <1>2, FirstIsMin DEF ForkAlloc, Unused
  <2>2. /\ state' = [state EXCEPT ![np] = "EMBRYO"]
        /\ child' = [child EXCEPT ![s] = np]
        /\ pc' = [pc EXCEPT ![s] = "fork_kstack"]
        /\ kstack' = kstack /\ space' = space /\ UNCHANGED memory
    BY <1>2 DEF ForkAlloc, GoTo, memory
  <2> HIDE DEF np
  <2>3. ~kstack[np] /\ ~space[np]
    BY <2>1 DEF OwnInv
  <2>4. PageMoves
    BY <2>2 DEF PageMoves
  <2>5. OwnInv'
    BY <2>1, <2>2, <2>3 DEF OwnInv, Forking
  <2>. QED BY <2>4, <2>5
<1>3. ASSUME ForkKstack(s) PROVE PageMoves /\ OwnInv'
  <2>1. /\ pc[s] = "fork_kstack" /\ k \in Slots /\ ~kstack[k] /\ ~space[k]
        /\ state[k] = "EMBRYO"
    BY <1>3 DEF ForkKstack, At, OwnInv, Forking
  <2>2. /\ kstack' = [kstack EXCEPT ![k] = TRUE] /\ free' = free - 1
        /\ pc' = [pc EXCEPT ![s] = "fork_copy"]
        /\ UNCHANGED <<state, child, space>>
    BY <1>3 DEF ForkKstack, GoTo, table
  <2>3. PageMoves
    BY <2>1, <2>2 DEF PageMoves
  <2>4. kstack'[k] /\ \A t \in Slots \ {k} : kstack'[t] = kstack[t]
    BY <2>1, <2>2, Zenon
  <2>5. OwnInv'
    BY <2>1, <2>2, <2>4 DEF OwnInv, Forking
  <2>. QED BY <2>3, <2>5
<1>4. ASSUME ForkNoKstack(s) PROVE PageMoves /\ OwnInv'
  <2>1. pc[s] = "fork_kstack" /\ k \in Slots /\ ~kstack[k] /\ ~space[k]
    BY <1>4 DEF ForkNoKstack, At, OwnInv, Forking
  <2>2. /\ state' = [state EXCEPT ![k] = "UNUSED"] /\ child' = [child EXCEPT ![s] = None]
        /\ pc' = [pc EXCEPT ![s] = "trapret"]
        /\ kstack' = kstack /\ space' = space /\ UNCHANGED memory
    BY <1>4 DEF ForkNoKstack, GoTo, memory
  <2>3. PageMoves
    BY <2>2 DEF PageMoves
  <2>4. OwnInv'
    BY <2>1, <2>2 DEF OwnInv, Forking
  <2>. QED BY <2>3, <2>4
<1>5. ASSUME ForkCopy(s) PROVE PageMoves /\ OwnInv'
  <2>1. /\ pc[s] = "fork_copy" /\ k \in Slots /\ kstack[k] /\ ~space[k]
        /\ state[k] = "EMBRYO"
    BY <1>5 DEF ForkCopy, At, OwnInv, Forking
  <2>2. /\ space' = [space EXCEPT ![k] = TRUE] /\ free' = free - 1
        /\ pc' = [pc EXCEPT ![s] = "fork_ready"]
        /\ UNCHANGED <<state, child, kstack>>
    BY <1>5 DEF ForkCopy, GoTo
  <2>3. PageMoves
    BY <2>1, <2>2 DEF PageMoves
  <2>4. space'[k] /\ \A t \in Slots \ {k} : space'[t] = space[t]
    BY <2>1, <2>2, Zenon
  <2>5. OwnInv'
    BY <2>1, <2>2, <2>4 DEF OwnInv, Forking
  <2>. QED BY <2>3, <2>5
<1>6. ASSUME ForkNoSpace(s) PROVE PageMoves /\ OwnInv'
  <2>1. pc[s] = "fork_copy" /\ k \in Slots /\ kstack[k] /\ ~space[k]
    BY <1>6 DEF ForkNoSpace, At, OwnInv, Forking
  <2>2. /\ kstack' = [kstack EXCEPT ![k] = FALSE] /\ free' = free + 1
        /\ state' = [state EXCEPT ![k] = "UNUSED"] /\ child' = [child EXCEPT ![s] = None]
        /\ pc' = [pc EXCEPT ![s] = "trapret"] /\ UNCHANGED space
    BY <1>6 DEF ForkNoSpace, GoTo
  <2>3. PageMoves
    BY <2>1, <2>2 DEF PageMoves
  <2>4. ~kstack'[k] /\ \A t \in Slots \ {k} : kstack'[t] = kstack[t]
    BY <2>1, <2>2, Zenon
  <2>5. OwnInv'
    BY <2>1, <2>2, <2>4 DEF OwnInv, Forking
  <2>. QED BY <2>3, <2>5
<1>7. ASSUME ForkReady(s) PROVE PageMoves /\ OwnInv'
  <2>1. pc[s] = "fork_ready" /\ k \in Slots /\ kstack[k] /\ space[k]
    BY <1>7 DEF ForkReady, At, OwnInv, Forking
  <2>2. /\ state' = [state EXCEPT ![k] = "RUNNABLE"]
        /\ child' = [child EXCEPT ![s] = None]
        /\ pc' = [pc EXCEPT ![s] = "trapret", ![k] = "user"]
        /\ kstack' = kstack /\ space' = space /\ UNCHANGED memory
    BY <1>7 DEF ForkReady, memory
  <2>3. PageMoves
    BY <2>2 DEF PageMoves
  <2>4. OwnInv'
    BY <2>1, <2>2 DEF OwnInv, Forking
  <2>. QED BY <2>3, <2>4
<1>. QED BY <1>2, <1>3, <1>4, <1>5, <1>6, <1>7

\* wait() frees the stack and the address space of the zombie it collects.
LEMMA ReapPages ==
  ASSUME TypeOK, CpuInv, OwnInv, NEW s \in Slots, WaitReap(s)
  PROVE  PageMoves /\ OwnInv'
<1> DEFINE z == First(ZombieChildren(s))
<1>1. z \in Slots /\ state[z] = "ZOMBIE"
  BY ReapedIsZombie
<1>2. /\ kstack' = [kstack EXCEPT ![z] = FALSE] /\ space' = [space EXCEPT ![z] = FALSE]
      /\ free' = free + 2 /\ state' = [state EXCEPT ![z] = "UNUSED"]
      /\ pc' = [pc EXCEPT ![s] = "trapret"] /\ child' = child
  BY DEF WaitReap, GoTo
<1> HIDE DEF z
<1>3. kstack \in [Slots -> BOOLEAN] /\ space \in [Slots -> BOOLEAN]
  BY DEF TypeOK
<1>4. kstack[z] /\ space[z]
  BY <1>1 DEF OwnInv, States
<1>5. PageMoves
  BY <1>1, <1>2, <1>4 DEF PageMoves
<1>6. /\ ~kstack'[z] /\ \A t \in Slots \ {z} : kstack'[t] = kstack[t]
      /\ ~space'[z] /\ \A t \in Slots \ {z} : space'[t] = space[t]
  BY <1>1, <1>2, <1>3, Zenon
<1>7. \A t \in Slots : pc[t] \in Forking => child[t] \in Slots /\ child[t] # z
  BY <1>1 DEF CpuInv, ForkInv
<1>8. OwnInv'
  BY <1>1, <1>2, <1>6, <1>7 DEF OwnInv, TypeOK, Forking
<1>. QED BY <1>5, <1>8

MemInv == OwnInv /\ AllCounted

\* No step of fork(), exit() or wait(), in any interleaving, loses a page or
\* gives one to two slots, and every process that is not dead and collected has
\* its stack and its address space.
THEOREM MemoryIsConserved == Spec => []MemoryConserved
<1>1. Init => MemInv
  <2> SUFFICES ASSUME Init PROVE MemInv
    OBVIOUS
  <2>0. InitProc \in Slots /\ Pages \in Nat /\ Pages + 1 + 1 = Pages + 2
    BY NPROCAssumption, BoundsAssumption DEF Slots, InitProc
  <2>1. /\ kstack = [s \in Slots |-> s = InitProc] /\ space = [s \in Slots |-> s = InitProc]
        /\ free = Pages
    BY DEF Init
  <2>2. {s \in Slots : kstack[s]} = {InitProc} /\ {s \in Slots : space[s]} = {InitProc}
    BY <2>0, <2>1, Zenon
  <2>3. AllCounted
    BY <2>0, <2>1, <2>2, FS_Singleton DEF AllCounted, Owners
  <2>4. /\ \A s \in Slots : kstack[s] <=> s = InitProc
        /\ \A s \in Slots : space[s] <=> s = InitProc
    BY <2>1, Zenon
  <2>5. OwnInv
    BY <2>0, <2>4 DEF OwnInv, Init, States
  <2>. QED BY <2>3, <2>5 DEF MemInv
<1>2. TypeOK /\ TypeOK' /\ CpuInv /\ MemInv /\ [Next]_vars => MemInv'
  <2> SUFFICES ASSUME TypeOK, TypeOK', CpuInv, MemInv, [Next]_vars
               PROVE  PageMoves /\ OwnInv'
    BY MovesConserve DEF MemInv
  <2>0. OwnInv /\ state' \in [Slots -> States]
    BY DEF MemInv, TypeOK
  <2>1. \A s \in Slots : Executing(s) => state[s] = "RUNNING"
    <3>1. \A s \in Slots : s # None
      BY NPROCAssumption DEF Slots, None
    <3>. QED BY <3>1 DEF CpuInv, OnOneCpu, Executing
  <2> USE <2>0, <2>1
  <2>2. ASSUME NEW c \in Cpus, NEW s \in Slots, Dispatch(c, s) PROVE PageMoves /\ OwnInv'
    BY <2>2, StateSteps DEF Dispatch, TypeOK
  <2>3. ASSUME NEW s \in Slots, Exit(s) PROVE PageMoves /\ OwnInv'
    <3>1. /\ state'[s] = "ZOMBIE"
          /\ \A t \in Slots \ {s} : state'[t] # state[t] =>
               state[t] = "SLEEPING" /\ state'[t] = "RUNNABLE"
      BY <2>3, ExitEffect
    <3>2. At(s, "exit") /\ UNCHANGED <<memory, child, pc>>
      BY <2>3 DEF Exit
    <3>. QED BY <3>1, <3>2, StateSteps DEF At
  <2>4. ASSUME NEW s \in Slots, WaitSleep(s) PROVE PageMoves /\ OwnInv'
    BY <2>4, StateSteps DEF WaitSleep, At, TypeOK
  <2>5. ASSUME NEW s \in Slots, Block(s) PROVE PageMoves /\ OwnInv'
    BY <2>5, StateSteps DEF Block, At, GoTo, Forking, TypeOK
  <2>6. ASSUME NEW s \in Slots, NEW p \in KillPids, Kill(s, p) PROVE PageMoves /\ OwnInv'
    <3>1. First(KillTargets(p)) \in Slots
      BY <2>6, FirstIsMin DEF Kill, KillTargets
    <3>. QED BY <2>6, <3>1, StateSteps DEF Kill, GoTo, Forking, TypeOK
  <2>7. ASSUME NEW c \in Cpus, TimerIdle(c) PROVE PageMoves /\ OwnInv'
    BY <2>7, StateSteps DEF TimerIdle, AfterTick, Woken, TypeOK
  <2>8. ASSUME NEW c \in Cpus, TimerYield(c) PROVE PageMoves /\ OwnInv'
    <3>1. cpu[c] \in Slots /\ state[cpu[c]] = "RUNNING"
      BY <2>8 DEF TimerYield, TypeOK, CpuInv, OnOneCpu
    <3>2. \A t \in Slots : pc'[t] = pc[t] \/ pc'[t] = "trapret"
      BY <2>8 DEF TimerYield, GoTo, TypeOK
    <3>. QED BY <2>8, <3>1, <3>2, StateSteps DEF TimerYield, AfterTick, Woken, Forking, TypeOK
  <2>9. ASSUME ConsoleIntr PROVE PageMoves /\ OwnInv'
    BY <2>9, StateSteps DEF ConsoleIntr, Woken, TypeOK
  <2>10. ASSUME UNCHANGED vars PROVE PageMoves /\ OwnInv'
    BY <2>10 DEF vars, PageMoves, OwnInv, memory
  <2>11. CASE Next
    BY <2>11, NextCases, NoPageSteps, ForkPages, ReapPages, <2>2, <2>3, <2>4, <2>5, <2>6,
       <2>7, <2>8, <2>9 DEF Fork
  <2>. QED BY <2>10, <2>11
<1>3. MemInv => MemoryConserved
  BY DEF MemInv, OwnInv, AllCounted, Owners, MemoryConserved
<1>. QED
  BY <1>1, <1>2, <1>3, TypeCorrect, CpuCorrect, PTL DEF Spec
-----------------------------------------------------------------------------
\* What the tree of module ProcessTree is in this table.
Alive == {s \in Slots : state[s] \in Live}
Zombies == {s \in Slots : state[s] = "ZOMBIE"}
Par == [s \in Slots |-> IF state[s] \in {"UNUSED", "EMBRYO"} THEN None ELSE parent[s]]

\* Spawn, Die and Reap of ProcessTree, and its stuttering, in these terms.
LEMMA TreeSteps ==
  ASSUME NEW p \in Slots, NEW c \in Slots
  PROVE  /\ p \in Alive /\ c \notin Alive /\ c \notin Zombies /\ Alive' = Alive \cup {c}
              /\ Par' = [Par EXCEPT ![c] = p] /\ Zombies' = Zombies
            => Tree!Next
         /\ p \in Alive /\ p # InitProc /\ Alive' = Alive \ {p} /\ Zombies' = Zombies \cup {p}
              /\ Par' = [t \in Slots |-> IF Par[t] = p THEN InitProc ELSE Par[t]]
            => Tree!Next
         /\ p \in Alive /\ c \in Zombies /\ Par[c] = p /\ Zombies' = Zombies \ {c}
              /\ Par' = [Par EXCEPT ![c] = None] /\ Alive' = Alive
            => Tree!Next
         /\ Alive' = Alive /\ Zombies' = Zombies /\ Par' = Par => UNCHANGED Tree!tree
BY DEF Alive, Zombies, Par, Live, Tree!Next, Tree!Spawn, Tree!Die, Tree!Reap, Tree!tree

\* A step that neither creates, kills nor collects a process, and leaves the
\* parents of the processes there are, changes nothing of the tree.
LEMMA TreeStutters ==
  ASSUME TypeOK, TypeOK',
         \A t \in Slots :
           \/ state'[t] = state[t]
           \/ {state[t], state'[t]} \subseteq Live
           \/ {state[t], state'[t]} \subseteq {"UNUSED", "EMBRYO"},
         \A t \in Slots : state[t] \notin {"UNUSED", "EMBRYO"} => parent'[t] = parent[t]
  PROVE  UNCHANGED Tree!tree
<1>1. \A t \in Slots : /\ state'[t] \in Live <=> state[t] \in Live
                       /\ state'[t] = "ZOMBIE" <=> state[t] = "ZOMBIE"
                       /\ state'[t] \in {"UNUSED", "EMBRYO"} <=> state[t] \in {"UNUSED", "EMBRYO"}
  BY DEF Live
<1>2. Alive' = Alive /\ Zombies' = Zombies
  BY <1>1 DEF Alive, Zombies
<1>3. Par' = Par
  BY <1>1 DEF Par
<1>4. InitProc \in Slots
  BY NPROCAssumption DEF Slots, InitProc
<1>. QED BY <1>2, <1>3, <1>4, TreeSteps

\* The last step of fork(), exit() and wait() are the three steps of the tree.
LEMMA TreeChanges ==
  ASSUME TypeOK, TypeOK', CpuInv, TreeInv, NEW s \in Slots
  PROVE  ForkReady(s) \/ Exit(s) \/ WaitReap(s) => Tree!Next
<1>0. \A t \in Slots : t # None
  BY NPROCAssumption DEF Slots, None
<1>00. /\ state \in [Slots -> States] /\ parent \in [Slots -> Slots \cup {None}]
       /\ state' \in [Slots -> States] /\ parent' \in [Slots -> Slots \cup {None}]
  BY DEF TypeOK
<1>1. Executing(s) => s \in Alive /\ state[s] = "RUNNING"
  BY <1>0 DEF CpuInv, OnOneCpu, Executing, Alive, Live
<1>2. ASSUME ForkReady(s) PROVE Tree!Next
  <2> DEFINE c == child[s]
  <2>1. c \in Slots /\ state[c] = "EMBRYO" /\ parent[c] = s
    BY <1>2 DEF ForkReady, At, CpuInv, ForkInv, Forking, TreeInv
  <2>2. /\ Executing(s) /\ state' = [state EXCEPT ![c] = "RUNNABLE"]
        /\ parent' = parent
    BY <1>2 DEF ForkReady, At
  <2> HIDE DEF c
  <2>3. s \in Alive /\ c \notin Alive /\ c \notin Zombies
    BY <1>1, <2>1, <2>2 DEF Alive, Zombies, Live
  <2>4. Alive' = Alive \cup {c} /\ Zombies' = Zombies
    BY <1>00, <2>1, <2>2 DEF Alive, Zombies, Live
  <2>5. Par' = [Par EXCEPT ![c] = s]
    BY <1>00, <2>1, <2>2 DEF Par
  <2>. QED BY <2>1, <2>3, <2>4, <2>5, TreeSteps
<1>3. ASSUME Exit(s) PROVE Tree!Next
  <2>1. /\ state'[s] = "ZOMBIE"
        /\ \A t \in Slots \ {s} : state'[t] # state[t] =>
             state[t] = "SLEEPING" /\ state'[t] = "RUNNABLE"
    BY <1>3, ExitEffect
  <2>2. /\ s # InitProc /\ Executing(s)
        /\ \A t \in Slots : parent'[t] = IF parent[t] = s THEN InitProc ELSE parent[t]
    BY <1>3 DEF Exit, Abandoned, At
  <2>3. s \in Alive /\ state[s] = "RUNNING"
    BY <1>1, <2>2
  <2>4. Alive' = Alive \ {s} /\ Zombies' = Zombies \cup {s}
    BY <2>1, <2>3 DEF Alive, Zombies, Live
  <2>5. \A t \in Slots : state'[t] \in {"UNUSED", "EMBRYO"} <=> state[t] \in {"UNUSED", "EMBRYO"}
    BY <2>1, <2>3
  <2>6. Par' = [t \in Slots |-> IF Par[t] = s THEN InitProc ELSE Par[t]]
    BY <1>0, <2>2, <2>5 DEF Par
  <2>. QED BY <2>2, <2>3, <2>4, <2>6, TreeSteps
<1>4. ASSUME WaitReap(s) PROVE Tree!Next
  <2> DEFINE z == First(ZombieChildren(s))
  <2>1. z \in Slots /\ state[z] = "ZOMBIE" /\ parent[z] = s
    BY <1>4, ReapedIsZombie
  <2>2. /\ Executing(s) /\ state' = [state EXCEPT ![z] = "UNUSED"]
        /\ parent' = [parent EXCEPT ![z] = None]
    BY <1>4 DEF WaitReap, At
  <2> HIDE DEF z
  <2>3. s \in Alive /\ z \in Zombies /\ Par[z] = s
    BY <1>1, <2>1, <2>2 DEF Zombies, Par
  <2>4. Alive' = Alive /\ Zombies' = Zombies \ {z}
    BY <1>00, <2>1, <2>2 DEF Alive, Zombies, Live
  <2>5. Par' = [Par EXCEPT ![z] = None]
    BY <1>00, <2>1, <2>2 DEF Par
  <2>. QED BY <2>1, <2>3, <2>4, <2>5, TreeSteps
<1>. QED BY <1>2, <1>3, <1>4

\* Every other step of the kernel is invisible in the tree.
LEMMA OthersStutter ==
  ASSUME TypeOK, TypeOK', CpuInv, TreeInv, [Next]_vars,
         \A s \in Slots : ~(ForkReady(s) \/ Exit(s) \/ WaitReap(s))
  PROVE  UNCHANGED Tree!tree
<1>0. /\ \A t \in Slots : t # None
      /\ \A s \in Slots : Executing(s) => state[s] = "RUNNING"
      /\ \A s \in Slots : pc[s] \in Forking => child[s] \in Slots /\ state[child[s]] = "EMBRYO"
  <2>1. \A t \in Slots : t # None
    BY NPROCAssumption DEF Slots, None
  <2>. QED BY <2>1 DEF CpuInv, ForkInv, OnOneCpu, Executing
<1>00. state \in [Slots -> States] /\ parent \in [Slots -> Slots \cup {None}]
  BY DEF TypeOK
<1> USE <1>0, <1>00 DEF Live, At
<1>1. ASSUME NEW s \in Slots, Quiet(s) PROVE UNCHANGED Tree!tree
  BY <1>1, TreeStutters DEF Quiet
<1>2. ASSUME NEW c \in Cpus, NEW s \in Slots, Dispatch(c, s) PROVE UNCHANGED Tree!tree
  BY <1>2, TreeStutters DEF Dispatch
<1>3. ASSUME NEW s \in Slots, ForkAlloc(s) PROVE UNCHANGED Tree!tree
  <2>1. First(Unused) \in Slots /\ state[First(Unused)] = "UNUSED"
    BY <1>3, FirstIsMin DEF ForkAlloc, Unused
  <2>. QED BY <1>3, <2>1, TreeStutters DEF ForkAlloc
<1>4. ASSUME NEW s \in Slots, ForkNoKstack(s) \/ ForkNoSpace(s) PROVE UNCHANGED Tree!tree
  BY <1>4, TreeStutters DEF ForkNoKstack, ForkNoSpace, Forking
<1>5. ASSUME NEW s \in Slots, ForkCopy(s) PROVE UNCHANGED Tree!tree
  BY <1>5, TreeStutters DEF ForkCopy, Forking
<1>6. ASSUME NEW s \in Slots, WaitSleep(s) \/ Block(s) PROVE UNCHANGED Tree!tree
  BY <1>6, TreeStutters DEF WaitSleep, Block
<1>7. ASSUME NEW s \in Slots, NEW p \in KillPids, Kill(s, p) PROVE UNCHANGED Tree!tree
  <2>1. First(KillTargets(p)) \in Slots
    BY <1>7, FirstIsMin DEF Kill, KillTargets
  <2>. QED BY <1>7, <2>1, TreeStutters DEF Kill
<1>8. ASSUME NEW c \in Cpus, TimerIdle(c) PROVE UNCHANGED Tree!tree
  BY <1>8, TreeStutters DEF TimerIdle, AfterTick, Woken
<1>9. ASSUME NEW c \in Cpus, TimerYield(c) PROVE UNCHANGED Tree!tree
  <2>1. cpu[c] \in Slots /\ state[cpu[c]] = "RUNNING"
    BY <1>9 DEF TimerYield, TypeOK, CpuInv, OnOneCpu
  <2>. QED BY <1>9, <2>1, TreeStutters DEF TimerYield, AfterTick, Woken
<1>10. ASSUME ConsoleIntr PROVE UNCHANGED Tree!tree
  BY <1>10, TreeStutters DEF ConsoleIntr, Woken
<1>11. ASSUME UNCHANGED vars PROVE UNCHANGED Tree!tree
  BY <1>11, TreeStutters DEF vars
<1>. QED BY StepCases, <1>1, <1>2, <1>3, <1>4, <1>5, <1>6, <1>7, <1>8, <1>9, <1>10, <1>11

\* fork(), exit() and wait() on the table of slots implement the tree of
\* ProcessTree: user programs cannot tell the embryos, the hand-overs of the CPU,
\* the sleeps and the wakeups from nothing happening.
THEOREM ProcImplementsTree == Spec => ImplementsTree
<1>1. Init => Tree!Init
  <2> SUFFICES ASSUME Init PROVE Tree!Init
    OBVIOUS
  <2>1. InitProc \in Slots
    BY NPROCAssumption DEF Slots, InitProc
  <2>2. Alive = {InitProc} /\ Zombies = {}
    BY <2>1 DEF Init, Alive, Zombies, Live
  <2>3. Par = [p \in Slots |-> None]
    BY DEF Init, Par
  <2>. QED BY <2>2, <2>3 DEF Tree!Init, Alive, Zombies, Par, Live
<1>2. TypeOK /\ TypeOK' /\ CpuInv /\ TreeInv /\ [Next]_vars => [Tree!Next]_(Tree!tree)
  BY TreeChanges, OthersStutter
<1>. QED
  BY <1>1, <1>2, TypeCorrect, CpuCorrect, TreeCorrect, PTL DEF Spec, ImplementsTree, Tree!Spec
-----------------------------------------------------------------------------
(* The kernel of project 4 is that of project 2 *)

\* The calls in which only the caller moves, and not to a step of fork().
Moves(s) == Quiet(s) /\ \E place \in Places \ Forking : GoTo(s, place)

\* These are they.
LEMMA CallsMove ==
  ASSUME TypeOK, NEW s \in Slots,
         \/ ForkNoSlot(s) \/ ExitCall(s) \/ Fault(s) \/ ExitPanic(s)
         \/ WaitCall(s) \/ WaitFail(s) \/ ReadCall(s) \/ CheckDone(s) \/ CheckKilled(s)
         \/ CheckFail(s) \/ TrapReturn(s) \/ NoticeKilled(s) \/ GetPid(s)
         \/ \E n \in 1..MaxSleep : SysSleep(s, n)
  PROVE  Moves(s)
<1>1. \E place \in Places \ Forking : GoTo(s, place)
  BY DEF ForkNoSlot, ExitCall, Fault, ExitPanic, WaitCall, WaitFail, ReadCall, CheckDone,
         CheckKilled, CheckFail, TrapReturn, NoticeKilled, GetPid, SysSleep, Return,
         Places, Forking
<1>2. Quiet(s)
  BY QuietSteps
<1>. QED BY <1>1, <1>2 DEF Moves

\* A settickets() is to the process table a call that only looks.
LEMMA SetTicketsLooks ==
  ASSUME NEW s \in Slots, NEW n, SetTickets(s, n)
  PROVE  GetPid(s)
BY DEF SetTickets, GetPid

\* The steps of project 4 one by one.
LEMMA LotteryCases ==
  ASSUME TypeOK, [LotteryNext]_lotteryVars
  PROVE  \/ \E s \in Slots : LotteryForkKstack(s) \/ LotteryForkCopy(s) \/ LotteryWaitReap(s)
         \/ \E s \in Slots, n \in TicketChoices : SetTickets(s, n) /\ Moves(s)
         \/ /\ UNCHANGED <<inuse, tickets>>
            /\ \/ \E s \in Slots : Moves(s) \/ Dispatch(0, s)
               \/ \E s \in Slots : ForkAlloc(s) \/ ForkNoKstack(s) \/ ForkNoSpace(s) \/ ForkReady(s)
               \/ \E s \in Slots : Exit(s) \/ WaitSleep(s) \/ Block(s)
               \/ \E s \in Slots, p \in KillPids : Kill(s, p)
               \/ TimerIdle(0) \/ TimerYield(0) \/ ConsoleIntr
               \/ UNCHANGED vars
<1>1. CASE UNCHANGED lotteryVars
  BY <1>1 DEF lotteryVars
<1>2. ASSUME NEW s \in Slots, Draw(s)
      PROVE  UNCHANGED <<inuse, tickets>> /\ Dispatch(0, s)
  BY <1>2 DEF Draw
<1>3. ASSUME NEW s \in Slots, LotteryRest(s)
      PROVE  /\ UNCHANGED <<inuse, tickets>>
             /\ \/ Moves(s)
                \/ ForkNoKstack(s) \/ ForkNoSpace(s) \/ ForkReady(s)
                \/ Exit(s) \/ WaitSleep(s) \/ Block(s)
  BY <1>3, CallsMove DEF LotteryRest
<1>4. ASSUME NEW s \in Slots, LotteryUser(s)
      PROVE  \/ \E n \in TicketChoices : SetTickets(s, n) /\ Moves(s)
             \/ /\ UNCHANGED <<inuse, tickets>>
                /\ Moves(s) \/ ForkAlloc(s) \/ \E p \in KillPids : Kill(s, p)
  BY <1>4, CallsMove, SetTicketsLooks DEF LotteryUser, User
<1>5. CASE Interrupt
  BY <1>5 DEF Interrupt, TimerInterrupt
<1>. QED BY <1>1, <1>2, <1>3, <1>4, <1>5 DEF LotteryNext, LotteryKernel

\* Every behaviour of project 4's kernel is, without mypstat, one of project 2's
\* on one CPU: the theorems of ProcProofs hold of it.
THEOREM LotteryRunsProc == LotterySpec => Spec
<1>1. LotteryInit => Init
  BY DEF LotteryInit
<1>2. [LotteryNext]_lotteryVars => [Next]_vars
  <2> SUFFICES ASSUME [LotteryNext]_lotteryVars PROVE [Next]_vars
    OBVIOUS
  <2>0. 0 \in Cpus
    BY NCPUAssumption DEF Cpus
  <2>1. CASE UNCHANGED lotteryVars
    BY <2>1 DEF lotteryVars
  <2>2. ASSUME NEW s \in Slots, Draw(s) PROVE Next
    BY <2>0, <2>2 DEF Draw, Next
  <2>3. ASSUME NEW s \in Slots, LotteryKernel(s) PROVE Next
    <3>1. Kernel(s)
      BY <2>3 DEF LotteryKernel, LotteryForkKstack, LotteryForkCopy, LotteryWaitReap, LotteryRest, Kernel
    <3>. QED BY <3>1 DEF Next
  <2>4. ASSUME NEW s \in Slots, LotteryUser(s) PROVE Next
    <3>1. User(s)
      BY <2>4, SetTicketsLooks DEF LotteryUser, User
    <3>. QED BY <3>1 DEF Next
  <2>5. CASE Interrupt
    BY <2>0, <2>5 DEF Interrupt, Next
  <2>. QED BY <2>1, <2>2, <2>3, <2>4, <2>5 DEF LotteryNext
<1>. QED BY <1>1, <1>2, PTL DEF LotterySpec, Spec

-----------------------------------------------------------------------------
(* mypstat *)

\* Who can run, or is a zombie, is in the lottery with a ticket, and the child
\* of a fork() from the allocation of its stack on; copied, it has the tickets
\* of the forking process, which runs or could.
TicketInv ==
  /\ inuse \in [Slots -> BOOLEAN] /\ tickets \in [Slots -> TicketChoices \cup {0, 1}]
  /\ \A s \in Slots : inuse[s] => tickets[s] > 0
  /\ \A s \in Slots : state[s] \in Live \cup {"ZOMBIE"} => inuse[s]
  /\ \A s \in Slots : pc[s] \in Forking => state[s] \in {"RUNNABLE", "RUNNING"}
  /\ \A s \in Slots : pc[s] \in {"fork_copy", "fork_ready"} => inuse[child[s]]
  /\ \A s \in Slots : pc[s] = "fork_ready" => tickets[child[s]] = tickets[s]

\* fork(), whether it fails or not, exit(), wait() and settickets() keep mypstat
\* and the process table together.
THEOREM TicketsCorrect == LotterySpec => []TicketInv
<1>0. InitProc \in Slots /\ \A s \in Slots : s # None
  BY NPROCAssumption DEF Slots, None, InitProc
<1>1. LotteryInit => TicketInv
  <2> SUFFICES ASSUME LotteryInit PROVE TicketInv
    OBVIOUS
  <2>1. inuse \in [Slots -> BOOLEAN] /\ \A s \in Slots : inuse[s] <=> s = InitProc
    BY Zenon DEF LotteryInit
  <2>2. tickets = [s \in Slots |-> IF s = InitProc THEN 1 ELSE 0]
    BY DEF LotteryInit
  <2>3. state = [s \in Slots |-> IF s = InitProc THEN "RUNNABLE" ELSE "UNUSED"]
        /\ pc = [s \in Slots |-> "user"]
    BY DEF LotteryInit, Init
  <2>. QED BY <1>0, <2>1, <2>2, <2>3 DEF TicketInv, Live, Forking
<1>2. TypeOK /\ CpuInv /\ TicketInv /\ [LotteryNext]_lotteryVars => TicketInv'
  <2> SUFFICES ASSUME TypeOK, CpuInv, TicketInv, [LotteryNext]_lotteryVars PROVE TicketInv'
    OBVIOUS
  <2>0. /\ \A s \in Slots : Executing(s) => state[s] = "RUNNING"
        /\ \A s \in Slots : pc[s] \in Forking => child[s] \in Slots /\ state[child[s]] = "EMBRYO"
        /\ \A s, t \in Slots :
             pc[s] \in Forking /\ pc[t] \in Forking /\ child[s] = child[t] => s = t
    BY <1>0 DEF CpuInv, OnOneCpu, ForkInv, Executing
  <2>00. /\ state \in [Slots -> States]
         /\ pc \in [Slots -> Places] /\ child \in [Slots -> Slots \cup {None}]
    BY DEF TypeOK
  <2> USE <2>0, <2>00 DEF TicketInv, Live, Forking, At, GoTo, table
  <2>1. ASSUME NEW s \in Slots, LotteryForkKstack(s) PROVE TicketInv'
    <3>1. /\ pc[s] = "fork_kstack" /\ pc' = [pc EXCEPT ![s] = "fork_copy"] /\ UNCHANGED <<state, child>>
          /\ child[s] \in Slots /\ state[child[s]] = "EMBRYO" /\ state[s] = "RUNNING"
          /\ inuse' = [inuse EXCEPT ![child[s]] = TRUE]
          /\ tickets' = [tickets EXCEPT ![child[s]] = 1]
      BY <2>1 DEF LotteryForkKstack, ForkKstack
    <3>2. /\ inuse' \in [Slots -> BOOLEAN] /\ inuse'[child[s]]
          /\ \A t \in Slots \ {child[s]} : inuse'[t] = inuse[t]
      BY <3>1, Zenon
    <3>. QED BY <3>1, <3>2
  <2>2. ASSUME NEW s \in Slots, LotteryForkCopy(s) PROVE TicketInv'
    <3>1. /\ pc[s] = "fork_copy" /\ pc' = [pc EXCEPT ![s] = "fork_ready"] /\ UNCHANGED <<state, child>>
          /\ child[s] \in Slots /\ state[child[s]] = "EMBRYO" /\ state[s] = "RUNNING"
          /\ inuse' = inuse
          /\ tickets' = [tickets EXCEPT ![child[s]] = tickets[s]]
      BY <2>2 DEF LotteryForkCopy, ForkCopy
    <3>. QED BY <3>1
  <2>3. ASSUME NEW s \in Slots, LotteryWaitReap(s) PROVE TicketInv'
    <3> DEFINE z == First(ZombieChildren(s))
    <3>1. z \in Slots /\ state[z] = "ZOMBIE" /\ parent[z] = s
      BY <2>3, ReapedIsZombie DEF LotteryWaitReap
    <3>2. /\ pc[s] = "wait" /\ pc' = [pc EXCEPT ![s] = "trapret"] /\ UNCHANGED child
          /\ state' = [state EXCEPT ![z] = "UNUSED"] /\ tickets' = tickets
          /\ inuse' = [inuse EXCEPT ![z] = FALSE]
      BY <2>3 DEF LotteryWaitReap, WaitReap
    <3> HIDE DEF z
    <3>3. /\ inuse' \in [Slots -> BOOLEAN] /\ ~inuse'[z]
          /\ \A t \in Slots \ {z} : inuse'[t] = inuse[t]
      BY <3>1, <3>2, Zenon
    <3>. QED BY <3>1, <3>2, <3>3
  <2>4. ASSUME NEW s \in Slots, NEW n \in TicketChoices, SetTickets(s, n) /\ Moves(s) PROVE TicketInv'
    <3>1. /\ UNCHANGED <<state, child, inuse>> /\ pc[s] = "user" /\ state[s] = "RUNNING"
          /\ pc' = [pc EXCEPT ![s] = "trapret"] /\ tickets' = [tickets EXCEPT ![s] = n]
          /\ n \in Int /\ n > 0
      BY <2>4, LotteryAssumption DEF SetTickets, UserCall
    <3>. QED BY <3>1
  <2>5. ASSUME UNCHANGED <<inuse, tickets>>,
               \/ \E s \in Slots : Moves(s) \/ Dispatch(0, s)
               \/ \E s \in Slots : ForkAlloc(s) \/ ForkNoKstack(s) \/ ForkNoSpace(s) \/ ForkReady(s)
               \/ \E s \in Slots : Exit(s) \/ WaitSleep(s) \/ Block(s)
               \/ \E s \in Slots, p \in KillPids : Kill(s, p)
               \/ TimerIdle(0) \/ TimerYield(0) \/ ConsoleIntr
               \/ UNCHANGED vars
        PROVE  TicketInv'
    <3> USE <2>5
    <3>1. ASSUME NEW s \in Slots, Moves(s) PROVE TicketInv'
      BY <3>1 DEF Moves, Quiet
    <3>2. ASSUME NEW s \in Slots, Dispatch(0, s) PROVE TicketInv'
      BY <3>2 DEF Dispatch
    <3>3. ASSUME NEW s \in Slots, ForkAlloc(s) PROVE TicketInv'
      <4>1. First(Unused) \in Slots /\ state[First(Unused)] = "UNUSED"
        BY <3>3, FirstIsMin DEF ForkAlloc, Unused
      <4>. QED BY <3>3, <4>1 DEF ForkAlloc, UserCall
    <3>4. ASSUME NEW s \in Slots, ForkNoKstack(s) \/ ForkNoSpace(s) PROVE TicketInv'
      BY <3>4 DEF ForkNoKstack, ForkNoSpace
    <3>5. ASSUME NEW s \in Slots, ForkReady(s) PROVE TicketInv'
      BY <3>5 DEF ForkReady
    <3>6. ASSUME NEW s \in Slots, Exit(s) PROVE TicketInv'
      <4>1. /\ state'[s] = "ZOMBIE"
            /\ \A t \in Slots \ {s} : state'[t] # state[t] =>
                 state[t] = "SLEEPING" /\ state'[t] = "RUNNABLE"
        BY <3>6, ExitEffect
      <4>2. At(s, "exit") /\ UNCHANGED <<pc, child>>
        BY <3>6 DEF Exit
      <4>. QED BY <4>1, <4>2
    <3>7. ASSUME NEW s \in Slots, WaitSleep(s) \/ Block(s) PROVE TicketInv'
      BY <3>7 DEF WaitSleep, Block
    <3>8. ASSUME NEW s \in Slots, NEW p \in KillPids, Kill(s, p) PROVE TicketInv'
      <4>1. First(KillTargets(p)) \in Slots
        BY <3>8, FirstIsMin DEF Kill, KillTargets
      <4>. QED BY <3>8, <4>1 DEF Kill, UserCall
    <3>9. ASSUME TimerIdle(0) PROVE TicketInv'
      BY <3>9 DEF TimerIdle, AfterTick, Woken
    <3>10. ASSUME TimerYield(0) PROVE TicketInv'
      <4>1. 0 \in Cpus /\ cpu[0] \in Slots /\ state[cpu[0]] = "RUNNING"
        BY <3>10, NCPUAssumption DEF TimerYield, TypeOK, CpuInv, OnOneCpu, Cpus
      <4>. QED BY <3>10, <4>1 DEF TimerYield, AfterTick, Woken
    <3>11. ASSUME ConsoleIntr PROVE TicketInv'
      BY <3>11 DEF ConsoleIntr, Woken
    <3>12. ASSUME UNCHANGED vars PROVE TicketInv'
      BY <3>12 DEF vars
    <3>. QED BY <2>5, <3>1, <3>2, <3>3, <3>4, <3>5, <3>6, <3>7, <3>8, <3>9, <3>10, <3>11, <3>12
  <2>. QED BY LotteryCases, <2>1, <2>2, <2>3, <2>4, <2>5
<1>. QED BY <1>1, <1>2, LotteryRunsProc, TypeCorrect, CpuCorrect, PTL DEF LotterySpec

-----------------------------------------------------------------------------
(* The draw *)

\* Division as i386 does it on numbers that are not negative.
LEMMA Divides ==
  ASSUME NEW x \in Int, NEW d \in Nat, d > 0
  PROVE  x \div d \in Int /\ x % d \in Int /\ x = d * (x \div d) + (x % d)
OBVIOUS

\* Numbers that are not negative and fit in an int are as they are.
LEMMA NoWrap ==
  ASSUME NEW n \in Nat, n < IntHalf
  PROVE  Wrap(n) = n /\ Unsigned(n) = n
<1>1. IntHalf \in Nat /\ IntHalf > 0
  BY LotteryAssumption
<1> DEFINE d == 2 * IntHalf
<1>2. d \in Nat /\ d > 0 /\ n + IntHalf \in Nat /\ n + IntHalf < d /\ n < d
  BY <1>1
<1> HIDE DEF d
<1>3. (n + IntHalf) % d = n + IntHalf /\ n % d = n
  BY <1>2
<1>. QED BY <1>1, <1>3 DEF Wrap, Unsigned, d

\* A positive number that an int makes zero is at least all of int.
LEMMA WrapsToZero ==
  ASSUME NEW n \in Nat, n > 0, Wrap(n) = 0
  PROVE  n >= 2 * IntHalf
<1>1. IntHalf \in Nat /\ IntHalf > 0
  BY LotteryAssumption
<1> DEFINE d == 2 * IntHalf
           k == (n + IntHalf) \div d
           r == (n + IntHalf) % d
<1>2. d \in Nat /\ d > 0 /\ n + IntHalf \in Int
  BY <1>1
<1>3. k \in Int /\ r \in Int /\ n + IntHalf = d * k + r
  <2> HIDE DEF d
  <2>. QED BY <1>2, Divides
<1>4. r = IntHalf
  BY <1>1, <1>3 DEF Wrap
<1> HIDE DEF d, k, r
<1>5. n = d * k
  <2> DEFINE m == d * k
  <2>1. m \in Int
    BY <1>2, <1>3
  <2> HIDE DEF m
  <2>2. n + IntHalf = m + IntHalf
    BY <1>3, <1>4 DEF m
  <2>3. n = m
    BY <1>1, <2>1, <2>2
  <2>. QED BY <2>3 DEF m
<1>6. k >= 1
  <2>1. SUFFICES ASSUME k <= 0 PROVE FALSE
    BY <1>3
  <2>2. d * k <= 0
    BY <1>2, <1>3, <2>1
  <2>. QED BY <1>5, <2>2
<1>7. d * k >= d
  BY <1>2, <1>3, <1>6
<1>. QED BY <1>5, <1>7 DEF d

\* The slots in use up to slot s are finitely many slots of the table, with numbers
\* for tickets.
LEMMA InUseFacts ==
  ASSUME TicketInv, NEW s \in 0..NPROC
  PROVE  /\ IsFiniteSet(InUse(s)) /\ InUse(s) \subseteq Slots
         /\ \A t \in InUse(s) : tickets[t] \in Nat /\ tickets[t] \in TicketChoices \cup {0, 1}
         /\ Sold(s) \in Nat
<1>1. NPROC \in Nat /\ s \in Nat
  BY NPROCAssumption
<1>2. InUse(s) \subseteq Slots
  BY <1>1 DEF InUse, Slots
<1>3. IsFiniteSet(InUse(s))
  <2>1. IsFiniteSet(1..s)
    BY <1>1, FS_Interval
  <2>. QED BY <2>1, FS_Subset DEF InUse
<1>4. \A t \in InUse(s) : tickets[t] \in Nat /\ tickets[t] \in TicketChoices \cup {0, 1}
  <2>1. TicketChoices \subseteq Nat
    BY LotteryAssumption
  <2>2. tickets \in [Slots -> TicketChoices \cup {0, 1}]
    BY DEF TicketInv
  <2>3. \A n \in TicketChoices \cup {0, 1} : n \in Nat
    BY <2>1
  <2>4. \A t \in InUse(s) : t \in Slots
    BY <1>2
  <2>5. \A t \in InUse(s) : tickets[t] \in TicketChoices \cup {0, 1}
    BY <2>2, <2>4
  <2>. QED BY <2>3, <2>5
<1>5. Sold(s) \in Nat
  BY <1>3, <1>4, SumIsNat DEF Sold
<1>. QED BY <1>2, <1>3, <1>4, <1>5

\* The tickets up to a slot in use are its own and those of the slots before it.
LEMMA SoldUpTo ==
  ASSUME TicketInv, NEW s \in Slots, inuse[s]
  PROVE  /\ s - 1 \in 0..NPROC /\ Sold(s) = tickets[s] + Sold(s - 1)
         /\ tickets[s] > 0 /\ tickets[s] \in Nat
<1>1. NPROC \in Nat /\ s \in Nat /\ s \in 0..NPROC /\ s - 1 \in 0..NPROC /\ s \in 1..s
  BY NPROCAssumption DEF Slots
<1>2. InUse(s) = InUse(s - 1) \cup {s} /\ s \notin InUse(s - 1)
  BY <1>1 DEF InUse
<1>3. IsFiniteSet(InUse(s - 1)) /\ \A t \in InUse(s) : tickets[t] \in Int
  BY <1>1, InUseFacts
<1>4. SumFunctionOnSet(tickets, InUse(s - 1) \cup {s})
        = tickets[s] + SumFunctionOnSet(tickets, InUse(s - 1))
  BY <1>2, <1>3, SumWith
<1>5. tickets[s] \in Nat
  BY <1>1, <1>2, InUseFacts
<1>. QED BY <1>1, <1>2, <1>4, <1>5 DEF Sold, TicketInv

\* More slots have more tickets.
LEMMA SoldGrows ==
  ASSUME TicketInv, NEW s \in 0..NPROC, NEW t \in 0..NPROC, t <= s
  PROVE  Sold(t) <= Sold(s)
<1>1. InUse(t) \subseteq InUse(s)
  <2>1. NPROC \in Nat
    BY NPROCAssumption
  <2>. QED BY <2>1 DEF InUse
<1>2. IsFiniteSet(InUse(s)) /\ \A u \in InUse(s) : tickets[u] \in Nat
  BY InUseFacts
<1>. QED BY <1>1, <1>2, SumGrows DEF Sold

\* init holds a ticket.
LEMMA SomebodyHasOne ==
  ASSUME TicketInv, TreeInv
  PROVE  Sold(NPROC) > 0
<1>1. InitProc \in Slots /\ NPROC \in 0..NPROC /\ InitProc \in 0..NPROC /\ InitProc <= NPROC
      /\ NPROC \in Nat
  BY NPROCAssumption DEF Slots, InitProc
<1>2. inuse[InitProc]
  BY <1>1 DEF TreeInv, TicketInv
<1>3. Sold(InitProc) > 0
  <2>1. /\ InitProc - 1 \in 0..NPROC /\ Sold(InitProc) = tickets[InitProc] + Sold(InitProc - 1)
        /\ tickets[InitProc] > 0 /\ tickets[InitProc] \in Nat
    BY <1>1, <1>2, SoldUpTo
  <2>2. Sold(InitProc - 1) \in Nat
    BY <2>1, InUseFacts
  <2>. QED BY <2>1, <2>2
<1>4. Sold(InitProc) <= Sold(NPROC)
  BY <1>1, SoldGrows
<1>5. Sold(InitProc) \in Nat /\ Sold(NPROC) \in Nat
  BY <1>1, InUseFacts
<1>. QED BY <1>3, <1>4, <1>5

\* The divisor of rand() is zero only when the tickets overflow all of int, for
\* any number of slots and any positive tickets.
THEOREM DrawIsDefined == LotterySpec => [](LotteryTypeOK /\ ZeroOnlyOnOverflow)
<1>1. TicketInv /\ TreeInv => LotteryTypeOK /\ ZeroOnlyOnOverflow
  <2> SUFFICES ASSUME TicketInv, TreeInv PROVE LotteryTypeOK /\ ZeroOnlyOnOverflow
    OBVIOUS
  <2>1. LotteryTypeOK
    <3>1. TicketChoices \cup {0, 1} \subseteq 0..(IntHalf - 1)
      <4>1. IntHalf \in Nat /\ IntHalf > 1 /\ TicketChoices \subseteq 1..(IntHalf - 1)
        BY LotteryAssumption
      <4>. QED BY <4>1
    <3>. QED BY <3>1 DEF TicketInv, LotteryTypeOK
  <2>2. NPROC \in 0..NPROC
    BY NPROCAssumption
  <2>3. Sold(NPROC) \in Nat /\ Sold(NPROC) > 0
    BY <2>2, InUseFacts, SomebodyHasOne
  <2>4. TotalTickets = Wrap(Sold(NPROC))
    BY DEF TotalTickets, Counter
  <2>5. TotalTickets = 0 => Sold(NPROC) >= 2 * IntHalf
    BY <2>3, <2>4, WrapsToZero
  <2>. QED BY <2>1, <2>5 DEF ZeroOnlyOnOverflow, Overflown
<1>. QED BY <1>1, TicketsCorrect, LotteryRunsProc, TreeCorrect, PTL

\* A number that is too large for an int by less than its whole range is negative.
LEMMA WrapsBelow ==
  ASSUME NEW n \in Nat, n >= IntHalf, n < 2 * IntHalf
  PROVE  Wrap(n) = n - 2 * IntHalf /\ Wrap(n) < 0 /\ Unsigned(Wrap(n)) = n
<1>1. IntHalf \in Nat /\ IntHalf > 0
  BY LotteryAssumption
<1> DEFINE d == 2 * IntHalf
           m == (n + IntHalf) - d
<1>2. d \in Nat /\ d > 0 /\ m \in Nat /\ m < d /\ n + IntHalf = m + d /\ n < d
  BY <1>1
<1>3. Wrap(n) = m - IntHalf /\ Unsigned(Wrap(n)) = (m - IntHalf) % d
  <2>1. (n + IntHalf) % d = m
    <3> HIDE DEF d, m
    <3>. QED BY <1>2
  <2>. QED BY <2>1 DEF Wrap, Unsigned
<1>4. m - IntHalf = n - d
  BY <1>1
<1>5. (n - d) % d = n
  <2> HIDE DEF d, m
  <2>. QED BY <1>2
<1>. QED BY <1>1, <1>2, <1>3, <1>4, <1>5

\* As long as 2^32 tickets are not sold the divisor of rand() is their number, and
\* a counter is the number up to a slot, or negative.
LEMMA CountsAreExact ==
  ASSUME TicketInv, ~Overflown, NEW s \in 0..NPROC
  PROVE  /\ Sold(s) \in Nat /\ Unsigned(TotalTickets) = Sold(NPROC)
         /\ Sold(s) < IntHalf => Counter(s) = Sold(s)
         /\ Sold(s) >= IntHalf => Counter(s) < 0
         /\ Counter(s) \in Int /\ Counter(s) <= Sold(s)
<1>1. /\ NPROC \in 0..NPROC /\ NPROC \in Nat /\ s <= NPROC
      /\ IntHalf \in Nat /\ IntHalf > 0
  BY NPROCAssumption, LotteryAssumption
<1>2. Sold(s) \in Nat /\ Sold(NPROC) \in Nat /\ Sold(s) <= Sold(NPROC)
  BY <1>1, InUseFacts, SoldGrows
<1>3. Sold(s) < 2 * IntHalf /\ Sold(NPROC) < 2 * IntHalf
  BY <1>1, <1>2 DEF Overflown
<1>4. Unsigned(Wrap(Sold(NPROC))) = Sold(NPROC)
  <2>1. CASE Sold(NPROC) < IntHalf
    BY <1>2, <2>1, NoWrap
  <2>2. CASE Sold(NPROC) >= IntHalf
    BY <1>2, <1>3, <2>2, WrapsBelow
  <2>. QED BY <1>1, <1>2, <2>1, <2>2
<1>5. Sold(s) < IntHalf => Counter(s) = Sold(s)
  BY <1>2, NoWrap DEF Counter
<1>6. Sold(s) >= IntHalf => Counter(s) < 0 /\ Counter(s) = Sold(s) - 2 * IntHalf
  BY <1>2, <1>3, WrapsBelow DEF Counter
<1>. QED BY <1>1, <1>2, <1>4, <1>5, <1>6 DEF TotalTickets, Counter

\* The tickets sold before a slot are those up to some slot in use.
LEMMA LastBefore ==
  ASSUME TicketInv, NEW s \in Slots, Sold(s - 1) > 0
  PROVE  \E t \in 1..(s - 1) : inuse[t] /\ Sold(t) = Sold(s - 1)
<1> DEFINE E == {t \in Slots : t <= s - 1 /\ Sold(t) = Sold(s - 1)}
           m == First(E)
<1>1. NPROC \in Nat /\ s \in Nat /\ s >= 1 /\ s <= NPROC
  BY NPROCAssumption DEF Slots
<1>2. Sold(0) = 0
  <2>1. InUse(0) = {}
    BY DEF InUse
  <2>. QED BY <2>1, FS_EmptySet, SumEquation DEF Sold
<1>3. s - 1 >= 1
  BY <1>1, <1>2
<1>4. E # {} /\ E \subseteq Slots
  <2>1. s - 1 \in E
    BY <1>1, <1>3 DEF Slots
  <2>. QED BY <2>1
<1>5. m \in E /\ \A t \in E : m <= t
  <2> HIDE DEF E
  <2>. QED BY <1>4, FirstIsMin
<1> HIDE DEF m
<1>6. m \in Nat /\ m >= 1 /\ m <= NPROC /\ m \in 1..(s - 1) /\ Sold(m) = Sold(s - 1)
  BY <1>1, <1>5 DEF Slots
<1>7. inuse[m]
  <2>1. SUFFICES ASSUME ~inuse[m] PROVE FALSE
    OBVIOUS
  <2>2. InUse(m) = InUse(m - 1)
    BY <1>6, <2>1 DEF InUse
  <2>3. Sold(m - 1) = Sold(s - 1)
    BY <1>6, <2>2 DEF Sold
  <2>4. m - 1 >= 1
    BY <1>2, <1>6, <2>3
  <2>5. m - 1 \in E
    BY <1>1, <1>6, <2>3, <2>4 DEF Slots
  <2>. QED BY <1>5, <1>6, <2>5
<1>. QED BY <1>6, <1>7

\* The slot of a process that could run: its tickets are some of those sold.
LEMMA RunnableHolds ==
  ASSUME TicketInv, ~Overflown, NEW s \in Slots, state[s] = "RUNNABLE"
  PROVE  /\ inuse[s] /\ s - 1 \in 0..NPROC /\ s \in 0..NPROC /\ s \in Nat
         /\ Sold(NPROC) \in Nat /\ Sold(s) \in Nat /\ Sold(s - 1) \in Nat
         /\ Sold(s) = tickets[s] + Sold(s - 1) /\ tickets[s] > 0 /\ tickets[s] \in Nat
         /\ Sold(s) <= Sold(NPROC) /\ Unsigned(TotalTickets) = Sold(NPROC)
         /\ \A t \in 1..(s - 1) : Counter(t) \in Int /\ Counter(t) <= Sold(s - 1)
<1>1. inuse[s]
  BY DEF TicketInv, Live
<1>2. /\ s - 1 \in 0..NPROC /\ Sold(s) = tickets[s] + Sold(s - 1)
      /\ tickets[s] > 0 /\ tickets[s] \in Nat
  BY <1>1, SoldUpTo
<1>3. NPROC \in Nat /\ s \in Nat /\ s >= 1 /\ s <= NPROC /\ s \in 0..NPROC /\ NPROC \in 0..NPROC
  BY NPROCAssumption DEF Slots
<1>4. /\ Sold(NPROC) \in Nat /\ Sold(s) \in Nat /\ Sold(s - 1) \in Nat
      /\ Sold(s) <= Sold(NPROC) /\ Unsigned(TotalTickets) = Sold(NPROC)
  BY <1>2, <1>3, CountsAreExact, SoldGrows
<1>5. ASSUME NEW t \in 1..(s - 1) PROVE Counter(t) \in Int /\ Counter(t) <= Sold(s - 1)
  <2>1. t \in 0..NPROC /\ t <= s - 1
    BY <1>3
  <2>2. Counter(t) \in Int /\ Counter(t) <= Sold(t) /\ Sold(t) \in Nat
    BY <2>1, CountsAreExact
  <2>3. Sold(t) <= Sold(s - 1)
    BY <1>2, <2>1, SoldGrows
  <2>. QED BY <1>4, <2>2, <2>3
<1>. QED BY <1>1, <1>2, <1>3, <1>4, <1>5

\* If a value of rand() can reach the tickets of a process, one does: the first of
\* them, or the second when the first is 0 and 0 is not among the values.
LEMMA DrawableWins ==
  ASSUME TicketInv, ~Overflown, NEW s \in Slots, state[s] = "RUNNABLE", Drawable(s)
  PROVE  TotalTickets # 0 /\ \E r \in RandNums : Wins(s, r)
<1> DEFINE all == Sold(NPROC)
           v == Sold(s - 1)
<1>1. /\ inuse[s] /\ all \in Nat /\ v \in Nat /\ Sold(s) \in Nat /\ Sold(s) = tickets[s] + v
      /\ tickets[s] > 0 /\ tickets[s] \in Nat /\ Sold(s) <= all /\ Unsigned(TotalTickets) = all
      /\ \A t \in 1..(s - 1) : Counter(t) \in Int /\ Counter(t) <= v
  BY RunnableHolds
<1>2. /\ RandMax \in Nat /\ RandMax >= 1 /\ Counter(s) = Sold(s)
      /\ all <= RandMax \/ v \in 1..RandMax \/ (v = 0 /\ tickets[s] > 1)
  BY RunnableHolds, CountsAreExact, LotteryAssumption DEF Drawable
<1> HIDE DEF all, v
<1>3. TotalTickets # 0
  <2>1. IntHalf \in Nat /\ IntHalf > 0
    BY LotteryAssumption
  <2>2. 0 % (2 * IntHalf) = 0
    <3> DEFINE d == 2 * IntHalf
    <3>1. d \in Nat /\ d > 0
      BY <2>1
    <3> HIDE DEF d
    <3>2. 0 % d = 0
      BY <3>1
    <3>. QED BY <3>2 DEF d
  <2>3. all > 0
    BY <1>1
  <2>. QED BY <1>1, <2>2, <2>3 DEF Unsigned
<1>4. \E x \in 1..RandMax : x % all >= v /\ x % all < Sold(s)
  <2>1. CASE all <= RandMax
    <3> DEFINE x == IF v = 0 THEN all ELSE v
    <3>1. x \in 1..RandMax
      BY <1>1, <1>2, <2>1
    <3>2. v % all = v /\ all % all = 0
      BY <1>1
    <3>3. x % all = v
      BY <3>2
    <3> HIDE DEF x
    <3>. QED BY <1>1, <3>1, <3>3
  <2>2. CASE v \in 1..RandMax
    <3>1. v % all = v
      BY <1>1
    <3>. QED BY <1>1, <2>2, <3>1
  <2>3. CASE v = 0 /\ tickets[s] > 1
    <3>1. 1 % all = 1 /\ 1 \in 1..RandMax
      BY <1>1, <1>2, <2>3
    <3>. QED BY <1>1, <2>3, <3>1
  <2>. QED BY <1>2, <2>1, <2>2, <2>3
<1>5. PICK x \in 1..RandMax : x % all >= v /\ x % all < Sold(s)
  BY <1>4
<1>6. x % all \in Int /\ x % all \in RandNums
  <2>1. x % all \in Int
    BY <1>1, <1>2
  <2>. QED BY <1>1, <2>1 DEF RandNums
<1>7. Wins(s, x % all)
  <2> DEFINE r == x % all
  <2>1. r \in Int /\ r >= v /\ r < Sold(s)
    BY <1>5, <1>6
  <2> HIDE DEF r
  <2>2. \A t \in 1..(s - 1) : r >= Counter(t)
    BY <1>1, <2>1
  <2>3. Wins(s, r)
    BY <1>1, <1>2, <2>1, <2>2 DEF Wins
  <2>. QED BY <2>3 DEF r
<1>. QED BY <1>3, <1>6, <1>7

\* No other process is ever drawn.
LEMMA WinsDrawable ==
  ASSUME TicketInv, ~Overflown, NEW s \in Slots, state[s] = "RUNNABLE",
         \E r \in RandNums : Wins(s, r)
  PROVE  Drawable(s)
<1> DEFINE all == Sold(NPROC)
           v == Sold(s - 1)
<1>1. /\ inuse[s] /\ all \in Nat /\ v \in Nat /\ Sold(s) \in Nat /\ Sold(s) = tickets[s] + v
      /\ tickets[s] > 0 /\ tickets[s] \in Nat /\ Sold(s) <= all /\ Unsigned(TotalTickets) = all
      /\ s - 1 \in 0..NPROC /\ s \in 0..NPROC /\ s \in Nat
  BY RunnableHolds
<1>2. RandMax \in Nat /\ RandMax >= 1 /\ IntHalf \in Nat /\ NPROC \in Nat
  BY LotteryAssumption, NPROCAssumption
<1>3. PICK r \in RandNums : Wins(s, r)
  OBVIOUS
<1>4. PICK x \in 1..RandMax : r = x % all
  BY <1>1, <1>3 DEF RandNums
<1>5. r < Counter(s) /\ \A t \in 1..(s - 1) : inuse[t] => r >= Counter(t)
  BY <1>3 DEF Wins
<1>6. v > 0 => \E t \in 1..(s - 1) : inuse[t] /\ Sold(t) = v
  BY LastBefore
<1> HIDE DEF all, v
<1>7. r \in Nat /\ (all > RandMax => r = x)
  BY <1>1, <1>2, <1>4
<1>8. Sold(s) < IntHalf /\ Counter(s) = Sold(s)
  <2>1. /\ Sold(s) < IntHalf => Counter(s) = Sold(s)
        /\ Sold(s) >= IntHalf => Counter(s) < 0
        /\ Counter(s) \in Int
    BY <1>1, CountsAreExact
  <2>. QED BY <1>1, <1>2, <1>5, <1>7, <2>1
<1>9. all <= RandMax \/ v \in 1..RandMax \/ (v = 0 /\ tickets[s] > 1)
  <2>1. SUFFICES ASSUME all > RandMax
                 PROVE  v \in 1..RandMax \/ (v = 0 /\ tickets[s] > 1)
    BY <1>1, <1>2
  <2>2. r = x /\ x \in Nat /\ x >= 1 /\ x <= RandMax /\ r < Sold(s)
    BY <1>2, <1>5, <1>7, <1>8, <2>1
  <2>3. CASE v = 0
    BY <1>1, <2>2, <2>3
  <2>4. CASE v > 0
    <3>1. PICK t \in 1..(s - 1) : inuse[t] /\ Sold(t) = v
      BY <1>6, <2>4
    <3>2. t \in 0..NPROC /\ v < IntHalf
      BY <1>1, <1>2, <1>8, <3>1
    <3>3. Counter(t) = v
      BY <3>1, <3>2, CountsAreExact
    <3>4. r >= v
      BY <1>5, <3>1, <3>3
    <3>. QED BY <1>1, <1>2, <2>2, <2>4, <3>4
  <2>. QED BY <1>1, <2>3, <2>4
<1>. QED BY <1>8, <1>9 DEF Drawable, all, v

\* Who is left out of the draw and when the draw is defined, for any number of
\* slots, any tickets, and any ranges of rand() and int.
THEOREM WhoIsLeftOut == LotterySpec => []LotteryInv
<1>1. TicketInv => RunnableCanWin
  BY DrawableWins, WinsDrawable DEF RunnableCanWin
<1>. QED BY <1>1, TicketsCorrect, DrawIsDefined, PTL DEF LotteryInv

-----------------------------------------------------------------------------
(* Inheritance *)

\* A child becomes runnable only at the end of its fork().
LEMMA BornByFork ==
  ASSUME TypeOK, CpuInv, [LotteryNext]_lotteryVars,
         NEW t \in Slots, state[t] = "EMBRYO", state'[t] = "RUNNABLE"
  PROVE  \E s \in Slots : ForkReady(s) /\ t = child[s]
<1>0. /\ state \in [Slots -> States] /\ \A s \in Slots : s # None
      /\ \A s \in Slots : Executing(s) => state[s] = "RUNNING"
      /\ \A s \in Slots : pc[s] \in Forking => child[s] \in Slots /\ state[child[s]] = "EMBRYO"
  <2>1. \A s \in Slots : s # None
    BY NPROCAssumption DEF Slots, None
  <2>. QED BY <2>1 DEF TypeOK, CpuInv, OnOneCpu, ForkInv, Executing
<1> USE <1>0 DEF At, table
<1>1. ASSUME NEW s \in Slots, Moves(s) PROVE FALSE
  BY <1>1 DEF Moves, Quiet
<1>2. ASSUME NEW s \in Slots, Dispatch(0, s) PROVE FALSE
  BY <1>2 DEF Dispatch
<1>3. ASSUME NEW s \in Slots, LotteryForkKstack(s) \/ LotteryForkCopy(s) PROVE FALSE
  BY <1>3 DEF LotteryForkKstack, LotteryForkCopy, ForkKstack, ForkCopy
<1>4. ASSUME NEW s \in Slots, LotteryWaitReap(s) PROVE FALSE
  BY <1>4 DEF LotteryWaitReap, WaitReap
<1>5. ASSUME NEW s \in Slots, ForkAlloc(s) PROVE FALSE
  <2>1. state'[t] \in {state[t], "EMBRYO"}
    BY <1>5 DEF ForkAlloc
  <2>. QED BY <2>1
<1>6. ASSUME NEW s \in Slots, ForkNoKstack(s) \/ ForkNoSpace(s) PROVE FALSE
  <2>1. state'[t] \in {state[t], "UNUSED"}
    BY <1>6 DEF ForkNoKstack, ForkNoSpace
  <2>. QED BY <2>1
<1>7. ASSUME NEW s \in Slots, ForkReady(s) PROVE t = child[s]
  BY <1>7 DEF ForkReady
<1>8. ASSUME NEW s \in Slots, Exit(s) PROVE FALSE
  BY <1>8, ExitEffect
<1>9. ASSUME NEW s \in Slots, WaitSleep(s) \/ Block(s) PROVE FALSE
  BY <1>9 DEF WaitSleep, Block
<1>10. ASSUME NEW s \in Slots, NEW p \in KillPids, Kill(s, p) PROVE FALSE
  <2>1. First(KillTargets(p)) \in Slots
    BY <1>10, FirstIsMin DEF Kill, KillTargets
  <2>. QED BY <1>10, <2>1 DEF Kill
<1>11. ASSUME TimerIdle(0) PROVE FALSE
  BY <1>11 DEF TimerIdle, AfterTick, Woken
<1>12. ASSUME TimerYield(0) PROVE FALSE
  <2>1. 0 \in Cpus /\ cpu[0] \in Slots /\ state[cpu[0]] = "RUNNING"
    BY <1>12, NCPUAssumption DEF TimerYield, TypeOK, CpuInv, OnOneCpu, Cpus
  <2>. QED BY <1>12, <2>1 DEF TimerYield, AfterTick, Woken
<1>13. ASSUME ConsoleIntr \/ UNCHANGED vars PROVE FALSE
  BY <1>13 DEF ConsoleIntr, Woken, vars
<1>. QED BY LotteryCases, <1>1, <1>2, <1>3, <1>4, <1>5, <1>6, <1>7, <1>8, <1>9, <1>10,
            <1>11, <1>12, <1>13

\* A child enters the lottery with the tickets of its parent, whatever other
\* processes do while it is copied.
THEOREM ChildrenInherit == LotterySpec => ChildInherits
<1>1. ASSUME TypeOK, CpuInv, TreeInv, TicketInv, [LotteryNext]_lotteryVars,
             NEW t \in Slots, state[t] = "EMBRYO", state'[t] = "RUNNABLE"
      PROVE  inuse[t] /\ tickets[t] = tickets[parent[t]]
  <2>1. PICK s \in Slots : ForkReady(s) /\ t = child[s]
    BY <1>1, BornByFork
  <2>2. pc[s] = "fork_ready"
    BY <2>1 DEF ForkReady, At
  <2>. QED BY <1>1, <2>1, <2>2 DEF TicketInv, TreeInv
<1>2. TypeOK /\ CpuInv /\ TreeInv /\ TicketInv /\ [LotteryNext]_lotteryVars
        => [\A s \in Slots : state[s] = "EMBRYO" /\ state'[s] = "RUNNABLE"
              => inuse[s] /\ tickets[s] = tickets[parent[s]]]_lotteryVars
  BY <1>1
<1>. QED BY <1>2, TicketsCorrect, LotteryRunsProc, TypeCorrect, CpuCorrect, TreeCorrect, PTL
         DEF LotterySpec, ChildInherits
=============================================================================
