------------------------------- MODULE Lottery -------------------------------
(***************************************************************************)
(* The lottery scheduler of project-4 (xv6-public/proc.c): the processes   *)
(* of module Proc on one CPU (Makefile, CPUS := 1), with the table mypstat *)
(* and a scheduler() that draws a ticket.  Each action of Proc is taken    *)
(* with what project 4 added to it; only CPU 0 schedules, whatever NCPU.   *)
(*                                                                         *)
(* On one CPU nothing runs between scheduler()'s unlocked count of the     *)
(* tickets, its rand() and its scan, except interrupt handlers, which do   *)
(* not touch mypstat: a draw is one action.  A draw that hits a process    *)
(* which is not RUNNABLE changes nothing and is repeated.                  *)
(***************************************************************************)
EXTENDS Proc, Functions

CONSTANTS
  TicketChoices,  \* the arguments of settickets(), all positive
  RandMax,        \* rand() returns 1..RandMax (65535)
  IntHalf         \* int is -IntHalf..IntHalf-1 (2^31)

ASSUME LotteryAssumption ==
  /\ IntHalf \in Nat \ {0, 1} /\ RandMax \in 1..(IntHalf - 1)
  /\ TicketChoices \subseteq 1..(IntHalf - 1)

VARIABLES
  inuse, tickets    \* mypstat, per slot

lotteryVars == <<vars, inuse, tickets>>

\* userinit() allocates init's entry through allocproc().
LotteryInit ==
  /\ Init
  /\ inuse = [s \in Slots |-> s = InitProc]
  /\ tickets = [s \in Slots |-> IF s = InitProc THEN 1 ELSE 0]

-----------------------------------------------------------------------------
(* scheduler() *)

\* int arithmetic as i386 does it, and the conversion to unsigned of `%'.
Wrap(n) == ((n + IntHalf) % (2 * IntHalf)) - IntHalf
Unsigned(n) == n % (2 * IntHalf)

\* The loops skip slots that are not in use, and add up in an int.
InUse(s) == {t \in 1..s : inuse[t]}
Sold(s) == SumFunctionOnSet(tickets, InUse(s))
Counter(s) == Wrap(Sold(s))
TotalTickets == Counter(NPROC)

\* What rand() can leave of the division by total_tickets.
RandNums == {x % Unsigned(TotalTickets) : x \in 1..RandMax}

Wins_OffByOne(s, rand_num) ==
  /\ inuse[s] /\ rand_num <= Counter(s)
  /\ \A t \in 1..(s - 1) : inuse[t] => rand_num > Counter(t)
\* The slot where the scan stops for rand_num.
Wins(s, rand_num) ==
  /\ inuse[s] /\ rand_num < Counter(s)
  /\ \A t \in 1..(s - 1) : inuse[t] => rand_num >= Counter(t)

\* Without a ticket the division by TotalTickets stops the machine.
Draw(s) ==
  /\ cpu[0] = None
  /\ TotalTickets # 0
  /\ Dispatch(0, s)
  /\ \E rand_num \in RandNums : Wins(s, rand_num)
  /\ UNCHANGED <<inuse, tickets>>

-----------------------------------------------------------------------------
(* What fork(), wait() and settickets() do to mypstat *)

LotteryForkKstack_NotInUse(s) ==
  /\ ForkKstack(s)
  /\ tickets' = [tickets EXCEPT ![child[s]] = 1]
  /\ UNCHANGED inuse
\* allocproc(), once it has the kernel stack.
LotteryForkKstack(s) ==
  /\ ForkKstack(s)
  /\ inuse' = [inuse EXCEPT ![child[s]] = TRUE]
  /\ tickets' = [tickets EXCEPT ![child[s]] = 1]

\* The child starts with its parent's tickets.
LotteryForkCopy(s) ==
  /\ ForkCopy(s)
  /\ tickets' = [tickets EXCEPT ![child[s]] = tickets[s]]
  /\ UNCHANGED inuse

LotteryWaitReap(s) ==
  /\ WaitReap(s)
  /\ inuse' = [inuse EXCEPT ![First(ZombieChildren(s))] = FALSE]
  /\ UNCHANGED tickets

SetTickets(s, num) ==
  /\ UserCall(s)
  /\ state[s] = "RUNNING"
  /\ tickets' = [tickets EXCEPT ![s] = num]
  /\ GoTo(s, "trapret")
  /\ UNCHANGED <<table, memory, nextpid, cpu, child, waits, inuse>>

\* Everything else, the failing fork() included, leaves mypstat alone.
LotteryRest(s) ==
  /\ \/ ForkNoKstack(s) \/ ForkNoSpace(s) \/ ForkReady(s)
     \/ Exit(s) \/ ExitPanic(s) \/ WaitFail(s) \/ WaitSleep(s)
     \/ CheckDone(s) \/ CheckKilled(s) \/ CheckFail(s) \/ Block(s)
     \/ TrapReturn(s) \/ NoticeKilled(s)
  /\ UNCHANGED <<inuse, tickets>>

LotteryKernel(s) ==
  LotteryForkKstack(s) \/ LotteryForkCopy(s) \/ LotteryWaitReap(s) \/ LotteryRest(s)

LotteryUser(s) ==
  \/ User(s) /\ UNCHANGED <<inuse, tickets>>
  \/ s # InitProc /\ \E n \in TicketChoices : SetTickets(s, n)

Interrupt == /\ TimerInterrupt(0) \/ ConsoleIntr
             /\ UNCHANGED <<inuse, tickets>>

LotteryNext ==
  \/ \E s \in Slots : Draw(s) \/ LotteryKernel(s) \/ LotteryUser(s)
  \/ Interrupt

LotterySpec == LotteryInit /\ [][LotteryNext]_lotteryVars

\* A slot that rand() can select at infinitely many draws is selected, the CPU
\* runs kernel code on and the timer interrupts it.
LotteryFairSpec ==
  /\ LotterySpec
  /\ \A s \in Slots : SF_lotteryVars(Draw(s))
  /\ WF_lotteryVars(\E s \in Slots : LotteryKernel(s))
  /\ SF_lotteryVars(TimerInterrupt(0) /\ UNCHANGED <<inuse, tickets>>)

-----------------------------------------------------------------------------
LotteryTypeOK ==
  /\ inuse \in [Slots -> BOOLEAN]
  /\ tickets \in [Slots -> 0..(IntHalf - 1)]
  /\ \A s \in Slots : inuse[s] => tickets[s] > 0

\* Whether a value of rand() finds slot s while 2^32 tickets are not sold: it has
\* as many values as there are tickets, or it reaches those of s, which begin
\* after the ones of the slots before (0 is not a value), and no counter has
\* turned negative at s.
Drawable(s) ==
  /\ Sold(s) < IntHalf
  /\ \/ Sold(NPROC) <= RandMax
     \/ Sold(s - 1) \in 1..RandMax
     \/ Sold(s - 1) = 0 /\ tickets[s] > 1
Overflown == Sold(NPROC) >= 2 * IntHalf

\* A process that could run is left out of the draw, whatever rand() returns,
\* exactly when rand() does not reach its tickets or an int does not count them.
RunnableCanWin ==
  ~Overflown => \A s \in Slots : state[s] = "RUNNABLE" =>
    (Drawable(s) <=> TotalTickets # 0 /\ \E rand_num \in RandNums : Wins(s, rand_num))

\* The count of the tickets, the divisor of scheduler()'s rand(), is zero only
\* when it has overflowed all of int: somebody always holds a ticket.
ZeroOnlyOnOverflow ==
  TotalTickets = 0 => Overflown

\* A child enters the lottery with the tickets of its parent.
ChildInherits ==
  [][\A s \in Slots : state[s] = "EMBRYO" /\ state'[s] = "RUNNABLE"
       => inuse[s] /\ tickets[s] = tickets[parent[s]]]_lotteryVars

\* A process that could run is run, whatever tickets the others hold, unless from
\* some time on no draw can find it.
NoStarvation ==
  \A s \in Slots : state[s] = "RUNNABLE" ~>
    (state[s] = "RUNNING" \/ [](cpu[0] = None => ~Drawable(s) \/ Overflown))

\* Who can be drawn and when the draw is defined, through every fork that fails
\* half way, exit and settickets(), with numbers of tickets beyond the range of
\* rand() and of int.
LotteryInv == LotteryTypeOK /\ RunnableCanWin /\ ZeroOnlyOnOverflow

\* Every process has its part in the lottery: the tickets of its parent when it
\* starts, and the CPU in the end if it can be drawn.
LotteryShares == ChildInherits /\ NoStarvation
=============================================================================
