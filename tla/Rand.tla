-------------------------------- MODULE Rand --------------------------------
(***************************************************************************)
(* rand() of project-4/xv6-public/proc.c, a 16-bit linear feedback shift   *)
(* register, and the scheduler's use of it, rand() % total_tickets.        *)
(***************************************************************************)
EXTENDS Integers

CONSTANT total_tickets   \* positive

VARIABLES
  lfsr, rand_num,
  draws               \* history: calls of rand(), modulo 2^16 - 1

vars == <<lfsr, rand_num, draws>>

Bit(x, i) == (x \div 2^i) % 2

\* bit = the exclusive or of taps 0, 2, 3 and 5, shifted in at the top of an
\* unsigned short.
Feedback_TwoTaps(x) == (Bit(x, 0) + Bit(x, 2)) % 2
Feedback(x) == (Bit(x, 0) + Bit(x, 2) + Bit(x, 3) + Bit(x, 5)) % 2
Shift(x) == (x \div 2 + Feedback(x) * 2^15) % 2^16

Seed == 44257              \* 0xACE1

Init == lfsr = Seed /\ rand_num = 0 /\ draws = 0

Draw ==
  /\ lfsr' = Shift(lfsr)
  /\ rand_num' = lfsr' % total_tickets
  /\ draws' = (draws + 1) % (2^16 - 1)

Next == Draw
Spec == Init /\ [][Next]_vars

-----------------------------------------------------------------------------
TypeOK ==
  /\ lfsr \in 0..(2^16 - 1)
  /\ rand_num \in 0..(total_tickets - 1)
  /\ draws \in 0..(2^16 - 2)

\* The register never reaches 0, where it would stay, and its period is the
\* longest possible: 2^16 - 1 draws, every other value (proc.c:344-349).
FullPeriod == lfsr = Seed <=> draws = 0

\* rand() stays in its range and goes through every value but 0.
RandInv == TypeOK /\ FullPeriod
=============================================================================
