------------------------------- MODULE Console -------------------------------
(***************************************************************************)
(* The line discipline of the console (project-2/src/console.c): keys      *)
(* arrive in consoleintr() under cons.lock, consoleread() takes the bytes  *)
(* of submitted lines.  input.r, w and e are unsigned counters that wrap   *)
(* around; a byte lives at its counter modulo INPUT_BUF, and its cell is    *)
(* Blank, a value of no key, once it is read or erased.                    *)
(***************************************************************************)
EXTENDS Task, FiniteSets

CONSTANTS
  INPUT_BUF,
  Letters,     \* characters other than the next two
  NewLine,
  Blank,
  Typists,     \* the programs that read from the console
  CtrlD,       \* end of file
  target       \* bytes a consoleread() asks for

ASSUME ConsoleAssumption ==
  /\ INPUT_BUF \in Nat \ {0} /\ UINT \in Nat /\ target \in Nat \ {0}
  /\ UINT % INPUT_BUF = 0 /\ UINT >= 2 * INPUT_BUF
  /\ NewLine # CtrlD /\ {NewLine, CtrlD, Blank} \cap Letters = {}

Chars == Letters \cup {NewLine, CtrlD}

VARIABLES
  buf, r, w, e,      \* struct input
  left               \* bytes a consoleread() may still take

input == <<buf, r, w, e>>
console == <<buf, r, w, e, left>>

ConsoleInit ==
  /\ buf = [i \in 0..(INPUT_BUF - 1) |-> Blank]
  /\ r = 0 /\ w = 0 /\ e = 0
  /\ left = [p \in Tasks |-> 0]

\* consoleread() keeps cons.lock from one byte to the next, and until it sleeps.
ConsLockFree == \A p \in Tasks : ~At(p, {"con_copy", "con_sleep"})

-----------------------------------------------------------------------------
(* consoleintr() *)

Submits(c) == c \in {NewLine, CtrlD} \/ Plus(e, 1) = Plus(r, INPUT_BUF)

HasRoom_NoWrap == e - r < INPUT_BUF
HasRoom == Minus(e, r) < INPUT_BUF

\* Any other key, which is dropped when the buffer is full.
TypeChar(c) ==
  /\ ConsLockFree
  /\ HasRoom
  /\ buf' = [buf EXCEPT ![e % INPUT_BUF] = c]
  /\ e' = Plus(e, 1)
  /\ IF Submits(c) THEN /\ w' = Plus(e, 1)
                        /\ pc' = Woken("con_asleep")
                   ELSE UNCHANGED <<w, pc>>
  /\ UNCHANGED <<r, left, killed, ubuf>>

DropChar == ConsLockFree /\ ~HasRoom /\ UNCHANGED <<console, task>>

\* Backspace stops where the last submitted line ends.
Backspace ==
  /\ ConsLockFree
  /\ e # w
  /\ e' = Minus(e, 1)
  /\ buf' = [buf EXCEPT ![Minus(e, 1) % INPUT_BUF] = Blank]
  /\ UNCHANGED <<r, w, left, task>>

\* ^U erases back to the last newline or submitted byte.
KillLineStops(k) == Minus(e, k) = w \/ buf[Minus(e, k + 1) % INPUT_BUF] = NewLine
KillLine ==
  /\ ConsLockFree
  /\ e # w
  /\ \E k \in 1..INPUT_BUF :
       /\ KillLineStops(k)
       /\ \A j \in 0..(k - 1) : ~KillLineStops(j)
       /\ e' = Minus(e, k)
       /\ buf' = [i \in DOMAIN buf |-> IF \E j \in 1..k : i = Minus(e, j) % INPUT_BUF
                                      THEN Blank ELSE buf[i]]
  /\ UNCHANGED <<r, w, left, task>>

-----------------------------------------------------------------------------
(* consoleread() *)

ConsoleRead(p) ==
  /\ GoTo(p, "con_read")
  /\ left' = [left EXCEPT ![p] = target]
  /\ ubuf' = [ubuf EXCEPT ![p] = <<>>]
  /\ UNCHANGED <<input, killed>>

\* Holding cons.lock, or able to take it.
InConsole(p) == pc[p] = "con_copy" \/ (pc[p] = "con_read" /\ ConsLockFree)

ConsoleWait(p) ==
  /\ InConsole(p)
  /\ r = w
  /\ GoTo(p, IF killed[p] THEN "con_failed" ELSE "con_sleep")
  /\ UNCHANGED <<console, killed, ubuf>>

\* The read takes the byte at r and ends or not.
TakeInput(p, ends) ==
  /\ r' = Plus(r, 1)
  /\ buf' = [buf EXCEPT ![r % INPUT_BUF] = Blank]
  /\ left' = [left EXCEPT ![p] = IF ends THEN 0 ELSE @ - 1]
  /\ GoTo(p, IF ends THEN "con_done" ELSE "con_copy")
  /\ UNCHANGED <<w, e, killed>>

ConsoleByte(p) ==
  /\ InConsole(p)
  /\ r # w
  /\ LET c == buf[r % INPUT_BUF] IN
       /\ c # CtrlD
       /\ ubuf' = [ubuf EXCEPT ![p] = Append(@, c)]
       /\ TakeInput(p, c = NewLine \/ left[p] = 1)

\* ^D ends the read; it is left for the next one if this one has bytes.
AtCtrlD(p) == InConsole(p) /\ r # w /\ buf[r % INPUT_BUF] = CtrlD
ConsoleEof(p) ==
  /\ AtCtrlD(p)
  /\ IF left[p] = target THEN TakeInput(p, TRUE)
     ELSE /\ left' = [left EXCEPT ![p] = 0]
          /\ GoTo(p, "con_done")
          /\ UNCHANGED <<input, killed>>
  /\ UNCHANGED ubuf

Type == (\E c \in Chars : TypeChar(c)) \/ DropChar \/ Backspace \/ KillLine
ConsoleStep(p) == ConsoleWait(p) \/ ConsoleEof(p) \/ ConsoleByte(p)

-----------------------------------------------------------------------------
ConsoleTypeOK ==
  /\ buf \in [0..(INPUT_BUF - 1) -> Chars \cup {Blank}]
  /\ {r, w, e} \subseteq 0..(UINT - 1)
  /\ left \in [Tasks -> Nat]

\* The bytes from counter i up to counter j.
Bytes(i, j) == [k \in 1..Minus(j, i) |-> buf[Plus(i, k - 1) % INPUT_BUF]]

Tty == INSTANCE Terminal WITH
  Chars <- Chars, Room <- INPUT_BUF, Users <- Typists,
  ready <- Bytes(r, w), line <- Bytes(w, e), taken <- ubuf

\* A byte that was typed and not erased is read, once, in order: editing never
\* reaches what was submitted, typing never overruns what was not read, and
\* neither does so when the counters wrap around (console.c:192-230).
TerminalSafe == Tty!Safe

\* Nobody sleeps in consoleread() while there is a submitted byte.
InputNoticed == \A p \in Tasks : pc[p] = "con_asleep" => r = w
=============================================================================
