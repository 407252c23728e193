------------------------------- MODULE Terminal -------------------------------
(***************************************************************************)
(* What the console promises to a program: it gets the lines the user has  *)
(* submitted, as the user had edited them, every byte once and in order.   *)
(***************************************************************************)
EXTENDS Integers, Sequences

CONSTANTS Chars, Room, Users, NewLine, CtrlD

VARIABLES
  ready,   \* submitted and not yet read
  line,    \* still being edited
  taken    \* what the read() of each program has got so far

terminal == <<ready, line, taken>>

Init == ready = <<>> /\ line = <<>> /\ \A p \in Users : taken[p] = <<>>

\* A line is submitted by its last character, or by a full terminal.
Key(c) ==
  /\ Len(ready) + Len(line) < Room
  /\ IF c \in {NewLine, CtrlD} \/ Len(ready) + Len(line) + 1 = Room
       THEN ready' = ready \o Append(line, c) /\ line' = <<>>
       ELSE line' = Append(line, c) /\ UNCHANGED ready
  /\ UNCHANGED taken

Erase ==
  /\ line # <<>>
  /\ line' = SubSeq(line, 1, Len(line) - 1)
  /\ UNCHANGED <<ready, taken>>

EraseLine == line' = <<>> /\ UNCHANGED <<ready, taken>>

TakeByte(p) ==
  /\ ready # <<>> /\ Head(ready) # CtrlD
  /\ ready' = Tail(ready)
  /\ taken' = [taken EXCEPT ![p] = Append(@, Head(ready))]
  /\ UNCHANGED line

\* A read that has nothing else consumes an end of file.
TakeEof(p) ==
  /\ ready # <<>> /\ Head(ready) = CtrlD
  /\ taken[p] = <<>>
  /\ ready' = Tail(ready)
  /\ UNCHANGED <<line, taken>>

\* Elsewhere a program can only use up its buffer.
Elsewhere ==
  /\ UNCHANGED <<ready, line>>
  /\ \A p \in Users : \E k \in 1..(Len(taken[p]) + 1) :
       taken'[p] = SubSeq(taken[p], k, Len(taken[p]))

Next ==
  \/ Elsewhere
  \/ \E c \in Chars : Key(c)
  \/ Erase \/ EraseLine
  \/ \E p \in Users : TakeByte(p) \/ TakeEof(p)

Safe == Init /\ [][Next]_terminal
=============================================================================
