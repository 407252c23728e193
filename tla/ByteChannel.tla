----------------------------- MODULE ByteChannel -----------------------------
(***************************************************************************)
(* What a pipe promises: a bounded channel that takes bytes from the front *)
(* of a writer's buffer and gives them to a reader in the same order.      *)
(***************************************************************************)
EXTENDS Integers, Sequences

CONSTANTS Room, Writers, Readers

VARIABLES
  chan,    \* bytes on their way
  hold     \* the buffer of each process

channel == <<chan, hold>>

Init == chan = <<>>

Upto(s, k) == SubSeq(s, 1, k)
From(s, k) == SubSeq(s, k + 1, Len(s))

Send(p) == \E k \in 1..Len(hold[p]) :
  /\ Len(chan) + k <= Room
  /\ chan' = chan \o Upto(hold[p], k)
  /\ hold' = [hold EXCEPT ![p] = From(@, k)]

Receive(q) == \E k \in 1..Len(chan) :
  /\ hold' = [hold EXCEPT ![q] = Upto(chan, k)]
  /\ chan' = From(chan, k)

\* A writer fills its buffer with what it likes, a reader empties its own.
Produce(p) == hold' = [hold EXCEPT ![p] = hold'[p]] /\ UNCHANGED chan
Consume(q) == hold' = [hold EXCEPT ![q] = <<>>] /\ UNCHANGED chan

Next ==
  \/ \E p \in Writers : Produce(p) \/ Send(p)
  \/ \E q \in Readers : Consume(q) \/ Receive(q)

Safe == Init /\ [][Next]_channel
=============================================================================
