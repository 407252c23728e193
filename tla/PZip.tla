-------------------------------- MODULE PZip --------------------------------
(***************************************************************************)
(* The producer, the consumers and main of project-6/part-3's              *)
(* pzip-dynamic.c: one thread queues the pages of the files, one consumer  *)
(* per processor compresses them, and main prints the results in order.    *)
(*                                                                         *)
(* A critical section of `lock' is one action, except that a consumer      *)
(* which found the queue empty keeps the lock until pthread_cond_wait()    *)
(* has made it a waiter: isComp is set, and fill broadcast, without it.    *)
(* A page is <<file, page>>; its compressed data stands for itself.        *)
(***************************************************************************)
EXTENDS Integers, Sequences, FiniteSets, Functions

CONSTANTS
  Consumers,    \* num_thread consumer threads
  q_capacity,
  PagesIn,      \* pages_in_file of each argument, 0 for an empty file
  Unset         \* what malloc() may leave in an entry of pagePerFile

ASSUME PZipAssumption ==
  /\ Consumers # {} /\ IsFiniteSet(Consumers)
  /\ q_capacity \in Nat \ {0}
  /\ PagesIn \in Seq(Nat)
  /\ Unset \subseteq Int /\ Unset # {}

Files == DOMAIN PagesIn
AllPages == UNION {{f} \X (0..(PagesIn[f] - 1)) : f \in Files}
NoPage == <<0, 0>>
Indices == 0..(q_capacity - 1)
Nobody == "nobody"

VARIABLES
  lock,                          \* the consumer about to wait, or Nobody
  buf, q_head, q_tail, q_size,   \* the circular queue
  isComp,
  pagePerFile, total_pages,
  ppc, file, page,               \* producer: where it is, i and j
  cpc, item,                     \* consumers: where they are, temp
  out,                           \* what was written to out[], and where
  printed                        \* main has passed the joins and printed

queue == <<buf, q_head, q_tail, q_size>>
files == <<pagePerFile, total_pages>>
vars == <<lock, buf, q_head, q_tail, q_size, isComp, pagePerFile, total_pages,
          ppc, file, page, cpc, item, out, printed>>

Init ==
  /\ lock = Nobody
  /\ buf = [i \in Indices |-> NoPage]
  /\ q_head = 0 /\ q_tail = 0 /\ q_size = 0
  /\ isComp = FALSE
  /\ pagePerFile \in [Files -> Unset]
  /\ total_pages = 0
  /\ ppc = "open" /\ file = 1 /\ page = 0
  /\ cpc = [c \in Consumers |-> "test"]
  /\ item = [c \in Consumers |-> NoPage]
  /\ out = {}
  /\ printed = FALSE

-----------------------------------------------------------------------------
(* pthread_cond_signal and _broadcast on fill and empty *)

Asleep == {c \in Consumers : cpc[c] = "asleep"}
Wake(S) == [c \in Consumers |-> IF c \in S THEN "test" ELSE cpc[c]]
WakeProducer_Lost == ppc' = ppc
WakeProducer == ppc' = IF ppc = "waiting" THEN "room" ELSE ppc

-----------------------------------------------------------------------------
(* producer() *)

\* An empty file is skipped before its pagePerFile entry is written.
OpenFile ==
  /\ ppc = "open"
  /\ file \in Files
  /\ IF PagesIn[file] = 0
     THEN /\ file' = file + 1
          /\ UNCHANGED <<files, ppc, page>>
     ELSE /\ pagePerFile' = [pagePerFile EXCEPT ![file] = PagesIn[file]]
          /\ total_pages' = total_pages + PagesIn[file]
          /\ page' = 0
          /\ ppc' = "room"
          /\ UNCHANGED file
  /\ UNCHANGED <<lock, queue, isComp, cpc, item, out, printed>>

\* while(q_size==q_capacity): wake the consumers and wait on empty.
WaitForRoom ==
  /\ ppc = "room" /\ lock = Nobody
  /\ q_size = q_capacity
  /\ cpc' = Wake(Asleep)
  /\ ppc' = "waiting"
  /\ UNCHANGED <<lock, queue, isComp, files, file, page, item, out, printed>>

FoundRoom ==
  /\ ppc = "room" /\ lock = Nobody
  /\ q_size # q_capacity
  /\ ppc' = "put"
  /\ UNCHANGED <<lock, queue, isComp, files, file, page, cpc, item, out, printed>>

Put ==
  /\ ppc = "put" /\ lock = Nobody
  /\ buf' = [buf EXCEPT ![q_head] = <<file, page>>]
  /\ q_head' = (q_head + 1) % q_capacity
  /\ q_size' = q_size + 1
  /\ ppc' = "signal"
  /\ UNCHANGED <<lock, q_tail, isComp, files, file, page, cpc, item, out, printed>>

\* pthread_cond_signal(&fill) after the unlock, then the next page or file.
SignalFill ==
  /\ ppc = "signal"
  /\ IF Asleep = {} THEN cpc' = cpc ELSE \E c \in Asleep : cpc' = Wake({c})
  /\ IF page + 1 < PagesIn[file]
     THEN page' = page + 1 /\ ppc' = "room" /\ file' = file
     ELSE page' = 0 /\ ppc' = "open" /\ file' = file + 1
  /\ UNCHANGED <<lock, queue, isComp, files, item, out, printed>>

\* isComp=1, without the lock.
Finish ==
  /\ ppc = "open"
  /\ file \notin Files
  /\ isComp' = TRUE
  /\ ppc' = "broadcast"
  /\ UNCHANGED <<lock, queue, files, file, page, cpc, item, out, printed>>

BroadcastFill ==
  /\ ppc = "broadcast"
  /\ cpc' = Wake(Asleep)
  /\ ppc' = "done"
  /\ UNCHANGED <<lock, queue, isComp, files, file, page, item, out, printed>>

Producer ==
  \/ OpenFile \/ WaitForRoom \/ FoundRoom \/ Put \/ SignalFill \/ Finish \/ BroadcastFill

-----------------------------------------------------------------------------
(* consumer() *)

At(c, place) == cpc[c] = place
GoTo(c, place) == cpc' = [cpc EXCEPT ![c] = place]

\* The loop condition held: signal empty, and go on to pthread_cond_wait.
FindEmpty(c) ==
  /\ At(c, "test") /\ lock = Nobody
  /\ q_size = 0 /\ ~isComp
  /\ lock' = c
  /\ WakeProducer
  /\ GoTo(c, "wait")
  /\ UNCHANGED <<queue, isComp, files, file, page, item, out, printed>>

CondWait(c) ==
  /\ At(c, "wait")
  /\ lock' = Nobody
  /\ GoTo(c, "asleep")
  /\ UNCHANGED <<queue, isComp, files, ppc, file, page, item, out, printed>>

Leave(c) ==
  /\ At(c, "test") /\ lock = Nobody
  /\ q_size = 0 /\ isComp
  /\ GoTo(c, "done")
  /\ UNCHANGED <<lock, queue, isComp, files, ppc, file, page, item, out, printed>>

Get_TailKept(c) ==
  /\ At(c, "test") /\ lock = Nobody
  /\ q_size # 0
  /\ item' = [item EXCEPT ![c] = buf[q_tail]]
  /\ q_size' = q_size - 1
  /\ IF isComp THEN ppc' = ppc ELSE WakeProducer
  /\ GoTo(c, "compress")
  /\ UNCHANGED <<lock, buf, q_head, q_tail, isComp, files, file, page, out, printed>>
Get(c) ==
  /\ At(c, "test") /\ lock = Nobody
  /\ q_size # 0
  /\ item' = [item EXCEPT ![c] = buf[q_tail]]
  /\ q_tail' = (q_tail + 1) % q_capacity
  /\ q_size' = q_size - 1
  /\ IF isComp THEN ppc' = ppc ELSE WakeProducer
  /\ GoTo(c, "compress")
  /\ UNCHANGED <<lock, buf, q_head, isComp, files, file, page, out, printed>>

\* calculateOutputPosition(): the entries of the earlier files, those of empty
\* ones too, and page_number.
Position(pg) == SumFunctionOnSet(pagePerFile, 1..(pg[1] - 1)) + pg[2]

\* Of two pages written to the same entry the later stays; out keeps both.
Compress(c) ==
  /\ At(c, "compress")
  /\ out' = out \cup {<<Position(item[c]), item[c]>>}
  /\ item' = [item EXCEPT ![c] = NoPage]
  /\ GoTo(c, "loop")
  /\ UNCHANGED <<lock, queue, isComp, files, ppc, file, page, printed>>

\* while(!(isComp==1 && q_size==0)), without the lock.
LoopTest(c) ==
  /\ At(c, "loop")
  /\ GoTo(c, IF isComp /\ q_size = 0 THEN "done" ELSE "test")
  /\ UNCHANGED <<lock, queue, isComp, files, ppc, file, page, item, out, printed>>

\* POSIX lets a waiter return without a signal.
SpuriousWakeup(c) ==
  /\ At(c, "asleep")
  /\ GoTo(c, "test")
  /\ UNCHANGED <<lock, queue, isComp, files, ppc, file, page, item, out, printed>>

Consumer(c) ==
  \/ FindEmpty(c) \/ CondWait(c) \/ Leave(c) \/ Get(c) \/ Compress(c) \/ LoopTest(c)

PrintOutput_NoJoin ==
  /\ ~printed
  /\ ppc = "done"
  /\ printed' = TRUE
  /\ UNCHANGED <<lock, queue, isComp, files, ppc, file, page, cpc, item, out>>
\* main(): join every thread, then printOutput().
PrintOutput ==
  /\ ~printed
  /\ ppc = "done" /\ \A c \in Consumers : cpc[c] = "done"
  /\ printed' = TRUE
  /\ UNCHANGED <<lock, queue, isComp, files, ppc, file, page, cpc, item, out>>

Next ==
  \/ Producer
  \/ \E c \in Consumers : Consumer(c) \/ SpuriousWakeup(c)
  \/ PrintOutput

Spec == Init /\ [][Next]_vars

\* Every thread that can run is run, and gets the mutex in the end.
FairSpec ==
  /\ Spec
  /\ SF_vars(Producer)
  /\ \A c \in Consumers : SF_vars(Consumer(c))
  /\ WF_vars(PrintOutput)

-----------------------------------------------------------------------------
TypeOK ==
  /\ lock \in Consumers \cup {Nobody}
  /\ buf \in [Indices -> AllPages \cup {NoPage}]
  /\ q_head \in Indices /\ q_tail \in Indices
  /\ q_size \in 0..q_capacity
  /\ isComp \in BOOLEAN /\ printed \in BOOLEAN
  /\ pagePerFile \in [Files -> Int] /\ total_pages \in Nat
  /\ ppc \in {"open", "room", "waiting", "put", "signal", "broadcast", "done"}
  /\ file \in Nat /\ page \in Nat
  /\ cpc \in [Consumers -> {"test", "wait", "asleep", "compress", "loop", "done"}]
  /\ item \in [Consumers -> AllPages \cup {NoPage}]
  /\ out \subseteq (Int \X AllPages)

\* The pages the producer has put so far: those before its current one, and
\* that one when it is about to signal.
Before(p, q) == p[1] < q[1] \/ (p[1] = q[1] /\ p[2] < q[2])
Queued == {pg \in AllPages : \/ Before(pg, <<file, page>>)
                             \/ pg = <<file, page>> /\ ppc = "signal"}
InQueue == {buf[(q_tail + i) % q_capacity] : i \in 0..(q_size - 1)}
Held == {item[c] : c \in Consumers} \ {NoPage}
Placed == {e[2] : e \in out}

\* Every page put is in the queue, with one consumer, or compressed, and in
\* only one of these: the queue overwrites none and hands none out twice.
PagesAccounted ==
  /\ Queued = InQueue \cup Held \cup Placed
  /\ Cardinality(Queued) = q_size + Cardinality(Held) + Cardinality(Placed)
  /\ \A c, d \in Consumers : item[c] = item[d] /\ item[c] # NoPage => c = d

\* The pages before one, and what stands in the entries of the empty files
\* before its own: those are never written, and added up all the same.
RightPosition(pg) == Cardinality({q \in AllPages : Before(q, pg)})
EmptyBefore(pg) == {f \in 1..(pg[1] - 1) : PagesIn[f] = 0}
Stray(pg) == SumFunctionOnSet(pagePerFile, EmptyBefore(pg))

\* Whatever the order in which consumers finish, a page's place is the number of
\* pages before it, off by what malloc() left for the empty files before it
\* (pzip-dynamic.c:101, 166-168, 247-249): the entries of the others are written.
PagesInPlace == \A e \in out : e[1] = RightPosition(e[2]) + Stray(e[2])

\* main prints, and every page is there: each at its place in the concatenated
\* files if malloc() left nothing in the entries of empty files that pages follow
\* (pzip-dynamic.c:166-168), and else out of order.
PrintsAllInOrder ==
  printed =>
    /\ total_pages = Cardinality(AllPages) /\ Placed = AllPages
    /\ out = {<<RightPosition(pg), pg>> : pg \in AllPages}
         <=> \A pg \in AllPages : Stray(pg) = 0

\* Neither the producer waiting for room nor the consumers waiting for pages
\* miss the signal that matters: all pages are compressed in the end.
AllCompressed == <>(ppc = "done" /\ Placed = AllPages)

\* The sleeping threads are woken at the end of the program, so that main's
\* joins return (pzip-dynamic.c:31-32, 113).
Terminates == <>printed

\* Every page is in one place, and lands where the entries of pagePerFile say.
PZipInv == TypeOK /\ PagesAccounted /\ PagesInPlace
=============================================================================
