------------------------------- MODULE Umalloc -------------------------------
(***************************************************************************)
(* malloc() and free() of xv6's programs (umalloc.c of project 2).  An     *)
(* address counts units of a header's size; base, the block of size 0 in   *)
(* the program's data, is address 0 and lies below the heap.  The first    *)
(* malloc() makes the ring of base; it is there from the start.  sbrk() is *)
(* the one of sysproc.c and proc.c, which takes an int.                    *)
(***************************************************************************)
EXTENDS Integers

CONSTANTS
  Requests,   \* bytes that are asked for
  Header,     \* sizeof(Header), in bytes
  UINT,       \* number of values of an unsigned int
  Chunk,      \* the least that is asked of sbrk() (4096)
  Page,       \* units in a page
  Heap,       \* where the heap begins, above base
  Limit       \* where sbrk() fails: at KERNBASE, or when memory is short

VARIABLES
  ring,       \* the free blocks, each with the next (ptr) and its size
  freep,
  used,       \* the blocks in use, with their size and what was asked for
  top,        \* the end of the heap, proc->sz
  fate        \* "runs", or what a request that sbrk() had no memory for did

vars == <<ring, freep, used, top, fate>>

Init ==
  /\ ring = [b \in {0} |-> [ptr |-> 0, size |-> 0]]
  /\ freep = 0
  /\ used = [b \in {} |-> 0]
  /\ top = Heap
  /\ fate = "runs"

With(f, b, v) == [x \in DOMAIN f \cup {b} |-> IF x = b THEN v ELSE f[x]]
Without(f, b) == [x \in DOMAIN f \ {b} |-> f[x]]

-----------------------------------------------------------------------------
\* The loop of free() stops at the block after which b belongs: between two
\* blocks, or at the end of the ring.
StopsAt(r, p, b) ==
  \/ p < b /\ b < r[p].ptr
  \/ p >= r[p].ptr /\ (b > p \/ b < r[p].ptr)
Place(r, b) == CHOOSE p \in DOMAIN r : StopsAt(r, p, b)

\* b takes in the free block above it, and is taken in by the one below it.
JoinUpper_Not(r, b, n) ==
  LET next == r[Place(r, b)].ptr IN With(r, b, [ptr |-> next, size |-> n])
JoinUpper(r, b, n) ==
  LET next == r[Place(r, b)].ptr IN
  IF b + n = next
  THEN With(Without(r, next), b, [ptr |-> r[next].ptr, size |-> n + r[next].size])
  ELSE With(r, b, [ptr |-> next, size |-> n])

JoinLower(r, p, b) ==
  IF p + r[p].size = b
  THEN With(Without(r, b), p, [ptr |-> r[b].ptr, size |-> r[p].size + r[b].size])
  ELSE [r EXCEPT ![p].ptr = b]

Freed(r, b, n) == JoinLower(JoinUpper(r, b, n), Place(r, b), b)

Free(b) ==
  /\ fate = "runs"
  /\ ring' = Freed(ring, b, used[b].size)
  /\ freep' = Place(ring, b)
  /\ used' = Without(used, b)
  /\ UNCHANGED <<top, fate>>

-----------------------------------------------------------------------------
Units(nbytes) == ((nbytes + Header - 1) % UINT) \div Header + 1

\* The n-th block of the ring after f.
After(r, f) == LET at[n \in 0..Limit] == IF n = 0 THEN f ELSE r[at[n - 1]].ptr IN at

Fits(r, n) == \E b \in DOMAIN r : r[b].size >= n

\* The first block after f that fits, by the number of the block before it.
FirstFit(r, f, n) ==
  CHOOSE m \in 0..Limit : /\ r[After(r, f)[m + 1]].size >= n
                     /\ \A j \in 1..m : r[After(r, f)[j]].size < n

\* A block that fits exactly is unlinked, of another the end is cut off.
Cut(r, before, n) ==
  LET p == r[before].ptr IN
  IF r[p].size = n THEN [Without(r, p) EXCEPT ![before].ptr = r[p].ptr]
  ELSE [r EXCEPT ![p].size = r[p].size - n]

Allocate(r, f, nbytes) ==
  LET n == Units(nbytes)
      before == After(r, f)[FirstFit(r, f, n)]
      p == r[before].ptr
  IN /\ ring' = Cut(r, before, n)
     /\ freep' = before
     /\ used' = With(used, p + r[p].size - n, [size |-> n, bytes |-> nbytes])

MallocFits(nbytes) ==
  /\ fate = "runs"
  /\ Fits(ring, Units(nbytes))
  /\ Allocate(ring, freep, nbytes)
  /\ UNCHANGED <<top, fate>>

Nu(nbytes) == IF Units(nbytes) < Chunk THEN Chunk ELSE Units(nbytes)

\* What sbrk() gets for nu * sizeof(Header): a uint, passed as an int.
Asked(nu) ==
  LET bytes == (nu * Header) % UINT IN IF bytes < UINT \div 2 THEN bytes ELSE bytes - UINT

\* morecore() frees what sbrk() adds, and malloc() looks on from there.  When
\* sbrk() fails malloc() returns 0.
MallocGrows(nbytes) ==
  LET more == Nu(nbytes) IN
  /\ fate = "runs"
  /\ ~Fits(ring, Units(nbytes)) /\ Asked(more) > 0 /\ top + more <= Limit
  /\ Allocate(Freed(ring, top, more), Place(ring, top), nbytes)
  /\ top' = top + more
  /\ UNCHANGED fate

\* Of 0 or less sbrk() takes memory away, if there is that much, and succeeds.
Left(nu) == LET sz == top + (Asked(nu) \div Header) IN IF sz < 0 THEN top ELSE sz
Mapped(a, sz) == a < ((sz + Page - 1) \div Page) * Page

\* morecore() writes the header where the heap ended: with nothing mapped there
\* the program is killed,
MallocFaults(nbytes) ==
  /\ fate = "runs"
  /\ ~Fits(ring, Units(nbytes)) /\ Asked(Nu(nbytes)) <= 0
  /\ ~Mapped(top, Left(Nu(nbytes)))
  /\ fate' = "killed"
  /\ UNCHANGED <<ring, freep, used, top>>

\* and in what is left of the page malloc() gives out a block that the heap has
\* not got.  The next sbrk() gives its memory once more: the model ends here.
MallocOverruns(nbytes) ==
  LET more == Nu(nbytes) IN
  /\ fate = "runs"
  /\ ~Fits(ring, Units(nbytes)) /\ Asked(more) <= 0
  /\ Mapped(top, Left(more))
  /\ Allocate(Freed(ring, top, more), Place(ring, top), nbytes)
  /\ top' = Left(more)
  /\ fate' = "overrun"

Malloc(nbytes) ==
  \/ MallocFits(nbytes) \/ MallocGrows(nbytes) \/ MallocFaults(nbytes) \/ MallocOverruns(nbytes)

Next ==
  \/ \E nbytes \in Requests : Malloc(nbytes)
  \/ \E b \in DOMAIN used : Free(b)

Spec == Init /\ [][Next]_vars

-----------------------------------------------------------------------------
\* What the theorems assume of the constants: base has a header, the least that is
\* asked of sbrk() is an int, and a process ends below KERNBASE, which is half of
\* what a uint counts.
SizesFit ==
  /\ Header \in Nat \ {0} /\ UINT \in Nat \ {0} /\ Chunk \in Nat \ {0} /\ Page \in Nat \ {0}
  /\ Heap \in Nat \ {0} /\ Limit \in Nat /\ Heap <= Limit
  /\ UINT % Header = 0 /\ Chunk * Header < UINT \div 2 /\ Limit * Header <= UINT \div 2
  /\ Requests \subseteq Nat

Extent(b, n) == b..(b + n - 1)

TypeOK ==
  /\ freep \in DOMAIN ring /\ 0 \in DOMAIN ring
  /\ \A b \in DOMAIN ring : ring[b].ptr \in DOMAIN ring /\ ring[b].size \in 0..Limit
  /\ top \in Heap..Limit

\* The heap is the blocks in use and the free ones: none overlaps another, and
\* no unit is lost (umalloc.c:33-42 and 76-82).
HeapIsTiled ==
  LET blocks == {<<b, used[b].size>> : b \in DOMAIN used}
                  \cup {<<b, ring[b].size>> : b \in DOMAIN ring \ {0}}
  IN /\ UNION {Extent(x[1], x[2]) : x \in blocks} = Heap..(top - 1)
     /\ \A x, y \in blocks : x # y => Extent(x[1], x[2]) \cap Extent(y[1], y[2]) = {}

\* The ring goes through the free blocks in the order of their addresses, and
\* no two of them touch: what free() was given back is one block
\* (umalloc.c:30-42).
Coalesced ==
  \A b \in DOMAIN ring :
    LET next == ring[b].ptr IN
    /\ \A x \in DOMAIN ring : ~(b < x /\ (x < next \/ next <= b))
    /\ next > b => b + ring[b].size < next

\* A block holds what was asked for, unless the request wraps an unsigned int
\* (umalloc.c:69).
RoomUnlessWrapped ==
  \A b \in DOMAIN used :
    used[b].bytes <= (used[b].size - 1) * Header \/ used[b].bytes + Header - 1 >= UINT

\* From 2^31 - 15 bytes on the units that malloc() wants are no int in bytes
\* (umalloc.c:54).
TooMuch(nbytes) == Units(nbytes) * Header >= UINT \div 2

\* The allocator loses no unit, gives none out twice, leaves no two free
\* neighbours and gives each caller room; only a request for TooMuch gets a
\* block that is not in the heap, and from then on nothing of this is so.
UmallocInv ==
  /\ fate # "overrun" => TypeOK /\ HeapIsTiled /\ Coalesced /\ RoomUnlessWrapped
  /\ fate = "overrun" => \E b \in DOMAIN used : TooMuch(used[b].bytes)
=============================================================================
