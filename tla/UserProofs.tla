----------------------------- MODULE UserProofs -----------------------------
(***************************************************************************)
(* Theorems about three user programs.                                     *)
(*                                                                         *)
(* PZip, for any number of consumers, any capacity of the queue, any files *)
(* and anything that malloc() leaves: the queue loses no page and hands    *)
(* out none twice, every page's result is off its place among the files by *)
(* what malloc() left for the empty ones before it, and main prints all in *)
(* order exactly if that is nothing.  The files and their pages; the       *)
(* indices of the circular queue; the inductive invariant; one lemma per   *)
(* step; the theorems.                                                     *)
(*                                                                         *)
(* Wish, for any lines of commands and any installed programs: the shell   *)
(* leaves no child behind and searches at most one stale directory.        *)
(*                                                                         *)
(* Umalloc, for any requests, sizes of a header, of an unsigned int and of *)
(* what sbrk() is asked for, and any heap: the blocks tile the heap.  What *)
(* the steps of free() and malloc() do to the ring; that the walk around   *)
(* the ring reaches every block; the invariant; the theorem.               *)
(***************************************************************************)
EXTENDS PZip, SumProofs, FiniteSetTheorems, TLAPS

CONSTANTS
  NULL, Bin, Lines, Installed, MaxChildren, MaxDirs,  \* of Wish
  Requests, Header, UINT, Chunk, Page, Heap, Limit    \* of Umalloc

VARIABLES
  line, at, program, forked, paths, named,  \* of Wish, whose i is forked here
  ring, freep, used, top, fate              \* of Umalloc

Wish == INSTANCE Wish WITH i <- forked
Umalloc == INSTANCE Umalloc

-----------------------------------------------------------------------------
(* pzip: files and pages *)

\* The arguments are numbered from 1, and have finitely many pages.
LEMMA FilesFacts ==
  /\ Len(PagesIn) \in Nat /\ Files = 1..Len(PagesIn) /\ IsFiniteSet(Files)
  /\ \A f \in Files : PagesIn[f] \in Nat /\ f \in Nat
<1>1. PagesIn \in Seq(Nat)
  BY PZipAssumption
<1>2. Len(PagesIn) \in Nat /\ Files = 1..Len(PagesIn) /\ \A f \in Files : PagesIn[f] \in Nat
  BY <1>1 DEF Files
<1>3. IsFiniteSet(1..Len(PagesIn))
  BY <1>2, FS_Interval
<1>. QED BY <1>2, <1>3

\* A page is a file and a number below its pages.
LEMMA PageShape ==
  /\ \A pg \in AllPages : /\ pg = <<pg[1], pg[2]>> /\ pg[1] \in Files
                          /\ pg[2] \in Nat /\ pg[2] < PagesIn[pg[1]]
  /\ \A f \in Files, i \in Nat : <<f, i>> \in AllPages <=> i < PagesIn[f]
  /\ NoPage \notin AllPages
<1>1. \A pg : pg \in AllPages <=> \E f \in Files : \E i \in 0..(PagesIn[f] - 1) : pg = <<f, i>>
  BY DEF AllPages
<1>2. \A f \in Files : PagesIn[f] \in Nat
  BY FilesFacts
<1>3. \A f \in Files, i \in Nat : <<f, i>> \in AllPages <=> i < PagesIn[f]
  BY <1>1, <1>2
<1>4. ASSUME NEW pg \in AllPages
      PROVE  pg = <<pg[1], pg[2]>> /\ pg[1] \in Files /\ pg[2] \in Nat /\ pg[2] < PagesIn[pg[1]]
  <2>1. PICK f \in Files : \E i \in 0..(PagesIn[f] - 1) : pg = <<f, i>>
    BY <1>1, <1>4
  <2>. QED BY <1>2, <2>1
<1>5. NoPage \notin AllPages
  <2>1. SUFFICES ASSUME NoPage \in AllPages PROVE FALSE
    OBVIOUS
  <2>2. NoPage[1] \in Files
    BY <1>4, <2>1
  <2>. QED BY <2>2, FilesFacts DEF NoPage
<1>. QED BY <1>3, <1>4, <1>5

\* Sets without a common element count together.
LEMMA DisjointUnion ==
  ASSUME NEW S, IsFiniteSet(S), NEW T, IsFiniteSet(T), S \cap T = {}
  PROVE  /\ IsFiniteSet(S \cup T) /\ Cardinality(S) \in Nat /\ Cardinality(T) \in Nat
         /\ Cardinality(S \cup T) = Cardinality(S) + Cardinality(T)
<1>1. Cardinality(S) \in Nat /\ Cardinality(T) \in Nat
  BY FS_CardinalityType
<1>2. Cardinality(S \cap T) = 0
  BY FS_EmptySet
<1>3. IsFiniteSet(S \cup T) /\ Cardinality(S \cup T) = Cardinality(S) + Cardinality(T) - Cardinality(S \cap T)
  BY FS_Union
<1>. QED BY <1>1, <1>2, <1>3

\* The first n pages of a file.
FirstPages(f, n) == {f} \X (0..(n - 1))

\* There are n of them.
LEMMA FirstPagesCount ==
  ASSUME NEW f, NEW n \in Nat
  PROVE  IsFiniteSet(FirstPages(f, n)) /\ Cardinality(FirstPages(f, n)) = n
<1> DEFINE number == [i \in 0..(n - 1) |-> <<f, i>>]
<1>1. IsFiniteSet(0..(n - 1)) /\ Cardinality(0..(n - 1)) = n
  BY FS_Interval
<1>2. number \in Bijection(0..(n - 1), FirstPages(f, n))
  <2>1. \A i \in 0..(n - 1) : number[i] = <<f, i>> /\ number[i] \in FirstPages(f, n)
    BY DEF FirstPages
  <2>2. \A q \in FirstPages(f, n) : \E i \in 0..(n - 1) : q = <<f, i>>
    BY DEF FirstPages
  <2>3. \A i, j \in 0..(n - 1) : number[i] = number[j] => i = j
    BY <2>1
  <2>4. DOMAIN number = 0..(n - 1) /\ number \in [0..(n - 1) -> FirstPages(f, n)]
    BY <2>1
  <2> HIDE DEF number
  <2>5. \A q \in FirstPages(f, n) : \E i \in 0..(n - 1) : number[i] = q
    BY <2>1, <2>2
  <2>. QED BY <2>3, <2>4, <2>5 DEF Bijection, Injection, IsInjective, Surjection
<1>3. ExistsBijection(0..(n - 1), FirstPages(f, n))
  BY <1>2 DEF ExistsBijection
<1>. QED BY <1>1, <1>3, FS_Bijection

\* The pages of some of the files, and how many there are: the sum that
\* calculateOutputPosition() computes.
Of(files_) == {q \in AllPages : q[1] \in files_}
LEMMA OfCount ==
  ASSUME NEW R \in SUBSET Files
  PROVE  IsFiniteSet(Of(R)) /\ Cardinality(Of(R)) = SumFunctionOnSet(PagesIn, R)
<1> DEFINE Good(T) == IsFiniteSet(Of(T)) /\ Cardinality(Of(T)) = SumFunctionOnSet(PagesIn, T)
           Bad == {T \in SUBSET Files : ~Good(T)}
<1>0. IsFiniteSet(Files) /\ \A f \in Files : PagesIn[f] \in Nat
  BY FilesFacts
<1>1. SUFFICES ASSUME Bad # {} PROVE FALSE
  OBVIOUS
<1>2. PICK M \in Bad : \A N \in Bad : N \subseteq M => N = M
  <2>1. Bad \in SUBSET (SUBSET Files)
    OBVIOUS
  <2> HIDE DEF Bad
  <2>. QED BY <1>0, <1>1, <2>1, MinimalSubset
<1>3. IsFiniteSet(M) /\ M \in SUBSET Files /\ ~Good(M)
  BY <1>0, <1>2, FS_Subset
<1>4. M # {}
  <2>1. Of({}) = {}
    BY DEF Of
  <2>2. SumFunctionOnSet(PagesIn, {}) = 0
    BY FS_EmptySet, SumEquation
  <2>3. Good({})
    BY <2>1, <2>2, FS_EmptySet
  <2> HIDE DEF Good
  <2>. QED BY <1>3, <2>3
<1>5. PICK x \in M : TRUE
  BY <1>4
<1>6. Good(M \ {x})
  BY <1>2, <1>5
<1>7. SumFunctionOnSet(PagesIn, M) = PagesIn[x] + SumFunctionOnSet(PagesIn, M \ {x})
  BY <1>0, <1>3, <1>5, SumWithout
<1>8. x \in Files /\ PagesIn[x] \in Nat
  BY <1>0, <1>3, <1>5
<1>9. /\ Of(M) = Of(M \ {x}) \cup FirstPages(x, PagesIn[x])
      /\ Of(M \ {x}) \cap FirstPages(x, PagesIn[x]) = {}
  BY <1>8, <1>5, PageShape DEF Of, FirstPages
<1>10. IsFiniteSet(FirstPages(x, PagesIn[x])) /\ Cardinality(FirstPages(x, PagesIn[x])) = PagesIn[x]
  BY <1>8, FirstPagesCount
<1>11. Cardinality(Of(M \ {x})) \in Nat
  BY <1>6, FS_CardinalityType
<1> HIDE DEF Bad
<1>12. IsFiniteSet(Of(M)) /\ Cardinality(Of(M)) = Cardinality(Of(M \ {x})) + PagesIn[x]
  BY <1>6, <1>9, <1>10, DisjointUnion
<1>13. Good(M)
  BY <1>6, <1>7, <1>8, <1>11, <1>12
<1> HIDE DEF Good
<1>. QED BY <1>3, <1>13

\* All pages are those of all files.
LEMMA AllPagesCount ==
  IsFiniteSet(AllPages) /\ Cardinality(AllPages) = SumFunctionOnSet(PagesIn, Files)
<1>1. Of(Files) = AllPages
  BY PageShape DEF Of
<1>. QED BY <1>1, OfCount

\* The place of a page is the sum that its consumer computes.
LEMMA RightPositionIs ==
  ASSUME NEW pg \in AllPages
  PROVE  /\ RightPosition(pg) = SumFunctionOnSet(PagesIn, 1..(pg[1] - 1)) + pg[2]
         /\ RightPosition(pg) \in Nat
<1> DEFINE B == {q \in AllPages : Before(q, pg)}
<1>1. pg[1] \in Files /\ pg[2] \in Nat /\ pg[2] < PagesIn[pg[1]]
  BY PageShape
<1>2. Files = 1..Len(PagesIn) /\ Len(PagesIn) \in Nat /\ \A f \in Files : PagesIn[f] \in Nat
  BY FilesFacts
<1>3. 1..(pg[1] - 1) \in SUBSET Files
  BY <1>1, <1>2
<1>4. B = Of(1..(pg[1] - 1)) \cup FirstPages(pg[1], pg[2])
  <2>1. ASSUME NEW q PROVE q \in B <=> q \in Of(1..(pg[1] - 1)) \/ q \in FirstPages(pg[1], pg[2])
    <3>1. ASSUME q \in AllPages
          PROVE  Before(q, pg) <=> q[1] \in 1..(pg[1] - 1) \/ (q[1] = pg[1] /\ q[2] \in 0..(pg[2] - 1))
      BY <1>1, <1>2, <3>1, PageShape DEF Before
    <3>2. q \in FirstPages(pg[1], pg[2]) <=>
            q \in AllPages /\ q[1] = pg[1] /\ q[2] \in 0..(pg[2] - 1)
      <4>1. q \in FirstPages(pg[1], pg[2]) <=> \E i \in 0..(pg[2] - 1) : q = <<pg[1], i>>
        BY DEF FirstPages
      <4>2. \A i \in 0..(pg[2] - 1) : <<pg[1], i>> \in AllPages
        BY <1>1, <1>2, PageShape
      <4>3. q \in AllPages => q = <<q[1], q[2]>>
        BY PageShape
      <4>. QED BY <4>1, <4>2, <4>3
    <3>. QED BY <3>1, <3>2 DEF Of
  <2>. QED BY <2>1
<1>5. Of(1..(pg[1] - 1)) \cap FirstPages(pg[1], pg[2]) = {}
  BY <1>1, <1>2 DEF Of, FirstPages
<1>6. /\ IsFiniteSet(Of(1..(pg[1] - 1)))
      /\ Cardinality(Of(1..(pg[1] - 1))) = SumFunctionOnSet(PagesIn, 1..(pg[1] - 1))
  BY <1>3, OfCount
<1>7. /\ IsFiniteSet(FirstPages(pg[1], pg[2]))
      /\ Cardinality(FirstPages(pg[1], pg[2])) = pg[2]
  BY <1>1, FirstPagesCount
<1>8. Cardinality(Of(1..(pg[1] - 1))) \in Nat
  BY <1>6, FS_CardinalityType
<1> HIDE DEF B
<1>9. Cardinality(B) = Cardinality(Of(1..(pg[1] - 1))) + pg[2]
  BY <1>4, <1>5, <1>6, <1>7, DisjointUnion
<1>10. RightPosition(pg) = Cardinality(B)
  BY DEF RightPosition, B
<1>. QED BY <1>1, <1>6, <1>8, <1>9, <1>10

-----------------------------------------------------------------------------
(* The circular queue *)

Slot(t, i) == (t + i) % q_capacity
Entry(i) == buf[Slot(q_tail, i)]

\* An index wraps around at most once.
LEMMA SlotIs ==
  ASSUME NEW t \in Indices, NEW i \in 0..q_capacity
  PROVE  /\ Slot(t, i) = IF t + i < q_capacity THEN t + i ELSE t + i - q_capacity
         /\ Slot(t, i) \in Indices
<1>1. q_capacity \in Nat /\ q_capacity > 0 /\ t \in Nat /\ t < q_capacity /\ i \in Nat /\ i <= q_capacity
  BY PZipAssumption DEF Indices
<1>2. CASE t + i < q_capacity
  BY <1>1, <1>2 DEF Slot, Indices
<1>3. CASE t + i >= q_capacity
  <2>1. t + i - q_capacity \in 0..(q_capacity - 1)
    BY <1>1, <1>3
  <2>2. (t + i) % q_capacity = t + i - q_capacity
    <3> DEFINE k == (t + i) \div q_capacity
               r == (t + i) % q_capacity
    <3>1. k \in Int /\ r \in Int /\ 0 <= r /\ r < q_capacity /\ t + i = q_capacity * k + r
      BY <1>1
    <3>2. k = 1
      <4> HIDE DEF k, r
      <4>1. ~(k >= 2)
        <5>1. SUFFICES ASSUME k >= 2 PROVE FALSE
          OBVIOUS
        <5>2. q_capacity * k >= q_capacity * 2
          BY <1>1, <3>1, <5>1
        <5>. QED BY <1>1, <3>1, <5>2
      <4>2. ~(k <= 0)
        <5>1. SUFFICES ASSUME k <= 0 PROVE FALSE
          OBVIOUS
        <5>2. q_capacity * k <= 0
          BY <1>1, <3>1, <5>1
        <5>. QED BY <1>1, <1>3, <3>1, <5>2
      <4>. QED BY <3>1, <4>1, <4>2
    <3>. QED BY <1>1, <3>1, <3>2
  <2>. QED BY <1>1, <1>3, <2>1, <2>2 DEF Slot, Indices
<1>. QED BY <1>1, <1>2, <1>3

\* Two entries of the queue are at two indices.
LEMMA SlotsDiffer ==
  ASSUME NEW t \in Indices, NEW i \in 0..(q_capacity - 1), NEW j \in 0..(q_capacity - 1)
  PROVE  Slot(t, i) = Slot(t, j) => i = j
<1>1. q_capacity \in Nat /\ t \in Int /\ i \in 0..q_capacity /\ j \in 0..q_capacity
  BY PZipAssumption DEF Indices
<1>. QED BY <1>1, SlotIs

\* Taking the first entry moves the others up.
LEMMA NextSlot ==
  ASSUME NEW t \in Indices, NEW i \in 0..(q_capacity - 1)
  PROVE  /\ Slot(t, 1) \in Indices
         /\ Slot(Slot(t, 1), i) = Slot(t, i + 1)
<1>1. /\ q_capacity \in Nat /\ q_capacity > 0 /\ t \in Nat /\ t < q_capacity
      /\ i \in 0..q_capacity /\ i + 1 \in 0..q_capacity /\ 1 \in 0..q_capacity
  BY PZipAssumption DEF Indices
<1>2. Slot(t, 1) \in Indices /\ Slot(t, 1) = IF t + 1 < q_capacity THEN t + 1 ELSE t + 1 - q_capacity
  BY <1>1, SlotIs
<1>3. Slot(t, i + 1) = IF t + (i + 1) < q_capacity THEN t + (i + 1) ELSE t + (i + 1) - q_capacity
  BY <1>1, SlotIs
<1>4. Slot(Slot(t, 1), i) = IF Slot(t, 1) + i < q_capacity THEN Slot(t, 1) + i ELSE Slot(t, 1) + i - q_capacity
  BY <1>1, <1>2, SlotIs
<1>. QED BY <1>1, <1>2, <1>3, <1>4

-----------------------------------------------------------------------------
(* The inductive invariant *)

\* The producer has a file open.
Busy == ppc \in {"room", "waiting", "put", "signal"}
Opened == {f \in Files : f < file \/ (f = file /\ Busy)}

\* The producer is at a page of its file, and has room when it puts one.
ProducerInv ==
  /\ file \in 1..(Len(PagesIn) + 1)
  /\ Busy => file \in Files /\ page < PagesIn[file]
  /\ ~Busy => page = 0
  /\ ppc \in {"broadcast", "done"} => file = Len(PagesIn) + 1
  /\ isComp <=> ppc \in {"broadcast", "done"}
  /\ ppc = "put" => q_size < q_capacity

\* The sizes of the files opened are there.
SizesInv ==
  /\ \A f \in Opened : PagesIn[f] > 0 => pagePerFile[f] = PagesIn[f]
  /\ total_pages = SumFunctionOnSet(PagesIn, Opened)

\* A page that was put is in one entry of the queue, with one consumer, or compressed.
QueueInv ==
  /\ q_head = Slot(q_tail, q_size)
  /\ \A i, j \in 0..(q_size - 1) : Entry(i) = Entry(j) => i = j
  /\ Queued = InQueue \cup Held \cup Placed
  /\ InQueue \cap Held = {} /\ InQueue \cap Placed = {} /\ Held \cap Placed = {}
  /\ \A c, d \in Consumers : item[c] = item[d] /\ item[c] # NoPage => c = d

\* A consumer leaves when no page will come, and main prints when all have left.
ConsumerInv ==
  /\ \A c \in Consumers : cpc[c] = "compress" <=> item[c] # NoPage
  /\ \A c \in Consumers : cpc[c] = "done" => isComp /\ q_size = 0
  /\ printed => ppc = "done" /\ \A c \in Consumers : cpc[c] = "done"

IInv ==
  /\ TypeOK
  /\ ProducerInv
  /\ SizesInv
  /\ QueueInv
  /\ ConsumerInv
  /\ PagesInPlace

-----------------------------------------------------------------------------
(* The pages put and their places *)

\* The current page is one of the pages, and is not yet queued until it is put.
LEMMA CurrentPage ==
  ASSUME TypeOK, ProducerInv, Busy
  PROVE  /\ <<file, page>> \in AllPages
         /\ ppc # "signal" => <<file, page>> \notin Queued
<1>1. file \in Files /\ page \in Nat /\ page < PagesIn[file] /\ file \in Nat
  BY DEF TypeOK, ProducerInv
<1>2. <<file, page>> \in AllPages
  BY <1>1, PageShape
<1>3. ~Before(<<file, page>>, <<file, page>>)
  BY <1>1 DEF Before
<1>. QED BY <1>2, <1>3 DEF Queued

\* A page that was put is of a file opened.
LEMMA QueuedIsOpened ==
  ASSUME TypeOK, ProducerInv, NEW pg \in Queued
  PROVE  /\ pg \in AllPages /\ pg[1] \in Opened
         /\ \A f \in Files : f < pg[1] => f \in Opened
<1>1. pg \in AllPages /\ (Before(pg, <<file, page>>) \/ (pg = <<file, page>> /\ ppc = "signal"))
  BY DEF Queued
<1>2. pg[1] \in Files /\ pg[2] \in Nat /\ Files \subseteq Nat /\ file \in Nat /\ page \in Nat
  BY <1>1, PageShape, FilesFacts DEF TypeOK
<1>3. pg[1] < file \/ (pg[1] = file /\ Busy)
  <2>1. CASE Before(pg, <<file, page>>)
    <3>1. pg[1] < file \/ (pg[1] = file /\ pg[2] < page)
      BY <2>1 DEF Before
    <3>. QED BY <1>2, <3>1 DEF ProducerInv
  <2>2. CASE pg = <<file, page>> /\ ppc = "signal"
    BY <2>2 DEF Busy
  <2>. QED BY <1>1, <2>1, <2>2
<1>4. pg[1] \in Opened
  BY <1>2, <1>3 DEF Opened
<1>5. ASSUME NEW f \in Files, f < pg[1] PROVE f \in Opened
  <2> DEFINE g == pg[1]
  <2>1. f \in Nat /\ g \in Nat /\ file \in Nat /\ f < g
    BY <1>2, <1>5
  <2>2. g < file \/ g = file
    BY <1>3
  <2> HIDE DEF g
  <2>3. f < file
    BY <2>1, <2>2
  <2>. QED BY <2>3 DEF Opened
<1>. QED BY <1>1, <1>4, <1>5

\* What stands in the entries of empty files is an integer.
LEMMA StrayIs ==
  ASSUME TypeOK, NEW pg \in AllPages
  PROVE  /\ Stray(pg) \in Int /\ IsFiniteSet(EmptyBefore(pg))
         /\ EmptyBefore(pg) \subseteq 1..(pg[1] - 1) /\ 1..(pg[1] - 1) \subseteq Files
<1>1. pg[1] \in Files /\ Files = 1..Len(PagesIn) /\ Len(PagesIn) \in Nat
  BY PageShape, FilesFacts
<1>2. EmptyBefore(pg) \subseteq 1..(pg[1] - 1) /\ 1..(pg[1] - 1) \subseteq Files
  BY <1>1 DEF EmptyBefore
<1>3. IsFiniteSet(EmptyBefore(pg))
  BY <1>2, FilesFacts, FS_Subset
<1>4. \A f \in EmptyBefore(pg) : pagePerFile[f] \in Int
  BY <1>2 DEF TypeOK
<1>5. Stray(pg) \in Int
  BY <1>3, <1>4, SumIsInt DEF Stray
<1>. QED BY <1>2, <1>3, <1>5

\* The entries of empty files are never written.
LEMMA StrayKept ==
  ASSUME \A f \in Files : PagesIn[f] = 0 => pagePerFile'[f] = pagePerFile[f]
  PROVE  \A pg \in AllPages : Stray(pg)' = Stray(pg)
<1>1. SUFFICES ASSUME NEW pg \in AllPages PROVE Stray(pg)' = Stray(pg)
  OBVIOUS
<1>2. pg[1] \in Files /\ Files = 1..Len(PagesIn) /\ Len(PagesIn) \in Nat
  BY PageShape, FilesFacts
<1>3. EmptyBefore(pg) \subseteq Files /\ \A f \in EmptyBefore(pg) : PagesIn[f] = 0
  BY <1>2 DEF EmptyBefore
<1>4. IsFiniteSet(EmptyBefore(pg))
  BY <1>3, FilesFacts, FS_Subset
<1> DEFINE new == pagePerFile'
<1>5. \A f \in EmptyBefore(pg) : new[f] = pagePerFile[f]
  BY <1>3
<1> HIDE DEF new
<1>6. SumFunctionOnSet(new, EmptyBefore(pg)) = SumFunctionOnSet(pagePerFile, EmptyBefore(pg))
  BY <1>4, <1>5, SumDependsOn
<1>. QED BY <1>6 DEF Stray, EmptyBefore, new

\* A consumer adds up the sizes of the files that have pages, which are there, and
\* the entries of the empty ones.
LEMMA PositionIs ==
  ASSUME TypeOK, ProducerInv, SizesInv, NEW pg \in Queued
  PROVE  Position(pg) = RightPosition(pg) + Stray(pg) /\ Position(pg) \in Int
<1> DEFINE R == 1..(pg[1] - 1)
           E == EmptyBefore(pg)
           stray == [f \in R |-> IF f \in E THEN pagePerFile[f] ELSE 0]
<1>1. /\ pg \in AllPages /\ pg[1] \in Opened
      /\ \A f \in Files : f < pg[1] => f \in Opened
  BY QueuedIsOpened
<1>2. pg[1] \in Files /\ pg[2] \in Nat /\ pg[2] < PagesIn[pg[1]]
  BY <1>1, PageShape
<1>3. Files = 1..Len(PagesIn) /\ Len(PagesIn) \in Nat /\ \A f \in Files : PagesIn[f] \in Nat
  BY FilesFacts
<1>4. \A f \in R : f \in Files /\ f < pg[1] /\ (f \in E <=> PagesIn[f] = 0)
  BY <1>2, <1>3 DEF EmptyBefore
<1>5. E \subseteq R /\ IsFiniteSet(E) /\ Stray(pg) \in Int
  BY <1>1, StrayIs
<1>6. \A f \in R : f \notin E => pagePerFile[f] = PagesIn[f]
  BY <1>1, <1>3, <1>4 DEF SizesInv
<1>7. IsFiniteSet(R)
  <2>1. pg[1] - 1 \in Int
    BY <1>2, <1>3
  <2>. QED BY <2>1, FS_Interval
<1>8. \A f \in R : pagePerFile[f] \in Int
  BY <1>4 DEF TypeOK
<1>9. Stray(pg) = SumFunctionOnSet(pagePerFile, E)
  BY DEF Stray
<1> HIDE DEF R, E
<1>10. \A f \in R : stray[f] = IF f \in E THEN pagePerFile[f] ELSE 0
  OBVIOUS
<1> HIDE DEF stray
<1>11. SumFunctionOnSet(stray, E) = Stray(pg)
  <2>1. \A f \in E : stray[f] = pagePerFile[f]
    BY <1>5, <1>10
  <2>. QED BY <1>5, <1>9, <2>1, SumDependsOn
<1>12. SumFunctionOnSet(stray, R) = SumFunctionOnSet(stray, E)
  <2>1. \A f \in R : stray[f] \in Int
    BY <1>8, <1>10
  <2>2. \A f \in R \ E : stray[f] = 0
    BY <1>10
  <2>. QED BY <1>5, <1>7, <2>1, <2>2, SumOfRest
<1>13. SumFunctionOnSet(pagePerFile, R)
         = SumFunctionOnSet(PagesIn, R) + SumFunctionOnSet(stray, R)
  <2>1. ASSUME NEW f \in R
        PROVE  /\ pagePerFile[f] \in Int /\ PagesIn[f] \in Int /\ stray[f] \in Int
               /\ pagePerFile[f] = PagesIn[f] + stray[f]
    <3>1. pagePerFile[f] \in Int /\ PagesIn[f] \in Nat
      BY <1>3, <1>4, <1>8
    <3>. QED BY <1>4, <1>6, <1>10, <3>1
  <2>. QED BY <1>7, <2>1, SumAdds
<1>14. SumFunctionOnSet(PagesIn, R) \in Int
  <2>1. \A f \in R : PagesIn[f] \in Int
    BY <1>3, <1>4
  <2>. QED BY <1>7, <2>1, SumIsInt
<1>15. Position(pg) = SumFunctionOnSet(pagePerFile, R) + pg[2]
  BY DEF Position, R
<1>16. RightPosition(pg) = SumFunctionOnSet(PagesIn, R) + pg[2]
  BY <1>1, RightPositionIs DEF R
<1>. QED BY <1>2, <1>5, <1>11, <1>12, <1>13, <1>14, <1>15, <1>16

-----------------------------------------------------------------------------
(* What the steps have in common *)

Places == {"test", "wait", "asleep", "compress", "loop", "done"}

\* pthread_cond_signal and _broadcast move sleepers to the test of the queue.
Awoken == \A c \in Consumers : cpc'[c] = cpc[c] \/ (cpc[c] = "asleep" /\ cpc'[c] = "test")

\* A wakeup only moves sleepers.
LEMMA WakeIs ==
  ASSUME TypeOK, NEW S \in SUBSET Asleep, cpc' = Wake(S)
  PROVE  cpc' \in [Consumers -> Places] /\ Awoken
<1>1. cpc \in [Consumers -> Places]
  BY DEF TypeOK, Places
<1>2. \A c \in Consumers : cpc'[c] = IF c \in S THEN "test" ELSE cpc[c]
  BY DEF Wake
<1>3. \A c \in S : cpc[c] = "asleep"
  BY DEF Asleep
<1>4. cpc' \in [Consumers -> Places]
  BY <1>1 DEF Wake, Places
<1>. QED BY <1>2, <1>3, <1>4 DEF Awoken

\* A signal to nobody changes nothing.
LEMMA KeptIsAwoken == cpc' = cpc => Awoken
BY DEF Awoken

\* A step of the producer, or a signal, leaves the consumers as they should be.
LEMMA ConsumersKept ==
  ASSUME ConsumerInv, Awoken, item' = item, printed' = printed,
         isComp /\ q_size = 0 => isComp' /\ q_size' = 0, ppc = "done" => ppc' = "done"
  PROVE  ConsumerInv'
<1>1. \A c \in Consumers : cpc'[c] = "compress" <=> item'[c] # NoPage
  BY DEF ConsumerInv, Awoken
<1>2. \A c \in Consumers : cpc'[c] = "done" => isComp' /\ q_size' = 0
  BY DEF ConsumerInv, Awoken
<1>3. printed' => ppc' = "done" /\ \A c \in Consumers : cpc'[c] = "done"
  BY DEF ConsumerInv, Awoken
<1>. QED BY <1>1, <1>2, <1>3 DEF ConsumerInv

\* The places of what was written do not change.
LEMMA PlacesKept ==
  ASSUME PagesInPlace, TypeOK, out' = out,
         \A f \in Files : PagesIn[f] = 0 => pagePerFile'[f] = pagePerFile[f]
  PROVE  PagesInPlace'
<1>1. \A pg \in AllPages : Stray(pg)' = Stray(pg)
  BY StrayKept
<1>2. \A e \in out : e[2] \in AllPages
  BY DEF TypeOK
<1>3. \A e \in out : Stray(e[2])' = Stray(e[2])
  BY <1>1, <1>2
<1>4. \A e \in out : e[1] = RightPosition(e[2]) + Stray(e[2])
  BY DEF PagesInPlace
<1>. QED BY <1>3, <1>4 DEF PagesInPlace, RightPosition

\* A step that leaves the queue, the items and the output alone.
LEMMA QueueKept ==
  ASSUME QueueInv, PagesInPlace, UNCHANGED <<queue, item, out>>, Queued' = Queued, TypeOK,
         \A f \in Files : PagesIn[f] = 0 => pagePerFile'[f] = pagePerFile[f]
  PROVE  QueueInv' /\ PagesInPlace'
<1>1. buf' = buf /\ q_head' = q_head /\ q_tail' = q_tail /\ q_size' = q_size /\ item' = item /\ out' = out
  BY DEF queue
<1>2. InQueue' = InQueue /\ Held' = Held /\ Placed' = Placed
  BY <1>1 DEF InQueue, Held, Placed
<1>3. \A i \in 0..(q_size - 1) : Entry(i)' = Entry(i)
  BY <1>1 DEF Entry, Slot
<1>4. \A i, j \in 0..(q_size' - 1) : Entry(i)' = Entry(j)' => i = j
  BY <1>1, <1>3 DEF QueueInv
<1>5. QueueInv'
  BY <1>1, <1>2, <1>4 DEF QueueInv, Slot, Entry
<1>6. PagesInPlace'
  BY <1>1, PlacesKept
<1>. QED BY <1>5, <1>6

\* What the producer has put depends on where it is.
LEMMA QueuedKept ==
  ASSUME file' = file, page' = page, ppc' = "signal" <=> ppc = "signal"
  PROVE  Queued' = Queued
BY DEF Queued

\* The files it has opened do too.
LEMMA SizesKept ==
  ASSUME SizesInv, UNCHANGED files, file' = file, Busy' <=> Busy
  PROVE  SizesInv'
<1>1. Opened' = Opened
  BY DEF Opened
<1>. QED BY <1>1 DEF SizesInv, files

\* Finitely many files are open.
LEMMA OpenedIsFinite == IsFiniteSet(Opened)
BY FilesFacts, FS_Subset DEF Opened

\* At first nothing is opened, queued or printed.
LEMMA InitIInv == Init => IInv
<1>1. SUFFICES ASSUME Init PROVE IInv
  OBVIOUS
<1>2. q_capacity \in Nat /\ q_capacity > 0 /\ 0 \in Indices /\ 0 \in 0..q_capacity
  BY PZipAssumption DEF Indices
<1>3. Files = 1..Len(PagesIn) /\ Len(PagesIn) \in Nat
  BY FilesFacts
<1>4. TypeOK
  <2>1. pagePerFile \in [Files -> Int]
    BY <1>1, PZipAssumption DEF Init
  <2>. QED BY <1>1, <1>2, <2>1 DEF Init, TypeOK
<1>5. ProducerInv
  BY <1>1, <1>3 DEF Init, ProducerInv, Busy
<1>6. Opened = {} /\ Queued = {}
  <2>1. \A f \in Files : ~(f < 1)
    BY <1>3
  <2>2. \A pg \in AllPages : ~Before(pg, <<1, 0>>)
    BY <2>1, PageShape DEF Before
  <2>. QED BY <1>1, <2>1, <2>2 DEF Init, Opened, Busy, Queued
<1>7. SizesInv
  <2>1. SumFunctionOnSet(PagesIn, {}) = 0
    BY FS_EmptySet, SumEquation
  <2>. QED BY <1>1, <1>6, <2>1 DEF Init, SizesInv
<1>8. InQueue = {} /\ Held = {} /\ Placed = {} /\ q_size = 0 /\ out = {}
  BY <1>1 DEF Init, InQueue, Held, Placed
<1>9. QueueInv
  <2>1. q_head = Slot(q_tail, q_size)
    BY <1>1, <1>2, SlotIs DEF Init
  <2>2. \A c \in Consumers : item[c] = NoPage
    BY <1>1 DEF Init
  <2>. QED BY <1>6, <1>8, <2>1, <2>2 DEF QueueInv
<1>10. ConsumerInv
  BY <1>1 DEF Init, ConsumerInv
<1>11. PagesInPlace
  BY <1>8 DEF PagesInPlace
<1>. QED BY <1>4, <1>5, <1>7, <1>9, <1>10, <1>11 DEF IInv

-----------------------------------------------------------------------------
(* The producer *)

\* Opening a file: an empty one is passed over, the size of another is stored.
LEMMA OpenFileKeeps ==
  ASSUME IInv, OpenFile
  PROVE  IInv'
<1>1. /\ ppc = "open" /\ file \in Files /\ UNCHANGED <<queue, item, out>>
      /\ lock' = lock /\ isComp' = isComp /\ cpc' = cpc /\ printed' = printed
      /\ buf' = buf /\ q_head' = q_head /\ q_tail' = q_tail /\ q_size' = q_size
      /\ item' = item /\ out' = out
  BY DEF OpenFile, queue
<1>2. /\ Files = 1..Len(PagesIn) /\ Len(PagesIn) \in Nat /\ file \in Nat
      /\ PagesIn[file] \in Nat /\ \A f \in Files : PagesIn[f] \in Nat
  BY <1>1, FilesFacts
<1>3. page = 0 /\ ~Busy /\ isComp = FALSE
  BY <1>1 DEF Busy, IInv, ProducerInv, TypeOK
<1>4. file \notin Opened /\ Opened \subseteq Files
  BY <1>2, <1>3 DEF Opened
<1>5. ConsumerInv'
  BY <1>1, KeptIsAwoken, ConsumersKept DEF IInv
<1>6. IsFiniteSet(Opened)
  BY OpenedIsFinite
<1>a. \A f \in Opened \cup {file} : PagesIn[f] \in Int
  BY <1>1, <1>2, <1>4
<1>b. SumFunctionOnSet(PagesIn, Opened \cup {file}) = PagesIn[file] + SumFunctionOnSet(PagesIn, Opened)
  BY <1>4, <1>6, <1>a, SumWith
<1>c. SumFunctionOnSet(PagesIn, Opened) \in Int
  BY <1>6, <1>a, SumIsInt
<1>7. CASE PagesIn[file] = 0
  <2>1. file' = file + 1 /\ pagePerFile' = pagePerFile /\ total_pages' = total_pages /\ ppc' = ppc /\ page' = page
    BY <1>7 DEF OpenFile, files
  <2>2. Opened' = Opened \cup {file}
    <3>1. ~Busy'
      BY <1>1, <2>1 DEF Busy
    <3>. QED BY <1>1, <1>2, <1>3, <2>1, <3>1 DEF Opened
  <2>3. SumFunctionOnSet(PagesIn, Opened') = SumFunctionOnSet(PagesIn, Opened)
    BY <1>7, <1>b, <1>c, <2>2
  <2>4. SizesInv'
    BY <1>7, <2>1, <2>2, <2>3 DEF IInv, SizesInv
  <2>5. Queued' = Queued
    <3>1. ASSUME NEW pg \in AllPages
          PROVE  Before(pg, <<file + 1, page>>) <=> Before(pg, <<file, page>>)
      <4>1. pg[1] \in Nat /\ pg[2] \in Nat /\ pg[2] < PagesIn[pg[1]]
        BY PageShape, FilesFacts
      <4>2. pg[1] # file
        BY <1>7, <4>1
      <4>. QED BY <1>2, <1>3, <4>1, <4>2 DEF Before
    <3>. QED BY <1>1, <2>1, <3>1 DEF Queued
  <2>6. QueueInv' /\ PagesInPlace'
    BY <1>1, <2>1, <2>5, QueueKept DEF IInv
  <2>7. ProducerInv'
    BY <1>1, <1>2, <1>3, <2>1 DEF IInv, ProducerInv, Busy
  <2>8. TypeOK'
    BY <1>1, <1>2, <2>1 DEF IInv, TypeOK
  <2>. QED BY <1>5, <2>4, <2>6, <2>7, <2>8 DEF IInv
<1>8. CASE PagesIn[file] # 0
  <2>1. /\ pagePerFile' = [pagePerFile EXCEPT ![file] = PagesIn[file]]
        /\ total_pages' = total_pages + PagesIn[file] /\ page' = 0 /\ ppc' = "room" /\ file' = file
    BY <1>8 DEF OpenFile
  <2>2. Opened' = Opened \cup {file} /\ Busy'
    BY <1>1, <1>2, <1>3, <2>1 DEF Opened, Busy
  <2>3. SumFunctionOnSet(PagesIn, Opened') = PagesIn[file] + SumFunctionOnSet(PagesIn, Opened)
    BY <1>b, <2>2
  <2>t. pagePerFile \in [Files -> Int] /\ total_pages \in Nat
    BY DEF IInv, TypeOK
  <2>4. SizesInv'
    <3>1. \A f \in Opened' : PagesIn[f] > 0 => pagePerFile'[f] = PagesIn[f]
      BY <1>1, <1>4, <2>1, <2>2, <2>t DEF IInv, SizesInv
    <3>2. total_pages' = SumFunctionOnSet(PagesIn, Opened')
      BY <1>2, <1>c, <2>1, <2>3, <2>t DEF IInv, SizesInv
    <3>. QED BY <3>1, <3>2 DEF SizesInv
  <2>5. Queued' = Queued
    BY <1>1, <1>3, <2>1, QueuedKept
  <2>6. QueueInv' /\ PagesInPlace'
    <3>1. \A f \in Files : PagesIn[f] = 0 => pagePerFile'[f] = pagePerFile[f]
      BY <1>8, <2>1, <2>t
    <3>. QED BY <1>1, <2>5, <3>1, QueueKept DEF IInv
  <2>7. ProducerInv'
    BY <1>1, <1>2, <1>3, <1>8, <2>1, <2>2 DEF IInv, ProducerInv
  <2>8. TypeOK'
    BY <1>1, <1>2, <2>1, <2>t DEF IInv, TypeOK
  <2>. QED BY <1>5, <2>4, <2>6, <2>7, <2>8 DEF IInv
<1>. QED BY <1>7, <1>8

\* A full queue: the producer waits, another moves on; neither touches a page.
LEMMA RoomKeeps ==
  ASSUME IInv, WaitForRoom \/ FoundRoom
  PROVE  IInv'
<1>1. /\ ppc = "room" /\ ppc' \in {"waiting", "put"} /\ UNCHANGED <<queue, item, out>> /\ UNCHANGED files
      /\ lock' = lock /\ isComp' = isComp /\ printed' = printed
      /\ buf' = buf /\ q_head' = q_head /\ q_tail' = q_tail /\ q_size' = q_size
      /\ item' = item /\ out' = out /\ file' = file /\ page' = page
      /\ pagePerFile' = pagePerFile /\ total_pages' = total_pages
      /\ ppc' = "put" => q_size # q_capacity
  BY DEF WaitForRoom, FoundRoom, queue, files
<1>2. cpc' \in [Consumers -> Places] /\ Awoken
  <2>1. CASE cpc' = cpc
    BY <2>1, KeptIsAwoken DEF IInv, TypeOK, Places
  <2>2. CASE cpc' = Wake(Asleep)
    BY <2>2, WakeIs DEF IInv
  <2>. QED BY <2>1, <2>2 DEF WaitForRoom, FoundRoom
<1>3. TypeOK'
  BY <1>1, <1>2 DEF IInv, TypeOK, Places
<1>4. ProducerInv'
  <2>1. q_size \in 0..q_capacity /\ q_capacity \in Nat
    BY PZipAssumption DEF IInv, TypeOK
  <2>. QED BY <1>1, <2>1 DEF IInv, ProducerInv, Busy
<1>5. SizesInv'
  <2>1. Busy' <=> Busy
    BY <1>1 DEF Busy
  <2>. QED BY <1>1, <2>1, SizesKept DEF IInv
<1>6. QueueInv' /\ PagesInPlace'
  BY <1>1, QueuedKept, QueueKept DEF IInv
<1>7. ConsumerInv'
  BY <1>1, <1>2, ConsumersKept DEF IInv
<1>. QED BY <1>3, <1>4, <1>5, <1>6, <1>7 DEF IInv

\* Putting the page: the queue has room, so that the entry it takes is not in use.
LEMMA PutKeeps ==
  ASSUME IInv, Put
  PROVE  IInv'
<1> DEFINE cur == <<file, page>>
<1>1. /\ ppc = "put" /\ ppc' = "signal" /\ UNCHANGED files
      /\ buf' = [buf EXCEPT ![q_head] = cur] /\ q_head' = Slot(q_head, 1) /\ q_size' = q_size + 1
      /\ q_tail' = q_tail /\ lock' = lock /\ isComp' = isComp /\ printed' = printed
      /\ item' = item /\ out' = out /\ file' = file /\ page' = page /\ cpc' = cpc
      /\ pagePerFile' = pagePerFile /\ total_pages' = total_pages
  BY DEF Put, files, Slot
<1>2. /\ q_head \in Indices /\ q_tail \in Indices /\ q_size \in Nat /\ q_capacity \in Nat
      /\ q_size < q_capacity /\ q_size \in 0..(q_capacity - 1) /\ q_capacity > 0
      /\ buf \in [Indices -> AllPages \cup {NoPage}]
  BY <1>1, PZipAssumption DEF IInv, TypeOK, ProducerInv
<1>3. Busy /\ Busy' /\ cur \in AllPages /\ cur \notin Queued
  <2>1. Busy /\ Busy'
    BY <1>1 DEF Busy
  <2>. QED BY <1>1, <2>1, CurrentPage DEF IInv
<1>4. q_head = Slot(q_tail, q_size) /\ q_head' = Slot(q_tail, q_size + 1)
  <2>1. q_head = Slot(q_tail, q_size)
    BY DEF IInv, QueueInv
  <2>2. /\ Slot(q_tail, q_size) = IF q_tail + q_size < q_capacity THEN q_tail + q_size
                                                             ELSE q_tail + q_size - q_capacity
    BY <1>2, SlotIs
  <2>3. q_tail \in Nat /\ q_head \in Nat /\ q_size + 1 \in 0..q_capacity /\ 1 \in 0..q_capacity /\ q_tail < q_capacity
    BY <1>2 DEF Indices
  <2>4. Slot(q_tail, q_size + 1) = IF q_tail + (q_size + 1) < q_capacity THEN q_tail + (q_size + 1)
                                                                   ELSE q_tail + (q_size + 1) - q_capacity
    BY <1>2, <2>3, SlotIs
  <2>5. Slot(q_head, 1) = IF q_head + 1 < q_capacity THEN q_head + 1 ELSE q_head + 1 - q_capacity
    BY <1>2, <2>3, SlotIs
  <2>. QED BY <1>1, <1>2, <2>1, <2>2, <2>3, <2>4, <2>5
<1> DEFINE old(i) == buf[Slot(q_tail, i)]
           ent(i) == buf'[Slot(q_tail, i)]
<1>5. /\ \A i \in 0..(q_size - 1) : ent(i) = old(i)
      /\ ent(q_size) = cur
  <2>1. \A i \in 0..(q_size - 1) : i \in 0..(q_capacity - 1) /\ i # q_size
    BY <1>2
  <2>2. \A i \in 0..(q_size - 1) : Slot(q_tail, i) \in Indices /\ Slot(q_tail, i) # q_head
    <3>1. \A i \in 0..(q_size - 1) : i \in 0..q_capacity
      BY <1>2
    <3>. QED BY <1>2, <1>4, <2>1, <3>1, SlotIs, SlotsDiffer
  <2>3. \A i \in 0..(q_size - 1) : buf'[Slot(q_tail, i)] = buf[Slot(q_tail, i)]
    BY <1>1, <1>2, <2>2
  <2>4. buf'[Slot(q_tail, q_size)] = cur
    BY <1>1, <1>2, <1>4
  <2>. QED BY <2>3, <2>4
<1>a. /\ InQueue = {old(i) : i \in 0..(q_size - 1)}
      /\ InQueue' = {ent(i) : i \in 0..(q_size' - 1)}
  BY <1>1 DEF InQueue, Slot
<1>b. \A i, j \in 0..(q_size - 1) : old(i) = old(j) => i = j
  BY DEF IInv, QueueInv, Entry
<1>c. 0..(q_size' - 1) = (0..(q_size - 1)) \cup {q_size}
  BY <1>1, <1>2
<1> HIDE DEF old, ent, cur
<1>6. InQueue' = InQueue \cup {cur}
  BY <1>5, <1>a, <1>c
<1>7. Queued' = Queued \cup {cur} /\ Held' = Held /\ Placed' = Placed
  BY <1>1, <1>3 DEF Queued, Held, Placed, cur
<1>8. QueueInv'
  <2>1. InQueue \cup Held \cup Placed = Queued
    BY DEF IInv, QueueInv
  <2>2. \A i \in 0..(q_size - 1) : ent(i) # cur
    BY <1>3, <1>5, <1>a, <2>1
  <2>3. \A i, j \in 0..(q_size' - 1) : ent(i) = ent(j) => i = j
    BY <1>5, <1>b, <1>c, <2>2
  <2>4. /\ Queued' = InQueue' \cup Held' \cup Placed'
        /\ InQueue' \cap Held' = {} /\ InQueue' \cap Placed' = {} /\ Held' \cap Placed' = {}
    BY <1>3, <1>6, <1>7, <2>1 DEF IInv, QueueInv
  <2>5. q_head' = Slot(q_tail', q_size')
    BY <1>1, <1>4
  <2>6. \A c, d \in Consumers : item'[c] = item'[d] /\ item'[c] # NoPage => c = d
    BY <1>1 DEF IInv, QueueInv
  <2>7. \A i, j \in 0..(q_size' - 1) : Entry(i)' = Entry(j)' => i = j
    BY <1>1, <2>3 DEF Entry, ent
  <2>. QED BY <2>4, <2>5, <2>6, <2>7 DEF QueueInv
<1>9. TypeOK'
  <2>1. q_head' \in Indices
    BY <1>2, <1>4, SlotIs
  <2>2. buf' \in [Indices -> AllPages \cup {NoPage}]
    BY <1>1, <1>2, <1>3 DEF cur
  <2>3. q_size' \in 0..q_capacity
    BY <1>1, <1>2
  <2>. QED BY <1>1, <2>1, <2>2, <2>3 DEF IInv, TypeOK
<1>10. ProducerInv'
  BY <1>1, <1>3 DEF IInv, ProducerInv
<1>11. SizesInv'
  BY <1>1, <1>3, SizesKept DEF IInv
<1>12. ConsumerInv'
  <2>1. ~isComp
    BY <1>1 DEF IInv, ProducerInv
  <2>. QED BY <1>1, <2>1, KeptIsAwoken, ConsumersKept DEF IInv
<1>13. PagesInPlace'
  BY <1>1, PlacesKept DEF IInv
<1>. QED BY <1>8, <1>9, <1>10, <1>11, <1>12, <1>13 DEF IInv

\* After the signal the producer goes on to the next page, or the next file.
LEMMA SignalFillKeeps ==
  ASSUME IInv, SignalFill
  PROVE  IInv'
<1>1. /\ ppc = "signal" /\ UNCHANGED files /\ UNCHANGED <<queue, item, out>>
      /\ lock' = lock /\ isComp' = isComp /\ printed' = printed
      /\ buf' = buf /\ q_head' = q_head /\ q_tail' = q_tail /\ q_size' = q_size
      /\ item' = item /\ out' = out
      /\ pagePerFile' = pagePerFile /\ total_pages' = total_pages
  BY DEF SignalFill, queue, files
<1>2. cpc' \in [Consumers -> Places] /\ Awoken
  <2>1. CASE cpc' = cpc
    BY <2>1, KeptIsAwoken DEF IInv, TypeOK, Places
  <2>2. ASSUME NEW c \in Asleep, cpc' = Wake({c}) PROVE cpc' \in [Consumers -> Places] /\ Awoken
    BY <2>2, WakeIs DEF IInv
  <2>. QED BY <2>1, <2>2 DEF SignalFill
<1>3. /\ Busy /\ file \in Files /\ file \in Nat /\ page \in Nat /\ page < PagesIn[file]
      /\ PagesIn[file] \in Nat /\ Files = 1..Len(PagesIn) /\ Len(PagesIn) \in Nat /\ ~isComp
  <2>1. Busy
    BY <1>1 DEF Busy
  <2>. QED BY <1>1, <2>1, FilesFacts DEF IInv, ProducerInv, TypeOK
<1>4. ConsumerInv'
  BY <1>1, <1>2, ConsumersKept DEF IInv
<1>5. CASE page + 1 < PagesIn[file]
  <2>1. page' = page + 1 /\ ppc' = "room" /\ file' = file
    BY <1>5 DEF SignalFill
  <2>2. Busy'
    BY <2>1 DEF Busy
  <2>3. Queued' = Queued
    <3>1. ASSUME NEW pg \in AllPages
          PROVE  Before(pg, <<file, page + 1>>) <=> Before(pg, <<file, page>>) \/ pg = <<file, page>>
      <4>1. pg = <<pg[1], pg[2]>> /\ pg[1] \in Nat /\ pg[2] \in Nat
        BY PageShape, FilesFacts
      <4>. QED BY <1>3, <4>1 DEF Before
    <3>. QED BY <1>1, <2>1, <3>1 DEF Queued
  <2>4. QueueInv' /\ PagesInPlace'
    BY <1>1, <2>3, QueueKept DEF IInv
  <2>5. SizesInv'
    BY <1>1, <1>3, <2>1, <2>2, SizesKept DEF IInv
  <2>6. ProducerInv'
    BY <1>1, <1>3, <1>5, <2>1, <2>2 DEF IInv, ProducerInv
  <2>7. TypeOK'
    BY <1>1, <1>2, <1>3, <2>1 DEF IInv, TypeOK, Places
  <2>. QED BY <1>4, <2>4, <2>5, <2>6, <2>7 DEF IInv
<1>6. CASE ~(page + 1 < PagesIn[file])
  <2>1. page' = 0 /\ ppc' = "open" /\ file' = file + 1
    BY <1>6 DEF SignalFill
  <2>2. ~Busy' /\ Opened' = Opened
    <3>1. ~Busy'
      BY <2>1 DEF Busy
    <3>2. \A f \in Files : f < file + 1 <=> f < file \/ f = file
      BY <1>3
    <3>. QED BY <1>3, <2>1, <3>1, <3>2 DEF Opened
  <2>3. Queued' = Queued
    <3>1. ASSUME NEW pg \in AllPages
          PROVE  Before(pg, <<file + 1, 0>>) <=> Before(pg, <<file, page>>) \/ pg = <<file, page>>
      <4>1. pg = <<pg[1], pg[2]>> /\ pg[1] \in Nat /\ pg[2] \in Nat /\ pg[2] < PagesIn[pg[1]]
        BY PageShape, FilesFacts
      <4>2. pg[1] = file => pg[2] < page \/ pg[2] = page
        BY <1>3, <1>6, <4>1
      <4>. QED BY <1>3, <4>1, <4>2 DEF Before
    <3>. QED BY <1>1, <2>1, <3>1 DEF Queued
  <2>4. QueueInv' /\ PagesInPlace'
    BY <1>1, <2>3, QueueKept DEF IInv
  <2>5. SizesInv'
    BY <1>1, <2>2 DEF IInv, SizesInv
  <2>6. ProducerInv'
    BY <1>1, <1>3, <2>1, <2>2 DEF IInv, ProducerInv
  <2>7. TypeOK'
    BY <1>1, <1>2, <1>3, <2>1 DEF IInv, TypeOK, Places
  <2>. QED BY <1>4, <2>4, <2>5, <2>6, <2>7 DEF IInv
<1>. QED BY <1>5, <1>6

\* The end of the producer.
LEMMA FinishKeeps ==
  ASSUME IInv, Finish \/ BroadcastFill
  PROVE  IInv'
<1>1. /\ UNCHANGED files /\ UNCHANGED <<queue, item, out>>
      /\ lock' = lock /\ printed' = printed
      /\ buf' = buf /\ q_head' = q_head /\ q_tail' = q_tail /\ q_size' = q_size
      /\ item' = item /\ out' = out /\ file' = file /\ page' = page
      /\ pagePerFile' = pagePerFile /\ total_pages' = total_pages
      /\ \/ ppc = "open" /\ ppc' = "broadcast" /\ isComp' = TRUE /\ file \notin Files
         \/ ppc = "broadcast" /\ ppc' = "done" /\ isComp' = isComp
  BY DEF Finish, BroadcastFill, queue, files
<1>2. cpc' \in [Consumers -> Places] /\ Awoken
  <2>1. CASE cpc' = cpc
    BY <2>1, KeptIsAwoken DEF IInv, TypeOK, Places
  <2>2. CASE cpc' = Wake(Asleep)
    BY <2>2, WakeIs DEF IInv
  <2>. QED BY <2>1, <2>2 DEF Finish, BroadcastFill
<1>3. ~Busy /\ ~Busy' /\ isComp'
  BY <1>1 DEF Busy, IInv, ProducerInv
<1>4. Files = 1..Len(PagesIn) /\ Len(PagesIn) \in Nat /\ file \in 1..(Len(PagesIn) + 1)
  BY FilesFacts DEF IInv, ProducerInv
<1>5. ProducerInv'
  <2>1. file' = Len(PagesIn) + 1
    BY <1>1, <1>4 DEF IInv, ProducerInv
  <2>. QED BY <1>1, <1>3, <1>4, <2>1 DEF IInv, ProducerInv
<1>6. TypeOK'
  BY <1>1, <1>2 DEF IInv, TypeOK, Places
<1>7. SizesInv'
  BY <1>1, <1>3, SizesKept DEF IInv
<1>8. QueueInv' /\ PagesInPlace'
  BY <1>1, QueuedKept, QueueKept DEF IInv
<1>9. ConsumerInv'
  BY <1>1, <1>2, <1>3, ConsumersKept DEF IInv
<1>. QED BY <1>5, <1>6, <1>7, <1>8, <1>9 DEF IInv

-----------------------------------------------------------------------------
(* The consumers *)

\* A consumer that moves and takes no page.
LEMMA ConsumerMoves ==
  ASSUME IInv, NEW c \in Consumers, NEW place \in Places \ {"compress"},
         cpc' = [cpc EXCEPT ![c] = place], cpc[c] # "compress", cpc[c] # "done",
         place = "done" => isComp /\ q_size = 0,
         UNCHANGED <<queue, item, out>>, UNCHANGED files, isComp' = isComp, printed' = printed,
         file' = file, page' = page, lock' \in Consumers \cup {Nobody},
         ppc' = ppc \/ (ppc = "waiting" /\ ppc' = "room")
  PROVE  IInv'
<1>1. /\ buf' = buf /\ q_head' = q_head /\ q_tail' = q_tail /\ q_size' = q_size
      /\ item' = item /\ out' = out /\ pagePerFile' = pagePerFile /\ total_pages' = total_pages
  BY DEF queue, files
<1>2. cpc \in [Consumers -> Places] /\ cpc' \in [Consumers -> Places]
  BY DEF IInv, TypeOK, Places
<1>3. (Busy' <=> Busy) /\ (ppc' = "signal" <=> ppc = "signal")
  BY DEF Busy
<1>4. TypeOK'
  BY <1>1, <1>2 DEF IInv, TypeOK, Places
<1>5. ProducerInv'
  BY <1>1, <1>3 DEF IInv, ProducerInv
<1>6. SizesInv'
  BY <1>3, SizesKept DEF IInv
<1>7. QueueInv' /\ PagesInPlace'
  BY <1>1, <1>3, QueuedKept, QueueKept DEF IInv
<1>8. ConsumerInv'
  <2>1. cpc'[c] = place /\ \A d \in Consumers \ {c} : cpc'[d] = cpc[d]
    BY <1>2
  <2>2. ~printed
    BY DEF IInv, ConsumerInv
  <2>. QED BY <1>1, <2>1, <2>2 DEF IInv, ConsumerInv
<1>. QED BY <1>4, <1>5, <1>6, <1>7, <1>8 DEF IInv

\* The test of the queue, the wait, and the loop's condition.
LEMMA MovesKeep ==
  ASSUME IInv, NEW c \in Consumers,
         FindEmpty(c) \/ CondWait(c) \/ Leave(c) \/ LoopTest(c) \/ SpuriousWakeup(c)
  PROVE  IInv'
<1>0. lock \in Consumers \cup {Nobody}
  BY DEF IInv, TypeOK
<1>1. CASE FindEmpty(c)
  <2>1. ppc' = ppc \/ (ppc = "waiting" /\ ppc' = "room")
    BY <1>1 DEF FindEmpty, WakeProducer
  <2>2. "wait" \in Places \ {"compress"}
    BY DEF Places
  <2>. QED BY <1>1, <2>1, <2>2, ConsumerMoves DEF FindEmpty, At, GoTo
<1>2. CASE CondWait(c)
  <2>1. "asleep" \in Places \ {"compress"}
    BY DEF Places
  <2>. QED BY <1>2, <2>1, ConsumerMoves DEF CondWait, At, GoTo
<1>3. CASE Leave(c)
  <2>1. "done" \in Places \ {"compress"}
    BY DEF Places
  <2>. QED BY <1>0, <1>3, <2>1, ConsumerMoves DEF Leave, At, GoTo
<1>4. CASE LoopTest(c)
  <2>1. "done" \in Places \ {"compress"} /\ "test" \in Places \ {"compress"}
    BY DEF Places
  <2>2. PICK place \in Places \ {"compress"} :
          cpc' = [cpc EXCEPT ![c] = place] /\ (place = "done" => isComp /\ q_size = 0)
    BY <1>4, <2>1 DEF LoopTest, GoTo
  <2>. QED BY <1>0, <1>4, <2>2, ConsumerMoves DEF LoopTest, At
<1>5. CASE SpuriousWakeup(c)
  <2>1. "test" \in Places \ {"compress"}
    BY DEF Places
  <2>. QED BY <1>0, <1>5, <2>1, ConsumerMoves DEF SpuriousWakeup, At, GoTo
<1>. QED BY <1>1, <1>2, <1>3, <1>4, <1>5

\* A consumer takes the first entry of the queue.
LEMMA GetKeeps ==
  ASSUME IInv, NEW c \in Consumers, Get(c)
  PROVE  IInv'
<1> DEFINE old(i) == buf[Slot(q_tail, i)]
           first == old(0)
           ent(i) == buf[Slot(Slot(q_tail, 1), i)]
<1>1. /\ cpc[c] = "test" /\ q_size # 0 /\ item' = [item EXCEPT ![c] = buf[q_tail]]
      /\ q_tail' = Slot(q_tail, 1) /\ q_size' = q_size - 1
      /\ cpc' = [cpc EXCEPT ![c] = "compress"] /\ UNCHANGED files
      /\ lock' = lock /\ buf' = buf /\ q_head' = q_head /\ isComp' = isComp /\ file' = file
      /\ page' = page /\ out' = out /\ printed' = printed
      /\ pagePerFile' = pagePerFile /\ total_pages' = total_pages
      /\ ppc' = ppc \/ (ppc = "waiting" /\ ppc' = "room")
  BY DEF Get, At, GoTo, WakeProducer, Slot, files
<1>2. /\ q_head \in Indices /\ q_tail \in Indices /\ q_size \in Nat /\ q_capacity \in Nat
      /\ q_size <= q_capacity /\ q_size > 0 /\ q_capacity > 0
      /\ buf \in [Indices -> AllPages \cup {NoPage}]
      /\ item \in [Consumers -> AllPages \cup {NoPage}] /\ cpc \in [Consumers -> Places]
  BY <1>1, PZipAssumption DEF IInv, TypeOK, Places
<1>3. Slot(q_tail, 0) = q_tail
  <2>1. q_tail \in Nat /\ q_tail < q_capacity /\ 0 \in 0..q_capacity
    BY <1>2 DEF Indices
  <2>. QED BY <1>2, <2>1, SlotIs
<1>4. \A i \in 0..(q_size' - 1) : ent(i) = old(i + 1) /\ i + 1 \in 0..(q_size - 1)
  <2>1. \A i \in 0..(q_size' - 1) : i \in 0..(q_capacity - 1) /\ i + 1 \in 0..(q_size - 1)
    BY <1>1, <1>2
  <2>. QED BY <1>2, <2>1, NextSlot
<1>5. /\ InQueue = {old(i) : i \in 0..(q_size - 1)}
      /\ InQueue' = {ent(i) : i \in 0..(q_size' - 1)}
  BY <1>1 DEF InQueue, Slot
<1>6. \A i, j \in 0..(q_size - 1) : old(i) = old(j) => i = j
  BY DEF IInv, QueueInv, Entry
<1>7. 0 \in 0..(q_size - 1) /\ \A i \in 0..(q_size - 1) : i = 0 \/ (i - 1 \in 0..(q_size' - 1) /\ i = (i - 1) + 1)
  BY <1>1, <1>2
<1>8. item'[c] = first /\ \A d \in Consumers \ {c} : item'[d] = item[d]
  BY <1>1, <1>2, <1>3
<1>9. InQueue' = InQueue \ {first} /\ first \in InQueue
  <2> HIDE DEF old, ent
  <2>1. first \in InQueue
    BY <1>5, <1>7
  <2>2. \A i \in 0..(q_size' - 1) : ent(i) \in InQueue /\ ent(i) # first
    <3>1. \A i \in 0..(q_size' - 1) : i + 1 # 0
      BY <1>1, <1>2
    <3>. QED BY <1>4, <1>5, <1>6, <1>7, <3>1
  <2>3. \A i \in 0..(q_size - 1) : old(i) # first => old(i) \in InQueue'
    <3>1. ASSUME NEW i \in 0..(q_size - 1), old(i) # first PROVE old(i) \in InQueue'
      <4>1. i - 1 \in 0..(q_size' - 1) /\ i = (i - 1) + 1
        BY <1>7, <3>1
      <4>2. ent(i - 1) = old(i)
        BY <1>4, <4>1
      <4>. QED BY <1>5, <4>1, <4>2
    <3>. QED BY <3>1
  <2>. QED BY <1>5, <2>1, <2>2, <2>3
<1>10. \A i, j \in 0..(q_size' - 1) : ent(i) = ent(j) => i = j
  <2> HIDE DEF old, ent
  <2>1. \A i, j \in 0..(q_size' - 1) : i + 1 = j + 1 => i = j
    OBVIOUS
  <2>. QED BY <1>4, <1>6, <2>1
<1>11. first \in AllPages /\ first # NoPage
  <2>1. first \in Queued
    BY <1>9 DEF IInv, QueueInv
  <2>. QED BY <2>1, PageShape DEF Queued
<1>12. (Busy' <=> Busy) /\ (ppc' = "signal" <=> ppc = "signal")
  BY <1>1 DEF Busy
<1>13. Queued' = Queued /\ Placed' = Placed
  BY <1>1, <1>12, QueuedKept DEF Placed
<1>14. item[c] = NoPage
  BY <1>1 DEF IInv, ConsumerInv
<1> HIDE DEF first, old
<1>15. Held' = Held \cup {first}
  <2>1. Held' = {item'[d] : d \in Consumers} \ {NoPage}
    BY DEF Held
  <2>2. \A x : x \in Held' <=> x # NoPage /\ \E d \in Consumers : x = item'[d]
    BY <2>1
  <2>3. \A x : x \in Held <=> x # NoPage /\ \E d \in Consumers : x = item[d]
    BY DEF Held
  <2>. QED BY <1>8, <1>11, <1>14, <2>2, <2>3
<1>16. QueueInv'
  <2>1. q_head' = Slot(q_tail', q_size')
    <3>1. q_size' \in 0..(q_capacity - 1) /\ q_size' + 1 = q_size
      BY <1>1, <1>2
    <3>2. Slot(Slot(q_tail, 1), q_size') = Slot(q_tail, q_size' + 1)
      BY <1>2, <3>1, NextSlot
    <3>. QED BY <1>1, <3>1, <3>2 DEF IInv, QueueInv
  <2>2. \A i, j \in 0..(q_size' - 1) : Entry(i)' = Entry(j)' => i = j
    BY <1>1, <1>10 DEF Entry
  <2>3. /\ Queued' = InQueue' \cup Held' \cup Placed'
        /\ InQueue' \cap Held' = {} /\ InQueue' \cap Placed' = {} /\ Held' \cap Placed' = {}
    BY <1>9, <1>13, <1>15 DEF IInv, QueueInv
  <2>4. \A d \in Consumers : item[d] # first
    BY <1>9, <1>11 DEF IInv, QueueInv, Held
  <2>5. \A d, e \in Consumers : item'[d] = item'[e] /\ item'[d] # NoPage => d = e
    BY <1>8, <2>4 DEF IInv, QueueInv
  <2>. QED BY <2>1, <2>2, <2>3, <2>5 DEF QueueInv
<1>17. TypeOK'
  <2>1. q_tail' \in Indices /\ q_size' \in 0..q_capacity
    <3>1. 0 \in 0..(q_capacity - 1)
      BY <1>2
    <3>. QED BY <1>1, <1>2, <3>1, NextSlot
  <2>2. item' \in [Consumers -> AllPages \cup {NoPage}]
    BY <1>1, <1>2, <1>8, <1>11
  <2>3. cpc' \in [Consumers -> Places]
    BY <1>1, <1>2 DEF Places
  <2>. QED BY <1>1, <2>1, <2>2, <2>3 DEF IInv, TypeOK, Places
<1>18. ProducerInv'
  BY <1>1, <1>2, <1>12 DEF IInv, ProducerInv
<1>19. SizesInv'
  BY <1>1, <1>12, SizesKept DEF IInv
<1>20. ConsumerInv'
  <2>1. cpc'[c] = "compress" /\ \A d \in Consumers \ {c} : cpc'[d] = cpc[d]
    BY <1>1, <1>2
  <2>2. \A d \in Consumers : cpc[d] # "done"
    BY <1>1 DEF IInv, ConsumerInv
  <2>3. ~printed
    BY <2>2 DEF IInv, ConsumerInv
  <2>. QED BY <1>1, <1>8, <1>11, <2>1, <2>2, <2>3 DEF IInv, ConsumerInv
<1>21. PagesInPlace'
  BY <1>1, PlacesKept DEF IInv
<1>. QED BY <1>16, <1>17, <1>18, <1>19, <1>20, <1>21 DEF IInv

\* A consumer that has compressed a page puts the result where it finds its place.
LEMMA CompressKeeps ==
  ASSUME IInv, NEW c \in Consumers, Compress(c)
  PROVE  IInv'
<1> DEFINE pg == item[c]
           pos == Position(item[c])
<1>1. /\ cpc[c] = "compress" /\ out' = out \cup {<<pos, pg>>}
      /\ item' = [item EXCEPT ![c] = NoPage] /\ cpc' = [cpc EXCEPT ![c] = "loop"]
      /\ UNCHANGED files /\ UNCHANGED queue
      /\ lock' = lock /\ isComp' = isComp /\ ppc' = ppc /\ file' = file /\ page' = page
      /\ printed' = printed /\ buf' = buf /\ q_head' = q_head /\ q_tail' = q_tail
      /\ q_size' = q_size /\ pagePerFile' = pagePerFile /\ total_pages' = total_pages
  BY DEF Compress, At, GoTo, files, queue
<1>2. /\ item \in [Consumers -> AllPages \cup {NoPage}] /\ cpc \in [Consumers -> Places]
      /\ out \subseteq Int \X AllPages
  BY DEF IInv, TypeOK, Places
<1>3. pg # NoPage /\ pg \in Held /\ pg \in AllPages /\ pg \in Queued /\ pg \notin Placed
  <2>1. pg # NoPage
    BY <1>1 DEF IInv, ConsumerInv
  <2>2. pg \in Held
    BY <2>1 DEF Held
  <2>. QED BY <1>2, <2>1, <2>2 DEF IInv, QueueInv
<1>4. pos = RightPosition(pg) + Stray(pg) /\ pos \in Int
  BY <1>3, PositionIs DEF IInv
<1> HIDE DEF pos, pg
<1>6. out' = out \cup {<<pos, pg>>}
  BY <1>1
<1>7. Placed' = Placed \cup {pg}
  <2>1. \A x : x \in Placed' <=> \E e \in out' : x = e[2]
    BY DEF Placed
  <2>2. \A x : x \in Placed <=> \E e \in out : x = e[2]
    BY DEF Placed
  <2>3. \A e : e \in out' <=> e \in out \/ e = <<pos, pg>>
    BY <1>6
  <2>4. <<pos, pg>>[2] = pg
    OBVIOUS
  <2>. QED BY <2>1, <2>2, <2>3, <2>4
<1>8. item'[c] = NoPage /\ \A d \in Consumers \ {c} : item'[d] = item[d]
  BY <1>1, <1>2
<1>9. Held' = Held \ {pg}
  <2>1. Held' = {item'[d] : d \in Consumers} \ {NoPage}
    BY DEF Held
  <2>2. \A x : x \in Held' <=> x # NoPage /\ \E d \in Consumers : x = item'[d]
    BY <2>1
  <2>3. \A x : x \in Held <=> x # NoPage /\ \E d \in Consumers : x = item[d]
    BY DEF Held
  <2>4. \A d \in Consumers : item[d] = pg => d = c
    BY <1>3 DEF IInv, QueueInv, pg
  <2>. QED BY <1>8, <2>2, <2>3, <2>4 DEF pg
<1>10. Queued' = Queued /\ InQueue' = InQueue
  BY <1>1, QueuedKept DEF InQueue
<1>11. QueueInv'
  <2>1. q_head' = Slot(q_tail', q_size')
    BY <1>1 DEF IInv, QueueInv
  <2>2. \A i, j \in 0..(q_size' - 1) : Entry(i)' = Entry(j)' => i = j
    BY <1>1 DEF Entry, IInv, QueueInv
  <2>3. /\ Queued' = InQueue' \cup Held' \cup Placed'
        /\ InQueue' \cap Held' = {} /\ InQueue' \cap Placed' = {} /\ Held' \cap Placed' = {}
    BY <1>3, <1>7, <1>9, <1>10 DEF IInv, QueueInv
  <2>4. \A d, e \in Consumers : item'[d] = item'[e] /\ item'[d] # NoPage => d = e
    BY <1>8 DEF IInv, QueueInv
  <2>. QED BY <2>1, <2>2, <2>3, <2>4 DEF QueueInv
<1>12. TypeOK'
  <2>1. out' \subseteq Int \X AllPages
    BY <1>2, <1>3, <1>4, <1>6
  <2>2. item' \in [Consumers -> AllPages \cup {NoPage}] /\ cpc' \in [Consumers -> Places]
    BY <1>1, <1>2 DEF Places
  <2>. QED BY <1>1, <2>1, <2>2 DEF IInv, TypeOK, Places
<1>13. (Busy' <=> Busy)
  BY <1>1 DEF Busy
<1>14. ProducerInv' /\ SizesInv'
  BY <1>1, <1>13, SizesKept DEF IInv, ProducerInv
<1>15. ConsumerInv'
  <2>1. cpc'[c] = "loop" /\ \A d \in Consumers \ {c} : cpc'[d] = cpc[d]
    BY <1>1, <1>2
  <2>2. ~printed
    BY <1>1 DEF IInv, ConsumerInv
  <2>. QED BY <1>1, <1>8, <2>1, <2>2 DEF IInv, ConsumerInv
<1>16. PagesInPlace'
  <2>1. \A q \in AllPages : Stray(q)' = Stray(q)
    BY <1>1, StrayKept
  <2>2. \A e \in out' : e[2] \in AllPages /\ e[1] = RightPosition(e[2]) + Stray(e[2])
    <3>1. \A e \in out : e[2] \in AllPages /\ e[1] = RightPosition(e[2]) + Stray(e[2])
      BY <1>2 DEF IInv, PagesInPlace
    <3>. QED BY <1>3, <1>4, <1>6, <3>1
  <2>3. \A e \in out' : Stray(e[2])' = Stray(e[2])
    BY <2>1, <2>2
  <2>. QED BY <2>2, <2>3 DEF PagesInPlace, RightPosition
<1>. QED BY <1>11, <1>12, <1>14, <1>15, <1>16 DEF IInv

\* main prints when all have left.
LEMMA PrintKeeps ==
  ASSUME IInv, PrintOutput
  PROVE  IInv'
<1>1. /\ ppc = "done" /\ \A c \in Consumers : cpc[c] = "done"
      /\ printed' = TRUE /\ UNCHANGED <<queue, item, out>> /\ UNCHANGED files
      /\ lock' = lock /\ isComp' = isComp /\ ppc' = ppc /\ file' = file /\ page' = page
      /\ cpc' = cpc /\ buf' = buf /\ q_head' = q_head /\ q_tail' = q_tail
      /\ item' = item /\ out' = out
      /\ q_size' = q_size /\ pagePerFile' = pagePerFile /\ total_pages' = total_pages
  BY DEF PrintOutput, queue, files
<1>2. Busy' <=> Busy
  BY <1>1 DEF Busy
<1>3. TypeOK'
  BY <1>1 DEF IInv, TypeOK
<1>4. ProducerInv' /\ SizesInv'
  BY <1>1, <1>2, SizesKept DEF IInv, ProducerInv
<1>5. QueueInv' /\ PagesInPlace'
  BY <1>1, QueuedKept, QueueKept DEF IInv
<1>6. ConsumerInv'
  BY <1>1 DEF IInv, ConsumerInv
<1>. QED BY <1>3, <1>4, <1>5, <1>6 DEF IInv

\* Every step keeps the invariant.
LEMMA StepKeepsInv ==
  ASSUME IInv, [Next]_vars
  PROVE  IInv'
<1>1. CASE UNCHANGED vars
  <2>1. /\ UNCHANGED <<queue, item, out>> /\ UNCHANGED files
        /\ lock' = lock /\ isComp' = isComp /\ ppc' = ppc /\ file' = file /\ page' = page
        /\ cpc' = cpc /\ printed' = printed /\ buf' = buf /\ q_head' = q_head
        /\ q_tail' = q_tail /\ q_size' = q_size /\ item' = item /\ out' = out
        /\ pagePerFile' = pagePerFile /\ total_pages' = total_pages
    BY <1>1 DEF vars, queue, files
  <2>2. Busy' <=> Busy
    BY <2>1 DEF Busy
  <2>3. TypeOK'
    BY <2>1 DEF IInv, TypeOK
  <2>4. ProducerInv' /\ SizesInv'
    BY <2>1, <2>2, SizesKept DEF IInv, ProducerInv
  <2>5. QueueInv' /\ PagesInPlace'
    BY <2>1, QueuedKept, QueueKept DEF IInv
  <2>6. ConsumerInv'
    BY <2>1 DEF IInv, ConsumerInv
  <2>. QED BY <2>3, <2>4, <2>5, <2>6 DEF IInv
<1>2. CASE Producer
  BY <1>2, OpenFileKeeps, RoomKeeps, PutKeeps, SignalFillKeeps, FinishKeeps DEF Producer
<1>3. ASSUME NEW c \in Consumers, Consumer(c) \/ SpuriousWakeup(c)
      PROVE  IInv'
  BY <1>3, MovesKeep, GetKeeps, CompressKeeps DEF Consumer
<1>4. CASE PrintOutput
  BY <1>4, PrintKeeps
<1>. QED BY <1>1, <1>2, <1>3, <1>4 DEF Next

-----------------------------------------------------------------------------
(* pzip: the theorems *)

\* Every reachable state satisfies the inductive invariant.
THEOREM Invariance == Spec => []IInv
<1>1. IInv /\ [Next]_vars => IInv'
  BY StepKeepsInv
<1>. QED BY InitIInv, <1>1, PTL DEF Spec

\* The queue has as many pages as q_size says.
LEMMA InQueueCount ==
  ASSUME IInv
  PROVE  IsFiniteSet(InQueue) /\ Cardinality(InQueue) = q_size
<1> DEFINE D == 0..(q_size - 1)
           number == [i \in D |-> Entry(i)]
<1>1. q_size \in Nat
  BY PZipAssumption DEF IInv, TypeOK
<1>2. IsFiniteSet(D) /\ Cardinality(D) = q_size
  BY <1>1, FS_Interval
<1>3. InQueue = {Entry(i) : i \in D}
  BY DEF InQueue, Entry, Slot
<1>4. \A i, j \in D : Entry(i) = Entry(j) => i = j
  BY DEF IInv, QueueInv
<1> HIDE DEF D
<1>5. number \in Bijection(D, InQueue)
  <2>1. \A i \in D : number[i] = Entry(i) /\ number[i] \in InQueue
    BY <1>3
  <2>2. DOMAIN number = D /\ number \in [D -> InQueue]
    BY <2>1
  <2> HIDE DEF number
  <2>3. \A i, j \in D : number[i] = number[j] => i = j
    BY <1>4, <2>1
  <2>4. \A x \in InQueue : \E i \in D : number[i] = x
    BY <1>3, <2>1
  <2>. QED BY <2>2, <2>3, <2>4 DEF Bijection, Injection, IsInjective, Surjection
<1>6. ExistsBijection(D, InQueue)
  BY <1>5 DEF ExistsBijection
<1>. QED BY <1>2, <1>6, FS_Bijection

\* Every page put is in exactly one place.
LEMMA Accounted == IInv => PagesAccounted
<1>1. SUFFICES ASSUME IInv PROVE PagesAccounted
  OBVIOUS
<1>2. /\ Queued = InQueue \cup Held \cup Placed
      /\ InQueue \cap Held = {} /\ InQueue \cap Placed = {} /\ Held \cap Placed = {}
      /\ \A c, d \in Consumers : item[c] = item[d] /\ item[c] # NoPage => c = d
  BY <1>1 DEF IInv, QueueInv
<1>3. IsFiniteSet(Queued)
  <2>1. Queued \subseteq AllPages
    BY DEF Queued
  <2>. QED BY <2>1, AllPagesCount, FS_Subset
<1>4. IsFiniteSet(InQueue) /\ IsFiniteSet(Held) /\ IsFiniteSet(Placed)
  BY <1>2, <1>3, FS_Subset
<1>5. Cardinality(InQueue) = q_size
  BY <1>1, InQueueCount
<1>6. /\ IsFiniteSet(InQueue \cup Held)
      /\ Cardinality(InQueue) \in Nat /\ Cardinality(Held) \in Nat
      /\ Cardinality(InQueue \cup Held) = Cardinality(InQueue) + Cardinality(Held)
  BY <1>2, <1>4, DisjointUnion
<1>7. (InQueue \cup Held) \cap Placed = {}
  BY <1>2
<1>8. /\ Cardinality(Placed) \in Nat
      /\ Cardinality((InQueue \cup Held) \cup Placed)
           = Cardinality(InQueue \cup Held) + Cardinality(Placed)
  BY <1>4, <1>6, <1>7, DisjointUnion
<1>9. Cardinality(Queued) = q_size + Cardinality(Held) + Cardinality(Placed)
  BY <1>2, <1>5, <1>6, <1>8
<1>. QED BY <1>2, <1>9 DEF PagesAccounted

\* When main prints, every page is compressed, and every result is at its place
\* if nothing stands in the entries of the empty files before it; and else not.
LEMMA InOrder == IInv => PrintsAllInOrder
<1>1. SUFFICES ASSUME IInv, printed
               PROVE  /\ total_pages = Cardinality(AllPages) /\ Placed = AllPages
                      /\ (out = {<<RightPosition(pg), pg>> : pg \in AllPages})
                           <=> \A pg \in AllPages : Stray(pg) = 0
  BY DEF PrintsAllInOrder
<1>2. PICK c \in Consumers : TRUE
  BY PZipAssumption
<1>3. ppc = "done" /\ \A d \in Consumers : cpc[d] = "done"
  BY <1>1 DEF IInv, ConsumerInv
<1>4. q_size = 0
  BY <1>1, <1>2, <1>3 DEF IInv, ConsumerInv
<1>5. Held = {}
  <2>1. \A d \in Consumers : item[d] = NoPage
    BY <1>1, <1>3 DEF IInv, ConsumerInv
  <2>. QED BY <2>1 DEF Held
<1>6. InQueue = {}
  BY <1>4 DEF InQueue
<1>7. file = Len(PagesIn) + 1 /\ Files = 1..Len(PagesIn) /\ Len(PagesIn) \in Nat
  BY <1>1, <1>3, FilesFacts DEF IInv, ProducerInv
<1>8. \A f \in Files : f < file
  BY <1>7
<1>9. Queued = AllPages /\ Opened = Files
  <2>1. \A pg \in AllPages : Before(pg, <<file, page>>)
    BY <1>8, PageShape DEF Before
  <2>. QED BY <1>8, <2>1 DEF Queued, Opened
<1>10. total_pages = Cardinality(AllPages)
  BY <1>1, <1>9, AllPagesCount DEF IInv, SizesInv
<1>11. Placed = AllPages
  BY <1>1, <1>5, <1>6, <1>9 DEF IInv, QueueInv
<1> DEFINE Right == {<<RightPosition(pg), pg>> : pg \in AllPages}
<1>12. /\ \A e \in out : e = <<RightPosition(e[2]) + Stray(e[2]), e[2]>> /\ e[2] \in AllPages
  <2>1. out \subseteq Int \X AllPages
    BY <1>1 DEF IInv, TypeOK
  <2>2. \A e \in out : e = <<e[1], e[2]>> /\ e[2] \in AllPages
    BY <2>1
  <2>. QED BY <1>1, <2>2 DEF IInv, PagesInPlace
<1>13. \A pg \in AllPages : <<RightPosition(pg) + Stray(pg), pg>> \in out
  <2>1. \A pg \in AllPages : \E e \in out : pg = e[2]
    BY <1>11 DEF Placed
  <2>. QED BY <1>12, <2>1
<1>14. \A e : e \in Right <=> \E pg \in AllPages : e = <<RightPosition(pg), pg>>
  OBVIOUS
<1>15. \A pg \in AllPages : RightPosition(pg) \in Int /\ Stray(pg) \in Int
  BY <1>1, RightPositionIs, StrayIs DEF IInv
<1> HIDE DEF Right
<1>16. ASSUME \A pg \in AllPages : Stray(pg) = 0 PROVE out = Right
  <2>1. \A pg \in AllPages : RightPosition(pg) + Stray(pg) = RightPosition(pg)
    BY <1>15, <1>16
  <2>. QED BY <1>12, <1>13, <1>14, <2>1
<1>17. ASSUME out = Right, NEW pg \in AllPages PROVE Stray(pg) = 0
  <2>1. <<RightPosition(pg) + Stray(pg), pg>> \in Right
    BY <1>13, <1>17
  <2>2. RightPosition(pg) + Stray(pg) = RightPosition(pg)
    BY <1>14, <2>1
  <2>. QED BY <1>15, <2>2
<1>18. out = Right <=> \A pg \in AllPages : Stray(pg) = 0
  BY <1>16, <1>17
<1>. QED BY <1>10, <1>11, <1>18 DEF Right

\* The queue loses no page and hands out none twice, and each compressed page is
\* off its place by what stands in the entries of the empty files before it, and
\* by nothing else (put, get and calculateOutputPosition), whatever the number of
\* consumers, the capacity, the pages of the files and what malloc() leaves.
THEOREM PagesAreKept == Spec => []PZipInv
<1>1. IInv => PZipInv
  BY Accounted DEF IInv, PZipInv
<1>. QED BY Invariance, <1>1, PTL

\* When main prints every page is compressed, and they come in the order of the files
\* exactly if nothing stands in the entries of the empty files before them.
THEOREM OutputIsInOrder == Spec => []PrintsAllInOrder
<1>. QED BY Invariance, InOrder, PTL

-----------------------------------------------------------------------------
(* The shell wish *)

\* What the shell's own copy of the array holds; the children's copies do not matter.
SearchInv ==
  /\ Wish!AtMostOneStale
  /\ paths = [p \in Wish!Procs |-> paths[p]]
  /\ paths[0] \in [0..(MaxDirs + 1) -> {paths[0][n] : n \in 0..(MaxDirs + 1)}]

\* Where the shell and its children can be, and how many children a loop of
\* wait() has left to collect.
ShellInv ==
  /\ Wish!TypeOK /\ SearchInv
  /\ at[0] \in {"prompt", "fork", "analyze", "waitpid", "wait", "exited"}
  /\ \A p \in Wish!Jobs : at[p] \in {"none", "analyze", "waitpid", "zombie"}
  /\ \A p \in Wish!Procs : program[p] # "none" => at[p] = "waitpid"
  /\ at[0] \in {"fork", "analyze", "waitpid", "wait"} => line \in Lines /\ forked <= Wish!Children
  /\ at[0] = "prompt" => Wish!Forks = {}
  /\ at[0] = "fork" => \A p \in Wish!Forks : p <= forked
  /\ at[0] \in {"analyze", "waitpid"} => forked = 0 /\ \A p \in Wish!Forks : p <= Wish!Children
  /\ at[0] = "wait" => Cardinality(Wish!Forks) <= Wish!Children - forked

\* Processes are numbers, finitely many.
LEMMA ShellFacts ==
  ASSUME Wish!LinesFit, ShellInv
  PROVE  /\ 0 \in Wish!Procs /\ 0 \notin Wish!Jobs
         /\ Wish!Procs = {0} \cup Wish!Jobs /\ Wish!Jobs \subseteq Nat
         /\ at \in [Wish!Procs ->
                     {"prompt", "fork", "analyze", "waitpid", "wait", "zombie", "none", "exited"}]
         /\ program \in [Wish!Procs -> {"none", "runs", "zombie"}]
         /\ IsFiniteSet(Wish!Forks) /\ Cardinality(Wish!Forks) \in Nat
         /\ forked \in Nat
         /\ at[0] \in {"fork", "analyze", "waitpid", "wait"} =>
              Wish!Children \in Nat /\ Wish!Children <= MaxChildren
<1>1. MaxChildren \in Nat /\ Wish!Jobs = 1..MaxChildren
  BY DEF Wish!LinesFit, Wish!Jobs
<1>2. IsFiniteSet(Wish!Forks) /\ Cardinality(Wish!Forks) \in Nat
  <2>1. IsFiniteSet(Wish!Jobs)
    BY <1>1, FS_Interval
  <2>2. Wish!Forks \in SUBSET Wish!Jobs
    BY DEF Wish!Forks
  <2>. QED BY <2>1, <2>2, FS_Subset, FS_CardinalityType
<1>3. forked \in Nat
  BY <1>1 DEF ShellInv, Wish!TypeOK
<1>4. ASSUME line \in Lines PROVE Wish!Children \in Nat /\ Wish!Children <= MaxChildren
  BY <1>1, <1>4 DEF Wish!LinesFit, Wish!Children
<1>. QED BY <1>1, <1>2, <1>3, <1>4 DEF ShellInv, Wish!TypeOK, Wish!Procs

\* The shell starts without children.
LEMMA ShellInit ==
  ASSUME Wish!LinesFit, Wish!Init
  PROVE  ShellInv
<1>1. /\ MaxChildren \in Nat /\ MaxDirs \in Nat
      /\ Wish!Procs = {0} \cup Wish!Jobs /\ Wish!Jobs = 1..MaxChildren
  BY DEF Wish!LinesFit, Wish!Jobs, Wish!Procs
<1>2. /\ at \in [Wish!Procs -> {"prompt", "none"}] /\ at[0] = "prompt"
      /\ \A p \in Wish!Jobs : at[p] = "none"
  BY <1>1 DEF Wish!Init
<1>3. Wish!TypeOK
  BY <1>1, <1>2 DEF Wish!Init, Wish!TypeOK
<1>4. /\ paths = [p \in Wish!Procs |-> paths[p]]
      /\ paths[0] \in [0..(MaxDirs + 1) -> {paths[0][n] : n \in 0..(MaxDirs + 1)}]
      /\ paths[0][0] = Bin /\ paths[0][1] = NULL
  <2>1. paths[0] = [n \in 0..(MaxDirs + 1) |-> IF n = 0 THEN Bin ELSE NULL]
    BY <1>1 DEF Wish!Init
  <2>2. paths = [p \in Wish!Procs |-> paths[p]]
    BY DEF Wish!Init
  <2>. QED BY <1>1, <2>1, <2>2
<1>5. Wish!AtMostOneStale
  <2>1. named = <<Bin>> /\ Len(named) = 1 /\ DOMAIN named = {1} /\ named[1] = Bin
    BY DEF Wish!Init
  <2>. QED BY <1>4, <2>1 DEF Wish!AtMostOneStale
<1>6. Wish!Forks = {}
  BY <1>2 DEF Wish!Forks
<1>7. \A p \in Wish!Procs : program[p] = "none"
  BY DEF Wish!Init
<1>. QED BY <1>2, <1>3, <1>4, <1>5, <1>6, <1>7 DEF ShellInv, SearchInv

\* A child's copy of the array is none of the shell's business.
LEMMA SearchKeeps ==
  ASSUME SearchInv, 0 \in Wish!Procs, named' = named,
         paths' = paths \/ \E p \in Wish!Procs \ {0} : \E v : paths' = [paths EXCEPT ![p] = v]
  PROVE  SearchInv'
<1>1. paths'[0] = paths[0] /\ paths' = [p \in Wish!Procs |-> paths'[p]]
  BY DEF SearchInv, Wish!Procs, Wish!Jobs
<1>. QED BY <1>1 DEF SearchInv, Wish!AtMostOneStale, Wish!Procs, Wish!Jobs

\* A step of the shell itself.
LEMMA ShellSteps ==
  ASSUME Wish!LinesFit, ShellInv, Wish!GetLine \/ Wish!EndOfInput \/ Wish!Shell
  PROVE  ShellInv'
<1>1. /\ 0 \in Wish!Procs /\ 0 \notin Wish!Jobs
      /\ Wish!Procs = {0} \cup Wish!Jobs /\ Wish!Jobs \subseteq Nat
      /\ at \in [Wish!Procs ->
                  {"prompt", "fork", "analyze", "waitpid", "wait", "zombie", "none", "exited"}]
      /\ program \in [Wish!Procs -> {"none", "runs", "zombie"}]
      /\ IsFiniteSet(Wish!Forks) /\ Cardinality(Wish!Forks) \in Nat
      /\ forked \in Nat /\ MaxChildren \in Nat /\ Wish!Jobs = 1..MaxChildren
      /\ at[0] \in {"fork", "analyze", "waitpid", "wait"} =>
           Wish!Children \in Nat /\ Wish!Children <= MaxChildren
  BY ShellFacts DEF Wish!LinesFit, Wish!Jobs
<1>2. UNCHANGED <<program, named>>
  BY DEF Wish!GetLine, Wish!EndOfInput, Wish!Shell, Wish!Fork, Wish!Forked, Wish!Wait, Wish!NextLine
<1>3. SearchInv'
  <2>1. CASE Wish!Fork
    <3>1. /\ at[0] = "fork" /\ forked < Wish!Children
          /\ \/ paths' = [paths EXCEPT ![forked + 1] = paths[0]]
             \/ paths' = paths
      BY <2>1 DEF Wish!Fork
    <3>2. forked + 1 \in Wish!Procs \ {0}
      BY <1>1, <3>1
    <3>. QED BY <1>1, <1>2, <3>1, <3>2, SearchKeeps DEF ShellInv
  <2>2. ASSUME ~Wish!Fork PROVE paths' = paths
    BY <2>2 DEF Wish!GetLine, Wish!EndOfInput, Wish!Shell, Wish!Forked, Wish!Wait, Wish!NextLine
  <2>. QED BY <1>1, <1>2, <2>1, <2>2, SearchKeeps DEF ShellInv
<1>4. CASE Wish!GetLine
  <2>1. /\ line' \in Lines /\ forked' = 0 /\ at' = [at EXCEPT ![0] = "fork"] /\ at[0] = "prompt"
    BY <1>4 DEF Wish!GetLine, Wish!GoTo
  <2>2. Wish!Forks = {}
    BY <2>1 DEF ShellInv
  <2>3. Wish!Forks' = {}
    BY <1>1, <2>1, <2>2 DEF Wish!Forks
  <2>4. Wish!Children' \in Nat
    BY <2>1 DEF Wish!LinesFit, Wish!Children
  <2>. QED BY <1>1, <1>2, <1>3, <2>1, <2>3, <2>4 DEF ShellInv, Wish!TypeOK
<1>5. CASE Wish!EndOfInput
  <2>1. UNCHANGED <<line, forked>> /\ at' = [at EXCEPT ![0] = "exited"] /\ at[0] = "prompt"
    BY <1>5 DEF Wish!EndOfInput, Wish!GoTo
  <2>. QED BY <1>1, <1>2, <1>3, <2>1 DEF ShellInv, Wish!TypeOK
<1>6. CASE Wish!Fork
  <2>1. /\ at[0] = "fork" /\ forked < Wish!Children /\ forked' = forked + 1 /\ line' = line
        /\ at' = [at EXCEPT ![forked + 1] = "analyze"] \/ at' = at
    BY <1>6 DEF Wish!Fork, Wish!GoTo
  <2>2. forked + 1 \in Wish!Jobs /\ Wish!Children' = Wish!Children
    BY <1>1, <2>1 DEF Wish!Children
  <2>3. \A p \in Wish!Forks' : p \in Wish!Forks \/ p = forked + 1
    BY <1>1, <2>1, <2>2 DEF Wish!Forks
  <2>4. \A p \in Wish!Forks' : p <= forked'
    BY <1>1, <2>1, <2>3 DEF ShellInv, Wish!Forks
  <2>5. at'[0] = "fork" /\ \A p \in Wish!Procs : program'[p] # "none" => at'[p] = "waitpid"
    <3>1. program[forked + 1] = "none"
      BY <1>1, <2>1, <2>2, <2>4 DEF ShellInv, Wish!Forks
    <3>. QED BY <1>1, <1>2, <2>1, <2>2, <3>1 DEF ShellInv
  <2>. QED BY <1>1, <1>2, <1>3, <2>1, <2>2, <2>4, <2>5 DEF ShellInv, Wish!TypeOK
<1>7. CASE Wish!Forked
  <2>1. /\ at[0] = "fork" /\ forked = Wish!Children /\ forked' = 0 /\ line' = line
        /\ at' = [at EXCEPT ![0] = "analyze"]
    BY <1>7 DEF Wish!Forked, Wish!GoTo
  <2>2. Wish!Forks' = Wish!Forks /\ Wish!Children' = Wish!Children
    BY <1>1, <2>1 DEF Wish!Forks, Wish!Children
  <2>. QED BY <1>1, <1>2, <1>3, <2>1, <2>2 DEF ShellInv, Wish!TypeOK
<1>8. CASE Wish!Wait
  <2>1. /\ at[0] = "wait" /\ forked < Wish!Children /\ forked' = forked + 1 /\ line' = line
        /\ \/ Wish!Forks = {} /\ at' = at
           \/ \E p \in Wish!Forks : at[p] = "zombie" /\ at' = [at EXCEPT ![p] = "none"]
    BY <1>8 DEF Wish!Wait, Wish!GoTo
  <2>2. Wish!Children' = Wish!Children /\ Wish!Children \in Nat
    BY <1>1, <2>1 DEF Wish!Children
  <2>3. Cardinality(Wish!Forks) <= Wish!Children - forked
    BY <2>1 DEF ShellInv
  <2>4. CASE Wish!Forks = {} /\ at' = at
    <3>1. Wish!Forks' = {}
      BY <2>4 DEF Wish!Forks
    <3>2. Cardinality(Wish!Forks') <= Wish!Children' - forked'
      BY <1>1, <2>1, <2>2, <3>1, FS_EmptySet
    <3>. QED BY <1>1, <1>2, <1>3, <2>1, <2>2, <2>4, <3>2 DEF ShellInv, Wish!TypeOK
  <2>5. ASSUME NEW p \in Wish!Forks, at[p] = "zombie", at' = [at EXCEPT ![p] = "none"]
        PROVE  ShellInv'
    <3>1. p \in Wish!Jobs /\ p # 0
      BY <1>1 DEF Wish!Forks
    <3>2. Wish!Forks' = Wish!Forks \ {p}
      BY <1>1, <2>5, <3>1 DEF Wish!Forks
    <3>3. Cardinality(Wish!Forks \ {p}) = Cardinality(Wish!Forks) - 1
      BY <1>1, FS_RemoveElement
    <3>4. Cardinality(Wish!Forks)' <= Wish!Children' - forked'
      BY <1>1, <2>1, <2>2, <2>3, <3>2, <3>3
    <3>5. at'[0] = "wait" /\ \A q \in Wish!Procs : program'[q] # "none" => at'[q] = "waitpid"
      BY <1>1, <1>2, <2>1, <2>5, <3>1 DEF ShellInv
    <3>6. forked' <= Wish!Children' /\ forked' \in 0..MaxChildren
      BY <1>1, <2>1, <2>2
    <3>7. Wish!TypeOK'
      BY <1>1, <1>2, <2>1, <2>5, <3>1, <3>6 DEF ShellInv, Wish!TypeOK
    <3>8. \A q \in Wish!Jobs : at'[q] \in {"none", "analyze", "waitpid", "zombie"}
      BY <1>1, <2>5, <3>1 DEF ShellInv
    <3>. QED BY <1>3, <2>1, <3>4, <3>5, <3>6, <3>7, <3>8 DEF ShellInv
  <2>. QED BY <2>1, <2>4, <2>5
<1>9. CASE Wish!NextLine
  <2>1. /\ at[0] = "wait" /\ forked >= Wish!Children /\ forked' = 0 /\ line' = <<>>
        /\ at' = [at EXCEPT ![0] = "prompt"]
    BY <1>9 DEF Wish!NextLine, Wish!GoTo
  <2>2. Cardinality(Wish!Forks) = 0
    <3>1. Cardinality(Wish!Forks) <= Wish!Children - forked /\ forked <= Wish!Children
      BY <2>1 DEF ShellInv
    <3>2. Wish!Children \in Nat
      BY <1>1, <2>1
    <3>. QED BY <1>1, <2>1, <3>1, <3>2
  <2>3. Wish!Forks = {}
    BY <1>1, <2>2, FS_EmptySet
  <2>4. Wish!Forks' = {}
    BY <1>1, <2>1, <2>3 DEF Wish!Forks
  <2>. QED BY <1>1, <1>2, <1>3, <2>1, <2>4 DEF ShellInv, Wish!TypeOK
<1>. QED BY <1>4, <1>5, <1>6, <1>7, <1>8, <1>9 DEF Wish!Shell

\* "path" leaves at most one directory of an earlier one.
LEMMA PathKeepsOne ==
  ASSUME Wish!LinesFit, ShellInv, Wish!Path(0)
  PROVE  SearchInv'
<1> DEFINE dirs == Wish!Last(line).args
<1>0. 0 \in Wish!Procs
  BY ShellFacts
<1>1. paths' = [paths EXCEPT ![0] = Wish!PathSet(0, dirs)] /\ named' = dirs
  BY DEF Wish!Path, Wish!Command
<1>2. line \in Lines /\ Wish!Last(line).name = "path"
  BY DEF Wish!Path, Wish!Command, ShellInv
<1>3. dirs \in Seq(Wish!Range(dirs)) /\ Len(dirs) <= MaxDirs /\ MaxDirs \in Nat
  BY <1>2 DEF Wish!LinesFit
<1>4. Len(dirs) \in Nat /\ DOMAIN dirs = 1..Len(dirs)
  BY <1>3
<1>5. DOMAIN paths[0] = 0..(MaxDirs + 1) /\ paths = [p \in Wish!Procs |-> paths[p]]
  BY DEF ShellInv, SearchInv
<1> HIDE DEF dirs
<1>6. paths'[0] = Wish!PathSet(0, dirs) /\ paths' = [p \in Wish!Procs |-> paths'[p]]
  BY <1>0, <1>1, <1>5
<1>7. /\ DOMAIN paths'[0] = 0..(MaxDirs + 1)
      /\ paths'[0] = [n \in 0..(MaxDirs + 1) |-> paths'[0][n]]
      /\ \A n \in 0..(MaxDirs + 1) : n < Len(dirs) => paths'[0][n] = dirs[n + 1]
      /\ paths'[0][Len(dirs) + 1] = NULL
  BY <1>3, <1>4, <1>5, <1>6 DEF Wish!PathSet
<1>8. \A n \in DOMAIN named' : paths'[0][n - 1] = named'[n]
  <2> SUFFICES ASSUME NEW n \in 1..Len(dirs) PROVE paths'[0][n - 1] = dirs[n]
    BY <1>1, <1>4
  <2>1. n - 1 \in 0..(MaxDirs + 1) /\ n - 1 < Len(dirs) /\ (n - 1) + 1 = n
    BY <1>3, <1>4
  <2>. QED BY <1>7, <2>1
<1>9. Len(named') + 1 \in 0..(Len(named') + 1)
  BY <1>1, <1>4
<1>10. Wish!AtMostOneStale'
  BY <1>1, <1>7, <1>8, <1>9 DEF Wish!AtMostOneStale
<1>11. (paths[0] \in [0..(MaxDirs + 1) -> {paths[0][n] : n \in 0..(MaxDirs + 1)}])'
  BY <1>7
<1>. QED BY <1>6, <1>10, <1>11 DEF SearchInv

\* A process that has analyzed its command, and whose program is gone, goes on to wait
\* or to exit.
LEMMA GoesOn ==
  ASSUME Wish!LinesFit, ShellInv, NEW p \in Wish!Procs, at[p] \in {"analyze", "waitpid"},
         NEW place, at' = [at EXCEPT ![p] = place],
         place = Wish!Done(p) \/ place = "waitpid" \/ (p = 0 /\ place = "exited"),
         UNCHANGED <<line, forked>>, program' \in [Wish!Procs -> {"none", "runs", "zombie"}],
         \A q \in Wish!Procs : program'[q] # "none" => at'[q] = "waitpid",
         SearchInv'
  PROVE  ShellInv'
<1>1. /\ 0 \in Wish!Procs /\ 0 \notin Wish!Jobs
      /\ Wish!Procs = {0} \cup Wish!Jobs /\ Wish!Jobs \subseteq Nat
      /\ at \in [Wish!Procs ->
                  {"prompt", "fork", "analyze", "waitpid", "wait", "zombie", "none", "exited"}]
      /\ IsFiniteSet(Wish!Forks) /\ Cardinality(Wish!Forks) \in Nat
      /\ forked \in Nat /\ MaxChildren \in Nat /\ Wish!Jobs = 1..MaxChildren
      /\ at[0] \in {"fork", "analyze", "waitpid", "wait"} =>
           Wish!Children \in Nat /\ Wish!Children <= MaxChildren
  BY ShellFacts DEF Wish!LinesFit, Wish!Jobs
<1>2. Wish!Children' = Wish!Children
  BY DEF Wish!Children
<1>3. CASE p # 0
  <2>1. place \in {"zombie", "waitpid"} /\ p \in Wish!Jobs
    BY <1>1, <1>3 DEF Wish!Done
  <2>2. at'[0] = at[0] /\ Wish!Forks' = Wish!Forks
    BY <1>1, <1>3, <2>1 DEF Wish!Forks
  <2>3. at' \in [Wish!Procs ->
                  {"prompt", "fork", "analyze", "waitpid", "wait", "zombie", "none", "exited"}]
    BY <1>1, <2>1
  <2>4. \A q \in Wish!Jobs : at'[q] \in {"none", "analyze", "waitpid", "zombie"}
    BY <1>1, <2>1 DEF ShellInv
  <2>. QED BY <1>2, <2>2, <2>3, <2>4 DEF ShellInv, Wish!TypeOK
<1>4. CASE p = 0
  <2>1. place \in {"wait", "waitpid", "exited"}
    BY <1>4 DEF Wish!Done
  <2>2. at'[0] = place /\ Wish!Forks' = Wish!Forks
    BY <1>1, <1>4 DEF Wish!Forks
  <2>3. at' \in [Wish!Procs ->
                  {"prompt", "fork", "analyze", "waitpid", "wait", "zombie", "none", "exited"}]
    BY <1>1, <1>4, <2>1
  <2>4. \A q \in Wish!Jobs : at'[q] \in {"none", "analyze", "waitpid", "zombie"}
    BY <1>1, <1>4 DEF ShellInv
  <2>5. /\ line \in Lines /\ forked = 0 /\ Wish!Children \in Nat /\ Wish!Children <= MaxChildren
        /\ \A q \in Wish!Forks : q <= Wish!Children
    BY <1>1, <1>4 DEF ShellInv
  <2>6. Cardinality(Wish!Forks) <= Wish!Children
    <3>1. Wish!Forks \in SUBSET (1..Wish!Children)
      BY <1>1, <2>5 DEF Wish!Forks
    <3>2. IsFiniteSet(1..Wish!Children) /\ Cardinality(1..Wish!Children) = Wish!Children
      BY <2>5, FS_Interval
    <3>. QED BY <3>1, <3>2, FS_Subset
  <2>7. Cardinality(Wish!Forks)' <= Wish!Children' - forked'
    BY <1>1, <1>2, <2>2, <2>5, <2>6
  <2>. QED BY <1>2, <2>1, <2>2, <2>3, <2>4, <2>5, <2>7 DEF ShellInv, Wish!TypeOK
<1>. QED BY <1>3, <1>4

\* A step of the shell or of a child with its command.
LEMMA AnalyzeSteps ==
  ASSUME Wish!LinesFit, ShellInv, NEW p \in Wish!Procs, Wish!Analyze(p)
  PROVE  ShellInv'
<1>1. /\ 0 \in Wish!Procs /\ Wish!Procs = {0} \cup Wish!Jobs
      /\ at \in [Wish!Procs ->
                  {"prompt", "fork", "analyze", "waitpid", "wait", "zombie", "none", "exited"}]
      /\ program \in [Wish!Procs -> {"none", "runs", "zombie"}]
      /\ \A q \in Wish!Procs : program[q] # "none" => at[q] = "waitpid"
  BY ShellFacts DEF ShellInv
<1>2. ASSUME UNCHANGED <<paths, named>> PROVE SearchInv'
  BY <1>1, <1>2, SearchKeeps DEF ShellInv
<1>3. CASE Wish!Path(p)
  <2>1. /\ at[p] = "analyze" /\ at' = [at EXCEPT ![p] = Wish!Done(p)]
        /\ UNCHANGED <<line, program, forked>>
        /\ p # 0 => named' = named /\ \E v : paths' = [paths EXCEPT ![p] = v]
    BY <1>3 DEF Wish!Path, Wish!GoTo
  <2>2. SearchInv'
    BY <1>1, <1>3, <2>1, PathKeepsOne, SearchKeeps DEF ShellInv
  <2>3. \A q \in Wish!Procs : program'[q] # "none" => at'[q] = "waitpid"
    BY <1>1, <2>1
  <2>. QED BY <1>1, <2>1, <2>2, <2>3, GoesOn
<1>4. CASE Wish!ExitBuiltin(p) \/ Wish!NoProgram(p)
  <2>1. PICK place : /\ at[p] = "analyze" /\ at' = [at EXCEPT ![p] = place]
                     /\ place = Wish!Done(p) \/ (p = 0 /\ place = "exited")
                     /\ UNCHANGED <<line, program, forked, paths, named>>
    BY <1>4 DEF Wish!ExitBuiltin, Wish!NoProgram, Wish!GoTo, Wish!Done
  <2>2. \A q \in Wish!Procs : program'[q] # "none" => at'[q] = "waitpid"
    BY <1>1, <2>1
  <2>. QED BY <1>1, <1>2, <2>1, <2>2, GoesOn
<1>5. CASE Wish!ForkProgram(p)
  <2>1. /\ at[p] = "analyze" /\ at' = [at EXCEPT ![p] = "waitpid"]
        /\ program' = [program EXCEPT ![p] = "runs"] /\ UNCHANGED <<line, forked, paths, named>>
    BY <1>5 DEF Wish!ForkProgram, Wish!GoTo
  <2>2. \A q \in Wish!Procs : program'[q] # "none" => at'[q] = "waitpid"
    BY <1>1, <2>1
  <2>. QED BY <1>1, <1>2, <2>1, <2>2, GoesOn
<1>6. CASE Wish!WaitForProgram(p)
  <2>1. /\ at[p] = "waitpid" /\ at' = [at EXCEPT ![p] = Wish!Done(p)]
        /\ program' = [program EXCEPT ![p] = "none"] /\ UNCHANGED <<line, forked, paths, named>>
    BY <1>6 DEF Wish!WaitForProgram, Wish!GoTo
  <2>2. \A q \in Wish!Procs : program'[q] # "none" => at'[q] = "waitpid"
    BY <1>1, <2>1
  <2>. QED BY <1>1, <1>2, <2>1, <2>2, GoesOn
<1>7. CASE Wish!ProgramEnds(p)
  <2>1. /\ program[p] = "runs" /\ program' = [program EXCEPT ![p] = "zombie"]
        /\ UNCHANGED <<line, at, forked, paths, named>>
    BY <1>7 DEF Wish!ProgramEnds
  <2>2. Wish!Children' = Wish!Children /\ Wish!Forks' = Wish!Forks
    BY <2>1 DEF Wish!Children, Wish!Forks
  <2>3. Wish!TypeOK' /\ \A q \in Wish!Procs : program'[q] # "none" => at'[q] = "waitpid"
    BY <1>1, <2>1 DEF ShellInv, Wish!TypeOK
  <2>. QED BY <1>2, <2>1, <2>2, <2>3 DEF ShellInv
<1>. QED BY <1>3, <1>4, <1>5, <1>6, <1>7 DEF Wish!Analyze

\* When the shell reads a line, no process of the lines before is left, running or not
\* reaped, whichever fork() failed (wish.c:95 and 236), and it searches at most one
\* directory too many (wish.c:215-219); for any lines and numbers of children.
THEOREM ShellLeavesNothing == ASSUME Wish!LinesFit PROVE Wish!Spec => []Wish!WishInv
<1>1. Wish!Init => ShellInv
  BY ShellInit
<1>2. ShellInv /\ [Wish!Next]_(Wish!vars) => ShellInv'
  <2>1. ASSUME ShellInv, UNCHANGED Wish!vars PROVE ShellInv'
    <3>1. Wish!Forks' = Wish!Forks /\ Wish!Children' = Wish!Children
      BY <2>1 DEF Wish!vars, Wish!Forks, Wish!Children
    <3>. QED BY <2>1, <3>1 DEF Wish!vars, ShellInv, SearchInv, Wish!TypeOK, Wish!AtMostOneStale
  <2>. QED BY <2>1, ShellSteps, AnalyzeSteps DEF Wish!Next
<1>3. ShellInv => Wish!WishInv
  <2> SUFFICES ASSUME ShellInv PROVE Wish!NothingLeft
    BY DEF ShellInv, SearchInv, Wish!WishInv
  <2>1. ASSUME at[0] = "prompt", NEW p \in Wish!Procs PROVE program[p] = "none"
    <3>1. p # 0 => p \in Wish!Jobs
      BY DEF Wish!Procs
    <3>2. at[p] # "waitpid"
      BY <2>1, <3>1 DEF ShellInv, Wish!Forks
    <3>. QED BY <3>2 DEF ShellInv
  <2>. QED BY <2>1 DEF ShellInv, Wish!NothingLeft
<1>. QED BY <1>1, <1>2, <1>3, PTL DEF Wish!Spec

-----------------------------------------------------------------------------
(* malloc() and free() of xv6's programs: the ring of free blocks *)

\* Of subsets of a finite set that are given to its elements, one is minimal.
LEMMA Minimal ==
  ASSUME NEW S, IsFiniteSet(S), S # {}, NEW up \in [S -> SUBSET S]
  PROVE  \E m \in S : \A s \in S : up[s] \subseteq up[m] => up[s] = up[m]
<1> DEFINE Bad == {up[s] : s \in S}
<1>1. Bad \in SUBSET (SUBSET S) /\ Bad # {}
  OBVIOUS
<1>2. PICK M \in Bad : \A N \in Bad : N \subseteq M => N = M
  <2> HIDE DEF Bad
  <2>. QED BY <1>1, MinimalSubset
<1>. QED BY <1>2

\* A set of numbers with an upper bound has a greatest element.
LEMMA Greatest ==
  ASSUME NEW S, S \subseteq Nat, NEW n \in Nat, \A s \in S : s <= n, S # {}
  PROVE  \E m \in S : \A s \in S : s <= m
<1> DEFINE up == [s \in S |-> {x \in S : s <= x}]
<1>1. IsFiniteSet(S)
  BY FS_BoundedSetOfNaturals
<1>2. S # {} /\ up \in [S -> SUBSET S]
  OBVIOUS
<1>3. PICK m \in S : \A s \in S : up[s] \subseteq up[m] => up[s] = up[m]
  <2> HIDE DEF up
  <2>. QED BY ONLY <1>1, <1>2, Minimal
<1>4. ASSUME NEW s \in S, m < s PROVE FALSE
  <2>1. m \in Nat /\ s \in Nat
    OBVIOUS
  <2>2. up[s] \subseteq up[m]
    <3> SUFFICES ASSUME NEW x \in S, s <= x PROVE m <= x
      OBVIOUS
    <3>1. x \in Nat
      OBVIOUS
    <3>. QED BY <1>4, <2>1, <3>1
  <2>3. m \in up[m] /\ m \notin up[s]
    BY <1>4, <2>1
  <2>. QED BY <1>3, <2>2, <2>3
<1>. QED BY <1>4

\* A set of numbers has a least element.
LEMMA Least ==
  ASSUME NEW S \in SUBSET Nat, S # {}
  PROVE  \E m \in S : \A s \in S : m <= s
<1>1. PICK n \in S : TRUE
  OBVIOUS
<1> DEFINE T == {n - s : s \in {x \in S : x <= n}}
<1>2. T \in SUBSET Nat /\ T # {} /\ \A t \in T : t <= n
  OBVIOUS
<1>3. PICK k \in T : \A t \in T : t <= k
  <2> HIDE DEF T
  <2>. QED BY <1>2, Greatest
<1>4. PICK m \in S : m <= n /\ k = n - m
  OBVIOUS
<1>5. ASSUME NEW s \in S PROVE m <= s
  <2>1. CASE s <= n
    BY <1>3, <1>4, <2>1
  <2>2. CASE ~(s <= n)
    BY <1>4, <2>2
  <2>. QED BY <2>1, <2>2
<1>. QED BY <1>5

\* The block after b in the ring r is the next one, and does not touch it, or it is
\* base, and b the last.
Follows(r, b) ==
  \/ /\ b + r[b].size < r[b].ptr
     /\ \A x \in DOMAIN r : x <= b \/ r[b].ptr <= x
  \/ /\ r[b].ptr = 0
     /\ \A x \in DOMAIN r : x <= b

\* A ring of free blocks, from base, below address t.
Ring(r, t) ==
  /\ 0 \in DOMAIN r /\ r[0].size = 0
  /\ \A b \in DOMAIN r : /\ b \in Nat
                         /\ r[b] = [ptr |-> r[b].ptr, size |-> r[b].size]
                         /\ r[b].ptr \in DOMAIN r /\ r[b].size \in Nat
                         /\ Follows(r, b)
  /\ \A b \in DOMAIN r \ {0} : Heap <= b /\ r[b].size > 0 /\ b + r[b].size <= t

\* Unit u is in a free block.
InRing(r, u) == \E b \in DOMAIN r \ {0} : b <= u /\ u < b + r[b].size

\* n units at b, none of them in a free block.
Gap(r, t, b, n) ==
  /\ b \in Nat /\ n \in Nat /\ n > 0 /\ Heap <= b /\ b + n <= t
  /\ \A x \in DOMAIN r \ {0} : x + r[x].size <= b \/ b + n <= x

\* free() finds the last block below b.
LEMMA PlaceIs ==
  ASSUME Umalloc!SizesFit, NEW r, NEW t \in Nat, Ring(r, t), NEW b \in Nat, b > 0, b \notin DOMAIN r
  PROVE  LET p == Umalloc!Place(r, b) IN
         /\ p \in DOMAIN r /\ p < b
         /\ \A x \in DOMAIN r : x < b => x <= p
         /\ b < r[p].ptr \/ (r[p].ptr = 0 /\ \A x \in DOMAIN r : x < b)
<1>1. \A x \in DOMAIN r : x \in Nat /\ r[x].ptr \in Nat /\ r[x].size \in Nat /\ Follows(r, x)
  BY DEF Ring
<1>2. ASSUME NEW p \in DOMAIN r, Umalloc!StopsAt(r, p, b)
      PROVE  /\ p < b
             /\ \A x \in DOMAIN r : x < b => x <= p
             /\ b < r[p].ptr \/ (r[p].ptr = 0 /\ \A x \in DOMAIN r : x < b)
  <2>1. CASE p < b /\ b < r[p].ptr
    BY <1>1, <2>1 DEF Follows
  <2>2. CASE p >= r[p].ptr /\ (b > p \/ b < r[p].ptr)
    <3>1. r[p].ptr = 0 /\ \A x \in DOMAIN r : x <= p
      BY <1>1, <2>2 DEF Follows
    <3>. QED BY <1>1, <2>2, <3>1
  <2>. QED BY <1>2, <2>1, <2>2 DEF Umalloc!StopsAt
<1>3. \E p \in DOMAIN r : Umalloc!StopsAt(r, p, b)
  <2> DEFINE S == {x \in DOMAIN r : x < b}
  <2>1. S \in SUBSET Nat /\ 0 \in S /\ \A s \in S : s <= b
    BY <1>1 DEF Ring
  <2>2. PICK p \in S : \A s \in S : s <= p
    <3> HIDE DEF S
    <3>. QED BY <2>1, Greatest
  <2>3. p \in DOMAIN r /\ p < b /\ \A x \in DOMAIN r : x < b => x <= p
    BY <2>2
  <2>4. r[p].ptr \in DOMAIN r /\ r[p].ptr # b
    BY <2>3 DEF Ring
  <2>5. CASE p + r[p].size < r[p].ptr
    <3>1. b < r[p].ptr
      BY <1>1, <2>3, <2>4, <2>5
    <3>. QED BY <2>3, <3>1 DEF Umalloc!StopsAt
  <2>6. CASE r[p].ptr = 0
    BY <1>1, <2>3, <2>6 DEF Umalloc!StopsAt
  <2>. QED BY <1>1, <2>3, <2>5, <2>6 DEF Follows
<1>4. Umalloc!Place(r, b) \in DOMAIN r /\ Umalloc!StopsAt(r, Umalloc!Place(r, b), b)
  BY <1>3 DEF Umalloc!Place
<1>. QED BY <1>2, <1>4

\* Base lies below every other block, and the units that are given back have no block
\* among them.
LEMMA GapIsFree ==
  ASSUME Umalloc!SizesFit, NEW r, NEW t \in Nat, Ring(r, t), NEW b, NEW n, Gap(r, t, b, n)
  PROVE  b \in Nat /\ n \in Nat /\ n > 0 /\ b > 0 /\ b \notin DOMAIN r
<1>1. Heap \in Nat /\ Heap > 0
  BY DEF Umalloc!SizesFit
<1>2. b \in Nat /\ n \in Nat /\ n > 0 /\ b > 0
  BY <1>1 DEF Gap
<1>3. ASSUME b \in DOMAIN r PROVE FALSE
  <2>1. b \in DOMAIN r \ {0} /\ r[b].size > 0 /\ r[b].size \in Nat
    BY <1>2, <1>3 DEF Ring
  <2>. QED BY <1>2, <2>1 DEF Gap
<1>. QED BY <1>2, <1>3

\* Half way through free(): the block b, all of it, stands after p, which is not linked
\* to it yet.
Half(r, t, p, b) ==
  /\ 0 \in DOMAIN r /\ r[0].size = 0
  /\ p \in DOMAIN r /\ b \in DOMAIN r /\ p < b /\ p + r[p].size <= b
  /\ \A x \in DOMAIN r : /\ x \in Nat /\ r[x].size \in Nat
                         /\ r[x] = [ptr |-> r[x].ptr, size |-> r[x].size]
                         /\ x <= p \/ b <= x
  /\ \A x \in DOMAIN r \ {p} : r[x].ptr \in DOMAIN r /\ Follows(r, x)
  /\ \A x \in DOMAIN r \ {0} : Heap <= x /\ r[x].size > 0 /\ x + r[x].size <= t

\* free() joins the block to the free one above it, or puts it after p.
LEMMA UpperIs ==
  ASSUME Umalloc!SizesFit, NEW r, NEW t \in Nat, Ring(r, t), NEW b, NEW n, Gap(r, t, b, n)
  PROVE  LET p == Umalloc!Place(r, b)
             s == Umalloc!JoinUpper(r, b, n)
         IN /\ Half(s, t, p, b) /\ s[b].size >= n
            /\ \A u \in Nat : InRing(s, u) <=> InRing(r, u) \/ (b <= u /\ u < b + n)
<1>1. b \in Nat /\ n \in Nat /\ n > 0 /\ b > 0 /\ b \notin DOMAIN r
  BY GapIsFree
<1> DEFINE p == Umalloc!Place(r, b)
           q == r[p].ptr
           s == Umalloc!JoinUpper(r, b, n)
<1>2. /\ p \in DOMAIN r /\ p < b
      /\ \A x \in DOMAIN r : x < b => x <= p
      /\ b < q \/ (q = 0 /\ \A x \in DOMAIN r : x < b)
  BY <1>1, PlaceIs
<1>3. s = IF b + n = q
          THEN Umalloc!With(Umalloc!Without(r, q), b, [ptr |-> r[q].ptr, size |-> n + r[q].size])
          ELSE Umalloc!With(r, b, [ptr |-> q, size |-> n])
  BY DEF Umalloc!JoinUpper
<1> HIDE DEF p, s
<1>4. /\ 0 \in DOMAIN r /\ r[0].size = 0
      /\ \A x \in DOMAIN r : /\ x \in Nat /\ r[x].size \in Nat
                             /\ r[x] = [ptr |-> r[x].ptr, size |-> r[x].size]
                             /\ r[x].ptr \in DOMAIN r /\ Follows(r, x)
      /\ \A x \in DOMAIN r \ {0} : Heap <= x /\ r[x].size > 0 /\ x + r[x].size <= t
  BY DEF Ring
<1>5. /\ Heap <= b /\ b + n <= t /\ Heap \in Nat
      /\ \A x \in DOMAIN r \ {0} : x + r[x].size <= b \/ b + n <= x
  BY DEF Gap, Umalloc!SizesFit
<1>6. p \in Nat /\ r[p].size \in Nat /\ q \in DOMAIN r /\ q \in Nat /\ p + r[p].size <= b
  BY <1>1, <1>2, <1>4, <1>5
<1>7. CASE b + n = q
  <2>1. q \in DOMAIN r \ {0} /\ q # p /\ b < q /\ r[q].size > 0 /\ q + r[q].size <= t
    BY <1>1, <1>2, <1>4, <1>6, <1>7
  <2>2. /\ DOMAIN s = (DOMAIN r \ {q}) \cup {b}
        /\ s[b] = [ptr |-> r[q].ptr, size |-> n + r[q].size]
        /\ \A x \in DOMAIN s \ {b} : s[x] = r[x] /\ x \in DOMAIN r /\ x # q
    BY <1>1, <1>3, <1>7, <2>1 DEF Umalloc!With, Umalloc!Without
  <2>3. \A x \in DOMAIN r : x <= p \/ q <= x
    BY <1>2, <1>4, <1>6, <2>1 DEF Follows
  <2>4. r[q].ptr # q
    BY <1>4, <2>1 DEF Follows
  <2>5. s[b].ptr \in DOMAIN s /\ Follows(s, b)
    <3>1. r[q].ptr \in DOMAIN r /\ r[q].size \in Nat /\ r[q].ptr \in Nat
      BY <1>4, <2>1
    <3>2. s[b].ptr = r[q].ptr /\ s[b].size = n + r[q].size
      BY <2>2
    <3>3. CASE q + r[q].size < r[q].ptr /\ \A x \in DOMAIN r : x <= q \/ r[q].ptr <= x
      <4>1. ASSUME NEW x \in DOMAIN s PROVE x <= b \/ r[q].ptr <= x
        <5>1. CASE x = b
          BY <1>1, <5>1
        <5>2. CASE x # b
          <6>1. x \in DOMAIN r /\ x # q /\ x \in Nat
            BY <1>4, <2>2, <5>2
          <6>2. (x <= p \/ q <= x) /\ (x <= q \/ r[q].ptr <= x)
            BY <2>3, <3>3, <6>1
          <6>. QED BY <1>1, <1>2, <1>6, <6>1, <6>2
        <5>. QED BY <5>1, <5>2
      <4>2. b + (n + r[q].size) < r[q].ptr
        BY <1>1, <1>7, <3>1, <3>3
      <4>. QED BY <2>2, <2>4, <3>1, <3>2, <4>1, <4>2 DEF Follows
    <3>4. CASE r[q].ptr = 0 /\ \A x \in DOMAIN r : x <= q
      <4>1. \A x \in DOMAIN s : x <= b
        BY <1>1, <1>2, <1>4, <1>6, <2>1, <2>2, <2>3, <3>4
      <4>. QED BY <2>2, <2>4, <3>1, <3>2, <3>4, <4>1 DEF Follows
    <3>. QED BY <1>4, <1>6, <3>3, <3>4 DEF Follows
  <2>6. ASSUME NEW x \in DOMAIN s \ {p, b} PROVE s[x].ptr \in DOMAIN s /\ Follows(s, x)
    <3>1. s[x] = r[x] /\ x \in DOMAIN r /\ x # q /\ x \in Nat /\ r[x].ptr \in DOMAIN r
          /\ r[x].ptr \in Nat /\ r[x].size \in Nat
      BY <1>4, <2>2
    <3>2. CASE x + r[x].size < r[x].ptr /\ \A y \in DOMAIN r : y <= x \/ r[x].ptr <= y
      <4>1. ASSUME r[x].ptr = q PROVE FALSE
        <5>1. x <= p /\ (p <= x \/ q <= p)
          BY <1>2, <1>6, <2>3, <3>1, <3>2, <4>1
        <5>. QED BY <1>1, <1>2, <1>6, <2>1, <3>1, <5>1
      <4>2. b <= x \/ r[x].ptr <= b
        BY <1>1, <1>2, <1>6, <2>1, <3>1, <3>2
      <4>. QED BY <2>2, <3>1, <3>2, <4>1, <4>2 DEF Follows
    <3>3. CASE r[x].ptr = 0 /\ \A y \in DOMAIN r : y <= x
      <4>1. b <= x
        BY <1>1, <2>1, <1>6, <3>1, <3>3
      <4>. QED BY <2>1, <2>2, <3>1, <3>3, <4>1 DEF Follows
    <3>. QED BY <1>4, <3>1, <3>2, <3>3 DEF Follows
  <2>7. /\ p \in DOMAIN s /\ b \in DOMAIN s /\ 0 \in DOMAIN s /\ s[0] = r[0] /\ s[p] = r[p]
    BY <1>1, <1>2, <1>4, <2>1, <2>2
  <2>8. \A x \in DOMAIN s : /\ x \in Nat /\ s[x].size \in Nat
                            /\ s[x] = [ptr |-> s[x].ptr, size |-> s[x].size]
                            /\ x <= p \/ b <= x
    <3> TAKE x \in DOMAIN s
    <3>1. CASE x = b
      BY <1>1, <1>4, <2>1, <2>2, <3>1
    <3>2. CASE x # b
      BY <1>1, <1>4, <1>6, <2>1, <2>2, <2>3, <3>2
    <3>. QED BY <3>1, <3>2
  <2>9. \A x \in DOMAIN s \ {0} : Heap <= x /\ s[x].size > 0 /\ x + s[x].size <= t
    <3> TAKE x \in DOMAIN s \ {0}
    <3>1. CASE x = b
      BY <1>1, <1>4, <1>5, <1>6, <1>7, <2>1, <2>2, <3>1
    <3>2. CASE x # b
      BY <1>4, <2>2, <3>2
    <3>. QED BY <3>1, <3>2
  <2>10. Half(s, t, p, b)
    BY <1>2, <1>4, <1>6, <2>5, <2>6, <2>7, <2>8, <2>9 DEF Half
  <2>11. s[b].size >= n
    BY <1>1, <1>4, <2>1, <2>2
  <2>12. ASSUME NEW u \in Nat PROVE InRing(s, u) <=> InRing(r, u) \/ (b <= u /\ u < b + n)
    <3>1. ASSUME InRing(s, u) PROVE InRing(r, u) \/ (b <= u /\ u < b + n)
      <4>1. PICK x \in DOMAIN s \ {0} : x <= u /\ u < x + s[x].size
        BY <3>1 DEF InRing
      <4>2. CASE x = b
        <5>1. s[b].size = n + r[q].size /\ r[q].size \in Nat
          BY <1>4, <2>1, <2>2
        <5>2. u < b + n \/ (q <= u /\ u < q + r[q].size)
          BY <1>1, <1>6, <1>7, <4>1, <4>2, <5>1
        <5>. QED BY <2>1, <4>1, <4>2, <5>2 DEF InRing
      <4>3. CASE x # b
        BY <2>2, <4>1, <4>3 DEF InRing
      <4>. QED BY <4>2, <4>3
    <3>2. ASSUME InRing(r, u) PROVE InRing(s, u)
      <4>1. PICK x \in DOMAIN r \ {0} : x <= u /\ u < x + r[x].size
        BY <3>2 DEF InRing
      <4>2. CASE x = q
        <5>1. b \in DOMAIN s \ {0} /\ b <= u /\ u < b + s[b].size
          BY <1>1, <1>4, <1>6, <1>7, <2>1, <2>2, <4>1, <4>2
        <5>. QED BY <5>1 DEF InRing
      <4>3. CASE x # q
        BY <1>1, <2>2, <4>1, <4>3 DEF InRing
      <4>. QED BY <4>2, <4>3
    <3>3. ASSUME b <= u /\ u < b + n PROVE InRing(s, u)
      <4>1. b \in DOMAIN s \ {0} /\ b <= u /\ u < b + s[b].size
        BY <1>1, <1>4, <2>1, <2>2, <3>3
      <4>. QED BY <4>1 DEF InRing
    <3>. QED BY <3>1, <3>2, <3>3
  <2>. QED BY <2>10, <2>11, <2>12 DEF p, s
<1>8. CASE b + n # q
  <2>2. /\ DOMAIN s = DOMAIN r \cup {b}
        /\ s[b] = [ptr |-> q, size |-> n]
        /\ \A x \in DOMAIN s \ {b} : s[x] = r[x] /\ x \in DOMAIN r
    BY <1>1, <1>3, <1>8 DEF Umalloc!With
  <2>3. (b + n < q /\ \A x \in DOMAIN r : x <= p \/ q <= x)
        \/ (q = 0 /\ \A x \in DOMAIN r : x < b)
    <3>1. CASE b < q
      <4>1. q \in DOMAIN r \ {0} /\ q + r[q].size > b
        BY <1>1, <1>4, <1>6, <3>1
      <4>2. b + n < q
        BY <1>1, <1>4, <1>5, <1>6, <1>8, <4>1
      <4>3. \A x \in DOMAIN r : x <= p \/ q <= x
        BY <1>1, <1>2, <1>4, <1>6, <3>1 DEF Follows
      <4>. QED BY <4>2, <4>3
    <3>. QED BY <1>2, <3>1
  <2>5. s[b].ptr \in DOMAIN s /\ Follows(s, b)
    <3>2. s[b].ptr = q /\ s[b].size = n
      BY <2>2
    <3>3. CASE b + n < q /\ \A x \in DOMAIN r : x <= p \/ q <= x
      <4>1. \A x \in DOMAIN s : x <= b \/ q <= x
        BY <1>1, <1>2, <1>4, <1>6, <2>2, <3>3
      <4>. QED BY <1>6, <2>2, <3>2, <3>3, <4>1 DEF Follows
    <3>4. CASE q = 0 /\ \A x \in DOMAIN r : x < b
      <4>1. \A x \in DOMAIN s : x <= b
        BY <1>1, <1>4, <2>2, <3>4
      <4>. QED BY <1>6, <2>2, <3>2, <3>4, <4>1 DEF Follows
    <3>. QED BY <2>3, <3>3, <3>4
  <2>6. ASSUME NEW x \in DOMAIN s \ {p, b} PROVE s[x].ptr \in DOMAIN s /\ Follows(s, x)
    <3>1. s[x] = r[x] /\ x \in DOMAIN r /\ x \in Nat /\ r[x].ptr \in DOMAIN r
          /\ r[x].ptr \in Nat /\ r[x].size \in Nat
      BY <1>4, <2>2
    <3>2. CASE x + r[x].size < r[x].ptr /\ \A y \in DOMAIN r : y <= x \/ r[x].ptr <= y
      <4>2. b <= x \/ r[x].ptr <= b
        BY <1>1, <1>2, <1>6, <3>1, <3>2
      <4>. QED BY <2>2, <3>1, <3>2, <4>2 DEF Follows
    <3>3. CASE r[x].ptr = 0 /\ \A y \in DOMAIN r : y <= x
      <4>1. b <= x
        BY <1>1, <1>2, <1>4, <1>6, <3>1, <3>3
      <4>. QED BY <2>2, <3>1, <3>3, <4>1 DEF Follows
    <3>. QED BY <1>4, <3>1, <3>2, <3>3 DEF Follows
  <2>7. /\ p \in DOMAIN s /\ b \in DOMAIN s /\ 0 \in DOMAIN s /\ s[0] = r[0] /\ s[p] = r[p]
    BY <1>1, <1>2, <1>4, <2>2
  <2>8. \A x \in DOMAIN s : /\ x \in Nat /\ s[x].size \in Nat
                            /\ s[x] = [ptr |-> s[x].ptr, size |-> s[x].size]
                            /\ x <= p \/ b <= x
    <3> TAKE x \in DOMAIN s
    <3>1. CASE x = b
      BY <1>1, <2>2, <3>1
    <3>2. CASE x # b
      BY <1>1, <1>2, <1>4, <1>6, <2>2, <3>2
    <3>. QED BY <3>1, <3>2
  <2>9. \A x \in DOMAIN s \ {0} : Heap <= x /\ s[x].size > 0 /\ x + s[x].size <= t
    BY <1>1, <1>4, <1>5, <2>2
  <2>10. Half(s, t, p, b)
    BY <1>2, <1>4, <1>6, <2>5, <2>6, <2>7, <2>8, <2>9 DEF Half
  <2>11. s[b].size >= n
    BY <1>1, <2>2
  <2>12. ASSUME NEW u \in Nat PROVE InRing(s, u) <=> InRing(r, u) \/ (b <= u /\ u < b + n)
    BY <1>1, <2>2 DEF InRing
  <2>. QED BY <2>10, <2>11, <2>12 DEF p, s
<1>. QED BY <1>7, <1>8

\* The block below takes the new one in, or is linked to it: the ring is whole again.
LEMMA LowerIs ==
  ASSUME Umalloc!SizesFit, NEW r, NEW t \in Nat, NEW p, NEW b, Half(r, t, p, b), b # 0
  PROVE  LET s == Umalloc!JoinLower(r, p, b)
         IN /\ Ring(s, t) /\ p \in DOMAIN s
            /\ \E x \in DOMAIN s : s[x].size >= r[b].size
            /\ \A u \in Nat : InRing(s, u) <=> InRing(r, u)
<1> DEFINE s == Umalloc!JoinLower(r, p, b)
           e == r[b].ptr
<1>1. s = IF p + r[p].size = b
          THEN Umalloc!With(Umalloc!Without(r, b), p, [ptr |-> e, size |-> r[p].size + r[b].size])
          ELSE [r EXCEPT ![p].ptr = b]
  BY DEF Umalloc!JoinLower
<1> HIDE DEF s
<1>2. /\ 0 \in DOMAIN r /\ r[0].size = 0
      /\ p \in DOMAIN r /\ b \in DOMAIN r /\ p < b /\ p + r[p].size <= b
      /\ \A x \in DOMAIN r : /\ x \in Nat /\ r[x].size \in Nat
                             /\ r[x] = [ptr |-> r[x].ptr, size |-> r[x].size]
                             /\ x <= p \/ b <= x
      /\ \A x \in DOMAIN r \ {p} : r[x].ptr \in DOMAIN r /\ Follows(r, x)
      /\ \A x \in DOMAIN r \ {0} : Heap <= x /\ r[x].size > 0 /\ x + r[x].size <= t
  BY DEF Half
<1>3. /\ b \in Nat /\ p \in Nat /\ r[p].size \in Nat /\ r[b].size \in Nat /\ r[b].size > 0
      /\ e \in DOMAIN r /\ e \in Nat /\ Follows(r, b) /\ e # b
  BY <1>2 DEF Follows
<1>4. \A x \in DOMAIN r \ {p} : r[x].ptr # b
  BY <1>2, <1>3 DEF Follows
<1>5. CASE p + r[p].size = b
  <2>1. p # 0
    BY <1>2, <1>3, <1>5
  <2>2. /\ DOMAIN s = DOMAIN r \ {b}
        /\ s[p] = [ptr |-> e, size |-> r[p].size + r[b].size]
        /\ \A x \in DOMAIN s \ {p} : s[x] = r[x] /\ x \in DOMAIN r /\ x # b
    BY <1>1, <1>2, <1>3, <1>5 DEF Umalloc!With, Umalloc!Without
  <2>3. s[p].ptr \in DOMAIN s /\ Follows(s, p)
    <3>1. s[p].ptr = e /\ s[p].size = r[p].size + r[b].size /\ e \in DOMAIN s
      BY <1>3, <2>2
    <3>2. CASE b + r[b].size < e /\ \A x \in DOMAIN r : x <= b \/ e <= x
      <4>1. p + (r[p].size + r[b].size) < e
        BY <1>3, <1>5, <3>2
      <4>2. \A x \in DOMAIN s : x <= p \/ e <= x
        BY <1>2, <1>3, <2>2, <3>2
      <4>. QED BY <3>1, <4>1, <4>2 DEF Follows
    <3>3. CASE e = 0 /\ \A x \in DOMAIN r : x <= b
      <4>1. \A x \in DOMAIN s : x <= p
        BY <1>2, <1>3, <2>2, <3>3
      <4>. QED BY <3>1, <3>3, <4>1 DEF Follows
    <3>. QED BY <1>3, <3>2, <3>3 DEF Follows
  <2>4. \A x \in DOMAIN s \ {p} : s[x].ptr \in DOMAIN s /\ Follows(s, x)
    BY <1>2, <1>4, <2>2 DEF Follows
  <2>5. 0 \in DOMAIN s /\ s[0] = r[0] /\ p \in DOMAIN s
    BY <1>2, <1>3, <2>1, <2>2
  <2>6. ASSUME NEW x \in DOMAIN s
        PROVE  /\ x \in Nat /\ s[x] = [ptr |-> s[x].ptr, size |-> s[x].size]
               /\ s[x].ptr \in DOMAIN s /\ s[x].size \in Nat /\ Follows(s, x)
    <3>1. CASE x = p
      BY <1>3, <2>2, <2>3, <3>1
    <3>2. CASE x # p
      BY <1>2, <2>2, <2>4, <3>2
    <3>. QED BY <3>1, <3>2
  <2>7. ASSUME NEW x \in DOMAIN s \ {0}
        PROVE  Heap <= x /\ s[x].size > 0 /\ x + s[x].size <= t
    <3>1. CASE x = p
      <4>1. s[x].size = r[p].size + r[b].size /\ b + r[b].size <= t /\ Heap <= p
        BY <1>2, <2>1, <2>2, <3>1
      <4>. QED BY <1>3, <1>5, <3>1, <4>1
    <3>2. CASE x # p
      BY <1>2, <2>2, <3>2
    <3>. QED BY <3>1, <3>2
  <2>8. Ring(s, t)
    BY <1>2, <2>5, <2>6, <2>7 DEF Ring
  <2>9. s[p].size >= r[b].size
    BY <1>3, <2>2
  <2>10. ASSUME NEW u \in Nat PROVE InRing(s, u) <=> InRing(r, u)
    <3>1. s[p].size = r[p].size + r[b].size /\ p \in DOMAIN s \ {0}
      BY <2>1, <2>2, <2>5
    <3>2. (p <= u /\ u < p + s[p].size)
          <=> (p <= u /\ u < p + r[p].size) \/ (b <= u /\ u < b + r[b].size)
      BY <1>3, <1>5, <3>1
    <3>3. ASSUME InRing(s, u) PROVE InRing(r, u)
      <4>1. PICK x \in DOMAIN s \ {0} : x <= u /\ u < x + s[x].size
        BY <3>3 DEF InRing
      <4>2. CASE x = p
        BY <1>2, <2>1, <3>2, <4>1, <4>2 DEF InRing
      <4>3. CASE x # p
        BY <2>2, <4>1, <4>3 DEF InRing
      <4>. QED BY <4>2, <4>3
    <3>4. ASSUME InRing(r, u) PROVE InRing(s, u)
      <4>1. PICK x \in DOMAIN r \ {0} : x <= u /\ u < x + r[x].size
        BY <3>4 DEF InRing
      <4>2. CASE x = p \/ x = b
        BY <3>1, <3>2, <4>1, <4>2 DEF InRing
      <4>3. CASE x # p /\ x # b
        BY <2>2, <4>1, <4>3 DEF InRing
      <4>. QED BY <4>2, <4>3
    <3>. QED BY <3>3, <3>4
  <2>. QED BY <2>5, <2>8, <2>9, <2>10 DEF s
<1>6. CASE p + r[p].size # b
  <2>1. p + r[p].size < b
    BY <1>2, <1>3, <1>6
  <2>2. /\ DOMAIN s = DOMAIN r
        /\ s[p] = [ptr |-> b, size |-> r[p].size]
        /\ \A x \in DOMAIN s \ {p} : s[x] = r[x]
    <3>1. s = [r EXCEPT ![p].ptr = b]
      BY <1>1, <1>6
    <3>2. r[p] = [ptr |-> r[p].ptr, size |-> r[p].size]
      BY <1>2
    <3>. QED BY <1>2, <3>1, <3>2
  <2>3. s[p].ptr \in DOMAIN s /\ Follows(s, p)
    BY <1>2, <2>1, <2>2 DEF Follows
  <2>4. \A x \in DOMAIN s \ {p} : s[x].ptr \in DOMAIN s /\ Follows(s, x)
    BY <1>2, <2>2 DEF Follows
  <2>5. s[0].size = 0 /\ \A x \in DOMAIN s : s[x].size = r[x].size
    BY <1>2, <2>2
  <2>6. Ring(s, t)
    <3>1. \A x \in DOMAIN s : /\ x \in Nat /\ s[x].size \in Nat
                              /\ s[x] = [ptr |-> s[x].ptr, size |-> s[x].size]
      BY <1>2, <2>2
    <3>. QED BY <1>2, <2>2, <2>3, <2>4, <2>5, <3>1 DEF Ring
  <2>7. \A u \in Nat : InRing(s, u) <=> InRing(r, u)
    BY <2>2, <2>5 DEF InRing
  <2>8. b \in DOMAIN s /\ p \in DOMAIN s /\ s[b].size >= r[b].size
    BY <1>2, <1>3, <2>2, <2>5
  <2>. QED BY <2>6, <2>7, <2>8 DEF s
<1>. QED BY <1>5, <1>6

\* free() makes the units of a block free, and only them, and keeps the ring.
LEMMA FreedIs ==
  ASSUME Umalloc!SizesFit, NEW r, NEW t \in Nat, Ring(r, t), NEW b, NEW n, Gap(r, t, b, n)
  PROVE  LET s == Umalloc!Freed(r, b, n)
         IN /\ Ring(s, t) /\ Umalloc!Place(r, b) \in DOMAIN s
            /\ \E x \in DOMAIN s : s[x].size >= n
            /\ \A u \in Nat : InRing(s, u) <=> InRing(r, u) \/ (b <= u /\ u < b + n)
<1> DEFINE p == Umalloc!Place(r, b)
           h == Umalloc!JoinUpper(r, b, n)
           s == Umalloc!JoinLower(h, p, b)
<1>1. b \in Nat /\ n \in Nat /\ b > 0
  BY GapIsFree
<1>2. /\ Half(h, t, p, b) /\ h[b].size >= n /\ h[b].size \in Nat
      /\ \A u \in Nat : InRing(h, u) <=> InRing(r, u) \/ (b <= u /\ u < b + n)
  BY UpperIs DEF Half
<1>3. Umalloc!Freed(r, b, n) = s
  BY DEF Umalloc!Freed
<1> HIDE DEF p, h
<1>4. /\ Ring(s, t) /\ p \in DOMAIN s
      /\ \E x \in DOMAIN s : s[x].size >= h[b].size
      /\ \A u \in Nat : InRing(s, u) <=> InRing(h, u)
  BY <1>1, <1>2, LowerIs
<1> HIDE DEF s
<1>5. \E x \in DOMAIN s : s[x].size >= n
  <2>1. PICK x \in DOMAIN s : s[x].size >= h[b].size
    BY <1>4
  <2>2. s[x].size \in Nat
    BY <1>4 DEF Ring
  <2>. QED BY <1>1, <1>2, <2>1, <2>2
<1>. QED BY <1>2, <1>3, <1>4, <1>5 DEF p

\* A free block ends below the next.
LEMMA Apart ==
  ASSUME NEW r, NEW t, Ring(r, t), NEW x \in DOMAIN r, NEW y \in DOMAIN r, x < y
  PROVE  x + r[x].size < y
<1>1. x \in Nat /\ y \in Nat /\ r[x].size \in Nat /\ r[x].ptr \in Nat /\ Follows(r, x)
  BY DEF Ring
<1>. QED BY <1>1 DEF Follows

\* malloc() takes n units off the end of the block after `before', and all of it when it
\* is no longer: they are no longer free, the others are.
LEMMA CutIs ==
  ASSUME Umalloc!SizesFit, NEW r, NEW t \in Nat, Ring(r, t), NEW before \in DOMAIN r,
         NEW n \in Nat, n > 0, r[r[before].ptr].size >= n
  PROVE  LET p == r[before].ptr
             c == p + r[p].size - n
             s == Umalloc!Cut(r, before, n)
         IN /\ Ring(s, t) /\ before \in DOMAIN s
            /\ c \in Nat /\ Heap <= c /\ c + n <= t
            /\ \A u \in Nat : InRing(s, u) <=> InRing(r, u) /\ ~(c <= u /\ u < c + n)
            /\ \A u \in Nat : c <= u /\ u < c + n => InRing(r, u)
<1> DEFINE p == r[before].ptr
           c == p + r[p].size - n
           s == Umalloc!Cut(r, before, n)
           e == r[p].ptr
<1>1. s = IF r[p].size = n THEN [Umalloc!Without(r, p) EXCEPT ![before].ptr = e]
          ELSE [r EXCEPT ![p].size = r[p].size - n]
  BY DEF Umalloc!Cut
<1> HIDE DEF s
<1>2. /\ 0 \in DOMAIN r /\ r[0].size = 0
      /\ \A x \in DOMAIN r : /\ x \in Nat /\ r[x].size \in Nat
                             /\ r[x] = [ptr |-> r[x].ptr, size |-> r[x].size]
                             /\ r[x].ptr \in DOMAIN r /\ Follows(r, x)
      /\ \A x \in DOMAIN r \ {0} : Heap <= x /\ r[x].size > 0 /\ x + r[x].size <= t
      /\ Heap \in Nat
  BY DEF Ring, Umalloc!SizesFit
<1>3. /\ p \in DOMAIN r \ {0} /\ p \in Nat /\ before \in Nat /\ r[p].size \in Nat
      /\ r[p].size >= n /\ e \in DOMAIN r /\ e \in Nat /\ r[before].size \in Nat
  BY <1>2
<1>4. before < p /\ before + r[before].size < p /\ \A x \in DOMAIN r : x <= before \/ p <= x
  BY <1>2, <1>3 DEF Follows
<1>5. c \in Nat /\ p <= c /\ Heap <= c /\ c + n = p + r[p].size /\ c + n <= t
  BY <1>2, <1>3
<1>6. ASSUME NEW u \in Nat, c <= u, u < c + n PROVE p <= u /\ u < p + r[p].size
  BY <1>3, <1>5, <1>6
<1>7. \A u \in Nat : c <= u /\ u < c + n => InRing(r, u)
  BY <1>3, <1>6 DEF InRing
<1>8. ASSUME NEW x \in DOMAIN r, x # p, NEW u \in Nat, x <= u, u < x + r[x].size
      PROVE  ~(c <= u /\ u < c + n)
  <2>1. x \in Nat /\ r[x].size \in Nat
    BY <1>2
  <2>2. CASE x < p
    <3>1. x + r[x].size < p
      BY <1>3, <2>2, Apart
    <3>. QED BY <1>3, <1>5, <1>8, <2>1, <3>1
  <2>3. CASE p < x
    <3>1. p + r[p].size < x
      BY <1>3, <2>3, Apart
    <3>. QED BY <1>3, <1>5, <1>8, <2>1, <3>1
  <2>. QED BY <1>3, <1>8, <2>1, <2>2, <2>3
<1>9. e # p
  BY <1>2, <1>3 DEF Follows
<1> HIDE DEF c
<1>10. CASE r[p].size = n
  <2>1. /\ DOMAIN s = DOMAIN r \ {p}
        /\ s[before] = [ptr |-> e, size |-> r[before].size]
        /\ \A x \in DOMAIN s \ {before} : s[x] = r[x]
    <3>1. s = [Umalloc!Without(r, p) EXCEPT ![before].ptr = e]
      BY <1>1, <1>10
    <3>2. /\ DOMAIN Umalloc!Without(r, p) = DOMAIN r \ {p} /\ before \in DOMAIN Umalloc!Without(r, p)
          /\ \A x \in DOMAIN Umalloc!Without(r, p) : Umalloc!Without(r, p)[x] = r[x]
      BY <1>3, <1>4 DEF Umalloc!Without
    <3>3. Umalloc!Without(r, p)[before] = [ptr |-> p, size |-> r[before].size]
      BY <1>2, <3>2
    <3>. QED BY <3>1, <3>2, <3>3
  <2>2. before \in DOMAIN s /\ 0 \in DOMAIN s /\ e \in DOMAIN s
    BY <1>2, <1>3, <1>4, <1>9, <2>1
  <2>3. Follows(s, before)
    <3>1. s[before].ptr = e /\ s[before].size = r[before].size
      BY <2>1
    <3>2. CASE p + r[p].size < e /\ \A x \in DOMAIN r : x <= p \/ e <= x
      <4>1. before + r[before].size < e
        BY <1>3, <1>4, <3>2
      <4>2. ASSUME NEW x \in DOMAIN s PROVE x <= before \/ e <= x
        <5>1. x \in DOMAIN r /\ x # p /\ x \in Nat
          BY <1>2, <2>1
        <5>2. (x <= before \/ p <= x) /\ (x <= p \/ e <= x)
          BY <1>4, <3>2, <5>1
        <5>. QED BY <1>3, <5>1, <5>2
      <4>. QED BY <3>1, <4>1, <4>2 DEF Follows
    <3>3. CASE e = 0 /\ \A x \in DOMAIN r : x <= p
      <4>1. ASSUME NEW x \in DOMAIN s PROVE x <= before
        <5>1. x \in DOMAIN r /\ x # p /\ x \in Nat
          BY <1>2, <2>1
        <5>2. (x <= before \/ p <= x) /\ x <= p
          BY <1>4, <3>3, <5>1
        <5>. QED BY <1>3, <5>1, <5>2
      <4>. QED BY <3>1, <3>3, <4>1 DEF Follows
    <3>. QED BY <1>2, <1>3, <3>2, <3>3 DEF Follows
  <2>4. ASSUME NEW x \in DOMAIN s \ {before} PROVE s[x].ptr \in DOMAIN s /\ Follows(s, x)
    <3>1. /\ s[x] = r[x] /\ x \in DOMAIN r /\ x # p /\ x \in Nat /\ Follows(r, x)
          /\ r[x].ptr \in DOMAIN r /\ r[x].ptr \in Nat /\ r[x].size \in Nat
      BY <1>2, <2>1
    <3>2. ASSUME r[x].ptr = p PROVE FALSE
      <4>1. x < p /\ \A y \in DOMAIN r : y <= x \/ p <= y
        BY <1>3, <3>1, <3>2 DEF Follows
      <4>2. before <= x /\ x <= before
        BY <1>3, <1>4, <3>1, <4>1
      <4>. QED BY <1>3, <3>1, <4>2
    <3>. QED BY <2>1, <3>1, <3>2 DEF Follows
  <2>5. ASSUME NEW x \in DOMAIN s
        PROVE  /\ x \in Nat /\ s[x] = [ptr |-> s[x].ptr, size |-> s[x].size]
               /\ s[x].ptr \in DOMAIN s /\ s[x].size \in Nat /\ Follows(s, x)
               /\ x \in DOMAIN r /\ s[x].size = r[x].size
    <3>1. CASE x = before
      BY <1>3, <2>1, <2>2, <2>3, <3>1
    <3>2. CASE x # before
      BY <1>2, <2>1, <2>4, <3>2
    <3>. QED BY <3>1, <3>2
  <2>6. Ring(s, t)
    <3>1. \A x \in DOMAIN s \ {0} : Heap <= x /\ s[x].size > 0 /\ x + s[x].size <= t
      BY <1>2, <2>5
    <3>. QED BY <1>2, <2>2, <2>5, <3>1 DEF Ring
  <2>7. ASSUME NEW u \in Nat
        PROVE  InRing(s, u) <=> InRing(r, u) /\ ~(c <= u /\ u < c + n)
    <3>1. c = p /\ c + n = p + r[p].size
      BY <1>3, <1>10 DEF c
    <3>2. ASSUME InRing(s, u) PROVE InRing(r, u) /\ ~(c <= u /\ u < c + n)
      <4>1. PICK x \in DOMAIN s \ {0} : x <= u /\ u < x + s[x].size
        BY <3>2 DEF InRing
      <4>2. x \in DOMAIN r \ {0} /\ x # p /\ x <= u /\ u < x + r[x].size
        BY <2>1, <2>5, <4>1
      <4>. QED BY <1>8, <4>2 DEF InRing
    <3>3. ASSUME InRing(r, u), ~(c <= u /\ u < c + n) PROVE InRing(s, u)
      <4>1. PICK x \in DOMAIN r \ {0} : x <= u /\ u < x + r[x].size
        BY <3>3 DEF InRing
      <4>2. x # p
        BY <3>1, <3>3, <4>1
      <4>. QED BY <2>1, <2>5, <4>1, <4>2 DEF InRing
    <3>. QED BY <3>2, <3>3
  <2>. QED BY <1>5, <1>7, <2>2, <2>6, <2>7 DEF c, s
<1>11. CASE r[p].size # n
  <2>1. /\ DOMAIN s = DOMAIN r
        /\ s[p] = [ptr |-> e, size |-> r[p].size - n]
        /\ \A x \in DOMAIN s \ {p} : s[x] = r[x]
    <3>1. s = [r EXCEPT ![p].size = r[p].size - n]
      BY <1>1, <1>11
    <3>2. r[p] = [ptr |-> e, size |-> r[p].size]
      BY <1>2, <1>3
    <3>. QED BY <1>3, <3>1, <3>2
  <2>2. r[p].size - n \in Nat /\ r[p].size - n > 0 /\ p + (r[p].size - n) = c
        /\ c < p + r[p].size
    BY <1>3, <1>11 DEF c
  <2>3. ASSUME NEW x \in DOMAIN s
        PROVE  /\ x \in Nat /\ s[x] = [ptr |-> s[x].ptr, size |-> s[x].size]
               /\ s[x].ptr = r[x].ptr /\ s[x].size \in Nat
               /\ s[x].size <= r[x].size /\ r[x].size \in Nat
    <3>1. CASE x = p
      BY <1>3, <2>1, <2>2, <3>1
    <3>2. CASE x # p
      BY <1>2, <2>1, <3>2
    <3>. QED BY <3>1, <3>2
  <2>4. ASSUME NEW x \in DOMAIN s PROVE s[x].ptr \in DOMAIN s /\ Follows(s, x)
    <3>1. /\ x \in DOMAIN r /\ Follows(r, x) /\ r[x].ptr \in DOMAIN s /\ r[x].ptr \in Nat
      BY <1>2, <2>1
    <3>. QED BY <2>1, <2>3, <3>1 DEF Follows
  <2>5. \A x \in DOMAIN s \ {0} : Heap <= x /\ s[x].size > 0 /\ x + s[x].size <= t
    <3> TAKE x \in DOMAIN s \ {0}
    <3>1. CASE x = p
      BY <1>2, <1>3, <1>5, <2>1, <2>2, <3>1
    <3>2. CASE x # p
      BY <1>2, <2>1, <3>2
    <3>. QED BY <3>1, <3>2
  <2>6. Ring(s, t)
    <3>1. 0 \in DOMAIN s /\ s[0].size = 0
      BY <1>2, <1>3, <2>1
    <3>. QED BY <2>3, <2>4, <2>5, <3>1 DEF Ring
  <2>7. ASSUME NEW u \in Nat
        PROVE  InRing(s, u) <=> InRing(r, u) /\ ~(c <= u /\ u < c + n)
    <3>1. s[p].size = r[p].size - n
      BY <2>1
    <3>2. ASSUME InRing(s, u) PROVE InRing(r, u) /\ ~(c <= u /\ u < c + n)
      <4>1. PICK x \in DOMAIN s \ {0} : x <= u /\ u < x + s[x].size
        BY <3>2 DEF InRing
      <4>2. CASE x = p
        <5>1. u < c /\ u < p + r[p].size
          BY <1>3, <1>5, <2>2, <3>1, <4>1, <4>2
        <5>. QED BY <1>3, <1>5, <4>1, <4>2, <5>1 DEF InRing
      <4>3. CASE x # p
        <5>1. x \in DOMAIN r \ {0} /\ x <= u /\ u < x + r[x].size
          BY <2>1, <4>1, <4>3
        <5>. QED BY <1>8, <4>3, <5>1 DEF InRing
      <4>. QED BY <4>2, <4>3
    <3>3. ASSUME InRing(r, u), ~(c <= u /\ u < c + n) PROVE InRing(s, u)
      <4>1. PICK x \in DOMAIN r \ {0} : x <= u /\ u < x + r[x].size
        BY <3>3 DEF InRing
      <4>2. CASE x = p
        <5>1. u < c + n
          BY <1>5, <4>1, <4>2
        <5>2. u < p + s[p].size
          BY <1>3, <1>5, <2>2, <3>1, <3>3, <5>1
        <5>. QED BY <1>3, <2>1, <4>1, <4>2, <5>2 DEF InRing
      <4>3. CASE x # p
        BY <2>1, <4>1, <4>3 DEF InRing
      <4>. QED BY <4>2, <4>3
    <3>. QED BY <3>2, <3>3
  <2>. QED BY <1>5, <1>7, <2>1, <2>6, <2>7 DEF c, s
<1>. QED BY <1>10, <1>11

\* The walk of malloc() around the ring is a function of the steps it takes.
LEMMA WalkIs ==
  ASSUME Umalloc!SizesFit, NEW r, NEW f
  PROVE  Umalloc!After(r, f) =
           [n \in 0..Limit |-> IF n = 0 THEN f ELSE r[Umalloc!After(r, f)[n - 1]].ptr]
<1> DEFINE Walk(g, N) == g = [n \in 0..N |-> IF n = 0 THEN f ELSE r[g[n - 1]].ptr]
           Bad == {N \in 0..Limit : ~(\E g : Walk(g, N))}
<1>1. Limit \in Nat
  BY DEF Umalloc!SizesFit
<1>2. ASSUME Bad # {} PROVE FALSE
  <2>1. Bad \subseteq Nat
    BY <1>1
  <2>2. PICK N \in Bad : \A M \in Bad : N <= M
    <3> HIDE DEF Bad
    <3>. QED BY <1>2, <2>1, Least
  <2>3. N \in 0..Limit /\ N \in Nat /\ ~(\E g : Walk(g, N))
    BY <1>1, <2>2
  <2>4. CASE N = 0
    <3>1. Walk([n \in 0..0 |-> f], 0)
      OBVIOUS
    <3>. QED BY <2>3, <2>4, <3>1
  <2>5. CASE N # 0
    <3>1. N - 1 \in 0..Limit /\ ~(N <= N - 1)
      BY <1>1, <2>3, <2>5
    <3>2. PICK g : Walk(g, N - 1)
      <4>1. N - 1 \notin Bad
        <5> HIDE DEF Bad
        <5>. QED BY <2>2, <3>1
      <4>. QED BY <3>1, <4>1
    <3> DEFINE h == [n \in 0..N |-> IF n = N THEN r[g[N - 1]].ptr ELSE g[n]]
    <3>3. \A n \in 0..(N - 1) : g[n] = IF n = 0 THEN f ELSE r[g[n - 1]].ptr
      BY <3>2
    <3>4. \A n \in 0..N : h[n] = IF n = 0 THEN f ELSE r[h[n - 1]].ptr
      <4> TAKE n \in 0..N
      <4>1. CASE n = N
        <5>1. n # 0 /\ N - 1 \in 0..N /\ N - 1 # N
          BY <2>3, <2>5, <4>1
        <5>2. h[n] = r[g[N - 1]].ptr /\ h[n - 1] = g[n - 1]
          BY <4>1, <5>1
        <5>. QED BY <4>1, <5>1, <5>2
      <4>2. CASE n # N
        <5>1. n \in 0..(N - 1) /\ h[n] = g[n]
          BY <2>3, <4>2
        <5>2. CASE n # 0
          <6>1. n - 1 \in 0..N /\ n - 1 # N
            BY <2>3, <5>1, <5>2
          <6>2. h[n - 1] = g[n - 1]
            BY <6>1
          <6> HIDE DEF h
          <6>. QED BY <3>3, <5>1, <5>2, <6>2
        <5>3. CASE n = 0
          <6> HIDE DEF h
          <6>. QED BY <3>3, <5>1, <5>3
        <5>. QED BY <5>2, <5>3
      <4>. QED BY <4>1, <4>2
    <3>5. DOMAIN h = 0..N /\ h = [n \in DOMAIN h |-> h[n]]
      OBVIOUS
    <3> HIDE DEF h
    <3>6. Walk(h, N)
      BY <3>4, <3>5
    <3>. QED BY <2>3, <3>6
  <2>. QED BY <2>4, <2>5
<1>3. \E g : Walk(g, Limit)
  BY <1>1, <1>2
<1>4. Umalloc!After(r, f) = CHOOSE g : Walk(g, Limit)
  BY DEF Umalloc!After
<1>5. Walk(Umalloc!After(r, f), Limit)
  <2> HIDE DEF Walk
  <2>. QED BY <1>3, <1>4
<1>. QED BY <1>5

\* From a block of the ring the walk goes through blocks of the ring.
LEMMA AfterIs ==
  ASSUME Umalloc!SizesFit, NEW r, NEW t, Ring(r, t), NEW f \in DOMAIN r
  PROVE  /\ Umalloc!After(r, f)[0] = f
         /\ \A n \in 1..Limit : Umalloc!After(r, f)[n] = r[Umalloc!After(r, f)[n - 1]].ptr
         /\ \A n \in 0..Limit : Umalloc!After(r, f)[n] \in DOMAIN r
<1> DEFINE walk == Umalloc!After(r, f)
<1>1. Limit \in Nat
  BY DEF Umalloc!SizesFit
<1>2. walk = [n \in 0..Limit |-> IF n = 0 THEN f ELSE r[walk[n - 1]].ptr]
  BY WalkIs
<1> HIDE DEF walk
<1>3. walk[0] = f /\ \A n \in 1..Limit : walk[n] = r[walk[n - 1]].ptr
  BY <1>1, <1>2
<1> DEFINE Bad == {n \in 0..Limit : walk[n] \notin DOMAIN r}
<1>4. ASSUME Bad # {} PROVE FALSE
  <2>1. Bad \subseteq Nat
    BY <1>1
  <2>2. PICK n \in Bad : \A m \in Bad : n <= m
    <3> HIDE DEF Bad
    <3>. QED BY <1>4, <2>1, Least
  <2>3. n \in 1..Limit
    BY <1>1, <1>3, <2>2
  <2>4. n - 1 \in 0..Limit /\ n - 1 \notin Bad
    BY <1>1, <2>2, <2>3
  <2>5. walk[n - 1] \in DOMAIN r
    BY <2>4
  <2>6. walk[n] \in DOMAIN r
    BY <1>3, <2>3, <2>5 DEF Ring
  <2>. QED BY <2>2, <2>6
<1>. QED BY <1>3, <1>4 DEF walk

\* Upward the walk passes no block over: to a higher one it takes no more steps than
\* there are addresses between.
LEMMA Climbs ==
  ASSUME Umalloc!SizesFit, NEW r, NEW t, Ring(r, t), NEW walk,
         \A n \in 1..Limit : walk[n] = r[walk[n - 1]].ptr,
         \A n \in 0..Limit : walk[n] \in DOMAIN r,
         NEW i \in 0..Limit, NEW x \in DOMAIN r, walk[i] <= x, i + (x - walk[i]) <= Limit
  PROVE  \E j \in i..(i + (x - walk[i])) : walk[j] = x
<1>1. Limit \in Nat /\ i \in Nat
  BY DEF Umalloc!SizesFit
<1>2. \A y \in DOMAIN r : y \in Nat /\ r[y].ptr \in Nat /\ r[y].size \in Nat /\ Follows(r, y)
  BY DEF Ring
<1>3. x \in Nat /\ walk[i] \in Nat
  BY <1>2
<1> DEFINE e == i + (x - walk[i])
           S == {k \in i..e : walk[k] <= x /\ k - i <= walk[k] - walk[i]}
<1>4. e \in Nat /\ e <= Limit /\ i <= e
  BY <1>1, <1>3
<1>5. i \in S /\ S \subseteq Nat /\ \A k \in S : k <= e
  BY <1>1, <1>3, <1>4
<1>6. PICK j \in S : \A k \in S : k <= j
  <2> HIDE DEF S, e
  <2>. QED BY ONLY <1>4, <1>5, Greatest
<1>7. j \in i..e /\ j \in Nat /\ j \in 0..Limit /\ walk[j] <= x /\ j - i <= walk[j] - walk[i]
      /\ walk[j] \in DOMAIN r /\ walk[j] \in Nat
  BY <1>1, <1>2, <1>4, <1>6
<1>8. ASSUME walk[j] # x PROVE FALSE
  <2>1. walk[j] < x
    BY <1>3, <1>7, <1>8
  <2>2. walk[j] < r[walk[j]].ptr /\ r[walk[j]].ptr <= x
    BY <1>2, <1>3, <1>7, <2>1 DEF Follows
  <2>3. r[walk[j]].ptr \in Nat
    BY <1>2, <1>7
  <2>4. j + 1 <= e /\ j + 1 \in i..e /\ j + 1 \in 1..Limit
    BY <1>1, <1>3, <1>4, <1>7, <2>1
  <2>5. walk[j + 1] = r[walk[j]].ptr
    <3>1. (j + 1) - 1 = j
      BY <1>7
    <3>2. walk[j + 1] = r[walk[(j + 1) - 1]].ptr
      BY <2>4
    <3>. QED BY <3>1, <3>2
  <2>6. (j + 1) - i <= walk[j + 1] - walk[i]
    BY <1>1, <1>3, <1>7, <2>2, <2>3, <2>5
  <2>7. j + 1 \in S
    BY <2>2, <2>4, <2>5, <2>6
  <2>. QED BY <1>6, <1>7, <2>7
<1>. QED BY <1>7, <1>8

\* The walk comes to every block of the ring.
LEMMA Reached ==
  ASSUME Umalloc!SizesFit, NEW r, NEW t \in Nat, t <= Limit, Ring(r, t), NEW f \in DOMAIN r,
         NEW x \in DOMAIN r
  PROVE  \E j \in 1..Limit : Umalloc!After(r, f)[j] = x
<1> DEFINE walk == Umalloc!After(r, f)
<1>1. /\ walk[0] = f
      /\ \A n \in 1..Limit : walk[n] = r[walk[n - 1]].ptr
      /\ \A n \in 0..Limit : walk[n] \in DOMAIN r
  BY AfterIs
<1> HIDE DEF walk
<1>2. Limit \in Nat /\ Limit > 0 /\ Heap \in Nat /\ Heap > 0
  BY DEF Umalloc!SizesFit
<1>3. /\ 0 \in DOMAIN r
      /\ \A y \in DOMAIN r : y \in Nat /\ r[y].ptr \in Nat /\ r[y].size \in Nat
                             /\ r[y].ptr \in DOMAIN r /\ Follows(r, y)
  BY DEF Ring
<1>4. \A y \in DOMAIN r : y + 1 <= Limit
  <2> TAKE y \in DOMAIN r
  <2>1. CASE y = 0
    BY <1>2, <2>1
  <2>2. CASE y # 0
    <3>1. r[y].size > 0 /\ y + r[y].size <= t
      BY <2>2 DEF Ring
    <3>. QED BY <1>2, <1>3, <3>1
  <2>. QED BY <2>1, <2>2
<1>5. f \in Nat /\ x \in Nat /\ x + 1 <= Limit
  BY <1>3, <1>4
<1>6. CASE f < x
  <2>1. 0 \in 0..Limit /\ walk[0] <= x /\ 0 + (x - walk[0]) <= Limit
    BY <1>1, <1>2, <1>5, <1>6
  <2>2. PICK j \in 0..(0 + (x - walk[0])) : walk[j] = x
    BY <1>1, <2>1, Climbs
  <2>3. j \in 1..Limit
    BY <1>1, <1>2, <1>5, <1>6, <2>2
  <2>. QED BY <2>2, <2>3 DEF walk
<1>7. CASE x <= f
  <2>1. PICK M \in DOMAIN r : \A y \in DOMAIN r : y <= M
    <3>1. DOMAIN r \subseteq Nat /\ DOMAIN r # {} /\ \A y \in DOMAIN r : y <= Limit
      BY <1>2, <1>3, <1>4
    <3> DEFINE D == DOMAIN r
    <3> HIDE DEF D
    <3>2. D \subseteq Nat /\ D # {} /\ \A y \in D : y <= Limit
      BY <3>1 DEF D
    <3>3. \E M \in D : \A y \in D : y <= M
      BY ONLY <1>2, <3>2, Greatest
    <3>. QED BY <3>3 DEF D
  <2>2. M \in Nat /\ f <= M /\ M + 1 <= Limit /\ r[M].ptr = 0
    BY <1>3, <1>4, <2>1 DEF Follows
  <2>3. 0 \in 0..Limit /\ walk[0] <= M /\ 0 + (M - walk[0]) <= Limit
    BY <1>1, <1>2, <1>5, <2>2
  <2>4. PICK k \in 0..(0 + (M - walk[0])) : walk[k] = M
    BY <1>1, <2>3, Climbs
  <2>5. k \in Nat /\ k <= M - f /\ k + 1 \in 1..Limit /\ k + 1 \in 0..Limit
    BY <1>1, <1>2, <1>5, <2>2, <2>4
  <2>6. walk[k + 1] = 0
    <3>1. (k + 1) - 1 = k
      BY <2>5
    <3>2. walk[k + 1] = r[walk[(k + 1) - 1]].ptr
      BY <1>1, <2>5
    <3>. QED BY <2>2, <2>4, <3>1, <3>2
  <2> DEFINE i == k + 1
  <2>7. walk[i] <= x /\ i + (x - walk[i]) <= Limit /\ i \in 0..Limit
    <3>1. walk[i] = 0 /\ i \in Nat /\ i <= M - f + 1 /\ i \in 0..Limit
      BY <1>5, <2>2, <2>5, <2>6
    <3> HIDE DEF i
    <3>. QED BY <1>2, <1>5, <1>7, <2>2, <3>1
  <2> HIDE DEF i
  <2>8. PICK j \in i..(i + (x - walk[i])) : walk[j] = x
    BY <1>1, <2>7, Climbs
  <2>9. j \in 1..Limit
    BY <1>2, <1>5, <2>5, <2>6, <2>7, <2>8 DEF i
  <2>. QED BY <2>8, <2>9 DEF walk
<1>. QED BY <1>5, <1>6, <1>7

\* If a block fits, malloc() stops before one that does.
LEMMA FirstFitIs ==
  ASSUME Umalloc!SizesFit, NEW r, NEW t \in Nat, t <= Limit, Ring(r, t), NEW f \in DOMAIN r,
         NEW n \in Nat, Umalloc!Fits(r, n)
  PROVE  LET before == Umalloc!After(r, f)[Umalloc!FirstFit(r, f, n)]
         IN before \in DOMAIN r /\ r[r[before].ptr].size >= n
<1> DEFINE walk == Umalloc!After(r, f)
           Stop(m) == /\ r[walk[m + 1]].size >= n
                      /\ \A j \in 1..m : r[walk[j]].size < n
           m0 == Umalloc!FirstFit(r, f, n)
           S == {j \in 1..Limit : r[walk[j]].size >= n}
<1>1. /\ \A k \in 1..Limit : walk[k] = r[walk[k - 1]].ptr
      /\ \A k \in 0..Limit : walk[k] \in DOMAIN r
  BY AfterIs
<1>2. Limit \in Nat
  BY DEF Umalloc!SizesFit
<1>3. S # {} /\ S \subseteq Nat
  <2>1. PICK b \in DOMAIN r : r[b].size >= n
    BY DEF Umalloc!Fits
  <2>2. PICK j \in 1..Limit : walk[j] = b
    BY Reached
  <2>. QED BY <1>2, <2>1, <2>2
<1>4. m0 = CHOOSE m \in 0..Limit : Stop(m)
  BY DEF Umalloc!FirstFit
<1> HIDE DEF walk, m0
<1>5. PICK j \in S : \A k \in S : j <= k
  <2> HIDE DEF S
  <2>. QED BY <1>3, Least
<1>6. j \in 1..Limit /\ r[walk[j]].size >= n /\ j \in Nat
  BY <1>2, <1>5
<1>7. \A k \in DOMAIN r : r[k].size \in Nat
  BY DEF Ring
<1>8. Stop(j - 1) /\ j - 1 \in 0..Limit
  <2>1. (j - 1) + 1 = j /\ j - 1 \in 0..Limit
    BY <1>2, <1>6
  <2>2. ASSUME NEW k \in 1..(j - 1) PROVE r[walk[k]].size < n
    <3>1. k \in 1..Limit /\ k < j /\ k \in 0..Limit
      BY <1>2, <1>6
    <3>2. k \notin S
      BY <1>5, <1>6, <3>1
    <3>3. r[walk[k]].size \in Nat
      BY <1>1, <1>7, <3>1
    <3>. QED BY <3>1, <3>2, <3>3
  <2>. QED BY <1>6, <2>1, <2>2
<1>9. m0 \in 0..Limit /\ Stop(m0)
  <2> HIDE DEF Stop
  <2>. QED BY <1>4, <1>8
<1>10. m0 < j
  <2>1. ASSUME j <= m0 PROVE FALSE
    <3>1. j \in 1..m0
      BY <1>2, <1>6, <1>9, <2>1
    <3>2. r[walk[j]].size < n
      BY <1>9, <3>1
    <3>3. r[walk[j]].size \in Nat
      BY <1>1, <1>2, <1>6, <1>7
    <3>. QED BY <1>6, <3>2, <3>3
  <2>. QED BY <1>2, <1>6, <1>9, <2>1
<1>11. m0 + 1 \in 1..Limit /\ (m0 + 1) - 1 = m0
  BY <1>2, <1>6, <1>9, <1>10
<1>12. walk[m0 + 1] = r[walk[m0]].ptr
  <2>1. walk[m0 + 1] = r[walk[(m0 + 1) - 1]].ptr
    BY <1>1, <1>11
  <2>. QED BY <1>11, <2>1
<1>13. walk[m0] \in DOMAIN r /\ r[r[walk[m0]].ptr].size >= n
  BY <1>1, <1>9, <1>12
<1>. QED BY <1>13 DEF walk, m0

-----------------------------------------------------------------------------
(* malloc() and free(): the heap *)

\* Unit u is in a block in use.
InUse(us, u) == \E b \in DOMAIN us : b <= u /\ u < b + us[b].size

\* The blocks in use, below t, hold the units their requests come to; none overlaps the
\* next.
Blocks(us, t) ==
  /\ \A b \in DOMAIN us : /\ b \in Nat /\ Heap <= b /\ us[b].bytes \in Nat
                          /\ us[b].size \in Nat /\ us[b].size > 0
                          /\ us[b].size = Umalloc!Units(us[b].bytes) /\ b + us[b].size <= t
  /\ \A b, c \in DOMAIN us : b < c => b + us[b].size <= c

\* Every unit of the heap is free or in use, and not both.
Tiled(r, us, t) ==
  /\ Ring(r, t) /\ Blocks(us, t)
  /\ \A u \in Heap..(t - 1) : InUse(us, u) <=> ~InRing(r, u)

\* What holds of the heap after every call, until a request for too much has got a
\* block beyond it.
HeapInv ==
  /\ top \in Nat /\ Heap <= top /\ top <= Limit
  /\ freep \in DOMAIN ring /\ Tiled(ring, used, top)
MallocInv ==
  /\ fate # "overrun" => HeapInv
  /\ fate = "overrun" => \E b \in DOMAIN used : Umalloc!TooMuch(used[b].bytes)
  /\ fate # "runs" => \E nbytes \in Requests : Umalloc!TooMuch(nbytes)

\* Runs of units with none in common.
LEMMA NoneInCommon ==
  ASSUME NEW a \in Nat, NEW n \in Nat, n > 0, NEW b \in Nat, NEW m \in Nat, m > 0,
         \A u \in Nat : ~(a <= u /\ u < a + n /\ b <= u /\ u < b + m)
  PROVE  a + n <= b \/ b + m <= a
<1>1. ~(a <= a /\ a < a + n /\ b <= a /\ a < b + m)
  OBVIOUS
<1>2. ~(a <= b /\ b < a + n /\ b <= b /\ b < b + m)
  OBVIOUS
<1>. QED BY <1>1, <1>2

\* A quotient, and what is left.
LEMMA Quotients ==
  ASSUME NEW a \in Nat, NEW d \in Nat, d > 0
  PROVE  a \div d \in Int /\ (a \div d) * d <= a /\ a < (a \div d) * d + d
OBVIOUS

\* A request comes to a header and some units more.
LEMMA UnitsIs ==
  ASSUME Umalloc!SizesFit, NEW nbytes \in Nat
  PROVE  /\ Umalloc!Units(nbytes) \in Nat /\ Umalloc!Units(nbytes) > 0
         /\ nbytes <= (Umalloc!Units(nbytes) - 1) * Header \/ nbytes + Header - 1 >= UINT
<1> DEFINE w == nbytes + Header - 1
           m == w % UINT
           d == m \div Header
<1>1. Header \in Nat /\ Header > 0 /\ UINT \in Nat /\ UINT > 0
  BY DEF Umalloc!SizesFit
<1>2. w \in Nat /\ m \in Nat /\ (w < UINT => m = w)
  BY <1>1
<1>3. Umalloc!Units(nbytes) = d + 1
  BY DEF Umalloc!Units
<1>4. d \in Int /\ d * Header <= m /\ m < d * Header + Header
  <2> HIDE DEF m
  <2>. QED BY <1>1, <1>2, Quotients
<1>5. d \in Nat
  <2> HIDE DEF m, d
  <2>1. ASSUME d < 0 PROVE FALSE
    <3>1. d * Header + Header <= 0
      BY <1>1, <1>4, <2>1
    <3>2. d * Header \in Int
      BY <1>1, <1>4
    <3>. QED BY <1>1, <1>2, <1>4, <3>1, <3>2
  <2>. QED BY <1>4, <2>1
<1>6. w < UINT => nbytes <= d * Header
  <2> HIDE DEF m, d
  <2>1. d * Header \in Int
    BY <1>1, <1>4
  <2> DEFINE y == d * Header
  <2> HIDE DEF y
  <2>2. y \in Int /\ m < y + Header
    BY <1>4, <2>1 DEF y
  <2>3. w < UINT => nbytes <= y
    BY <1>1, <1>2, <2>2
  <2>. QED BY <2>3 DEF y
<1>7. (d + 1) - 1 = d
  BY <1>5
<1>8. w < UINT \/ w >= UINT
  BY <1>1, <1>2
<1>. QED BY <1>3, <1>5, <1>6, <1>7, <1>8

\* A block that fits is found, and what malloc() takes of it is in use.
LEMMA AllocateIs ==
  ASSUME Umalloc!SizesFit, NEW r, NEW us, NEW t \in Nat, t <= Limit, Tiled(r, us, t),
         NEW f \in DOMAIN r, NEW nbytes \in Nat, Umalloc!Fits(r, Umalloc!Units(nbytes))
  PROVE  LET n == Umalloc!Units(nbytes)
             before == Umalloc!After(r, f)[Umalloc!FirstFit(r, f, n)]
             p == r[before].ptr
             c == p + r[p].size - n
         IN /\ before \in DOMAIN Umalloc!Cut(r, before, n)
            /\ Tiled(Umalloc!Cut(r, before, n),
                     Umalloc!With(us, c, [size |-> n, bytes |-> nbytes]), t)
<1> DEFINE n == Umalloc!Units(nbytes)
           before == Umalloc!After(r, f)[Umalloc!FirstFit(r, f, n)]
           p == r[before].ptr
           c == p + r[p].size - n
           s == Umalloc!Cut(r, before, n)
           vs == Umalloc!With(us, c, [size |-> n, bytes |-> nbytes])
<1>1. n \in Nat /\ n > 0
  BY UnitsIs
<1>2. Ring(r, t) /\ Blocks(us, t) /\ \A u \in Heap..(t - 1) : InUse(us, u) <=> ~InRing(r, u)
  BY DEF Tiled
<1> HIDE DEF n
<1>3. Umalloc!Fits(r, n)
  BY DEF n
<1>4. before \in DOMAIN r /\ r[p].size >= n
  BY <1>1, <1>2, <1>3, FirstFitIs
<1> HIDE DEF before
<1>5. /\ Ring(s, t) /\ before \in DOMAIN s
      /\ c \in Nat /\ Heap <= c /\ c + n <= t
      /\ \A u \in Nat : InRing(s, u) <=> InRing(r, u) /\ ~(c <= u /\ u < c + n)
      /\ \A u \in Nat : c <= u /\ u < c + n => InRing(r, u)
  BY <1>1, <1>2, <1>4, CutIs
<1> HIDE DEF p, c, s
<1>6. Heap \in Nat
  BY DEF Umalloc!SizesFit
<1>7. ASSUME NEW b \in DOMAIN us PROVE b + us[b].size <= c \/ c + n <= b
  <2>1. /\ b \in Nat /\ us[b].size \in Nat /\ us[b].size > 0 /\ Heap <= b
        /\ b + us[b].size <= t
    BY <1>2 DEF Blocks
  <2>2. ASSUME NEW u \in Nat, b <= u, u < b + us[b].size, c <= u, u < c + n PROVE FALSE
    <3>1. InUse(us, u) /\ InRing(r, u) /\ u \in Heap..(t - 1)
      BY <1>5, <1>6, <2>1, <2>2 DEF InUse
    <3>. QED BY <1>2, <3>1
  <2>. QED BY <1>1, <1>5, <2>1, <2>2, NoneInCommon
<1>8. c \notin DOMAIN us
  <2>1. ASSUME c \in DOMAIN us PROVE FALSE
    <3>1. us[c].size \in Nat /\ us[c].size > 0
      BY <1>2, <2>1 DEF Blocks
    <3>. QED BY <1>1, <1>5, <1>7, <2>1, <3>1
  <2>. QED BY <2>1
<1>9. /\ DOMAIN vs = DOMAIN us \cup {c}
      /\ vs[c] = [size |-> n, bytes |-> nbytes]
      /\ \A b \in DOMAIN us : vs[b] = us[b]
  BY <1>8 DEF Umalloc!With
<1> HIDE DEF vs
<1>10. Blocks(vs, t)
  <2>1. ASSUME NEW b \in DOMAIN vs
        PROVE  /\ b \in Nat /\ Heap <= b /\ vs[b].bytes \in Nat
               /\ vs[b].size \in Nat /\ vs[b].size > 0
               /\ vs[b].size = Umalloc!Units(vs[b].bytes) /\ b + vs[b].size <= t
    <3>1. CASE b = c
      BY <1>1, <1>5, <1>9, <3>1 DEF n
    <3>2. CASE b # c
      BY <1>2, <1>9, <3>2 DEF Blocks
    <3>. QED BY <3>1, <3>2
  <2>2. ASSUME NEW b \in DOMAIN vs, NEW e \in DOMAIN vs, b < e
        PROVE  b + vs[b].size <= e
    <3>0. vs[c].size = n
      BY <1>9
    <3>1. CASE b = c
      <4>1. e \in DOMAIN us /\ us[e].size \in Nat /\ us[e].size > 0 /\ e \in Nat
        BY <1>2, <1>5, <1>9, <2>2, <3>1 DEF Blocks
      <4>. QED BY <1>1, <1>5, <1>7, <2>2, <3>0, <3>1, <4>1
    <3>2. CASE e = c
      <4>1. b \in DOMAIN us /\ us[b].size \in Nat /\ vs[b] = us[b] /\ b \in Nat
        BY <1>2, <1>5, <1>9, <2>2, <3>2 DEF Blocks
      <4>. QED BY <1>1, <1>5, <1>7, <2>2, <3>2, <4>1
    <3>3. CASE b # c /\ e # c
      BY <1>2, <1>9, <2>2, <3>3 DEF Blocks
    <3>. QED BY <3>1, <3>2, <3>3
  <2>. QED BY <2>1, <2>2 DEF Blocks
<1>11. ASSUME NEW u \in Heap..(t - 1) PROVE InUse(vs, u) <=> ~InRing(s, u)
  <2>1. u \in Nat /\ (InUse(us, u) <=> ~InRing(r, u))
    BY <1>2, <1>6
  <2>2. InUse(vs, u) <=> InUse(us, u) \/ (c <= u /\ u < c + n)
    BY <1>9 DEF InUse
  <2>. QED BY <1>5, <2>1, <2>2
<1>12. Tiled(s, vs, t)
  BY <1>5, <1>10, <1>11 DEF Tiled
<1>. QED BY <1>5, <1>12 DEF n, before, p, c, s, vs

\* A block in use is given back.
LEMMA FreeKeeps ==
  ASSUME Umalloc!SizesFit, NEW r, NEW us, NEW t \in Nat, Tiled(r, us, t), NEW b \in DOMAIN us
  PROVE  /\ Umalloc!Place(r, b) \in DOMAIN Umalloc!Freed(r, b, us[b].size)
         /\ Tiled(Umalloc!Freed(r, b, us[b].size), Umalloc!Without(us, b), t)
<1> DEFINE n == us[b].size
           s == Umalloc!Freed(r, b, n)
           vs == Umalloc!Without(us, b)
<1>1. /\ Ring(r, t) /\ Blocks(us, t) /\ Heap \in Nat
      /\ \A u \in Heap..(t - 1) : InUse(us, u) <=> ~InRing(r, u)
  BY DEF Tiled, Umalloc!SizesFit
<1>2. b \in Nat /\ Heap <= b /\ n \in Nat /\ n > 0 /\ b + n <= t
  BY <1>1 DEF Blocks
<1>3. ASSUME NEW x \in DOMAIN r \ {0} PROVE x + r[x].size <= b \/ b + n <= x
  <2>1. x \in Nat /\ r[x].size \in Nat /\ r[x].size > 0
    BY <1>1 DEF Ring
  <2>2. ASSUME NEW u \in Nat, x <= u, u < x + r[x].size, b <= u, u < b + n PROVE FALSE
    <3>1. InUse(us, u) /\ InRing(r, u) /\ u \in Heap..(t - 1)
      BY <1>1, <1>2, <2>1, <2>2 DEF InUse, InRing
    <3>. QED BY <1>1, <3>1
  <2>. QED BY <1>2, <2>1, <2>2, NoneInCommon
<1>4. Gap(r, t, b, n)
  BY <1>2, <1>3 DEF Gap
<1>5. /\ Ring(s, t) /\ Umalloc!Place(r, b) \in DOMAIN s
      /\ \A u \in Nat : InRing(s, u) <=> InRing(r, u) \/ (b <= u /\ u < b + n)
  BY <1>1, <1>4, FreedIs
<1>6. DOMAIN vs = DOMAIN us \ {b} /\ \A x \in DOMAIN vs : vs[x] = us[x]
  BY DEF Umalloc!Without
<1> HIDE DEF s, vs
<1>7. Blocks(vs, t)
  BY <1>1, <1>6 DEF Blocks
<1>8. ASSUME NEW u \in Heap..(t - 1) PROVE InUse(vs, u) <=> ~InRing(s, u)
  <2>1. u \in Nat /\ (InUse(us, u) <=> ~InRing(r, u))
    BY <1>1
  <2>2. ASSUME InUse(vs, u) PROVE InUse(us, u) /\ ~(b <= u /\ u < b + n)
    <3>1. PICK x \in DOMAIN vs : x <= u /\ u < x + vs[x].size
      BY <2>2 DEF InUse
    <3>2. x \in DOMAIN us /\ x # b /\ u < x + us[x].size /\ x \in Nat /\ us[x].size \in Nat
      BY <1>1, <1>6, <3>1 DEF Blocks
    <3>3. x + us[x].size <= b \/ b + n <= x
      BY <1>1, <1>2, <3>2 DEF Blocks
    <3>. QED BY <1>2, <2>1, <3>1, <3>2, <3>3 DEF InUse
  <2>3. ASSUME InUse(us, u), ~(b <= u /\ u < b + n) PROVE InUse(vs, u)
    BY <1>6, <2>3 DEF InUse
  <2>. QED BY <1>5, <2>1, <2>2, <2>3
<1>9. Tiled(s, vs, t)
  BY <1>5, <1>7, <1>8 DEF Tiled
<1>. QED BY <1>5, <1>9 DEF n, s, vs

\* What sbrk() adds is given to free(), and then a block of that size fits.
LEMMA GrowKeeps ==
  ASSUME Umalloc!SizesFit, NEW r, NEW us, NEW t \in Nat, Heap <= t, Tiled(r, us, t),
         NEW n \in Nat, n > 0
  PROVE  LET s == Umalloc!Freed(r, t, n)
         IN /\ Umalloc!Place(r, t) \in DOMAIN s /\ Tiled(s, us, t + n)
            /\ \E x \in DOMAIN s : s[x].size >= n
<1> DEFINE s == Umalloc!Freed(r, t, n)
           v == t + n
<1>1. /\ Ring(r, t) /\ Blocks(us, t) /\ Heap \in Nat
      /\ \A u \in Heap..(t - 1) : InUse(us, u) <=> ~InRing(r, u)
  BY DEF Tiled, Umalloc!SizesFit
<1>2. v \in Nat /\ t <= v
  OBVIOUS
<1>3. \A x \in DOMAIN r \ {0} : /\ x \in Nat /\ r[x].size \in Nat /\ x + r[x].size <= t
  BY <1>1 DEF Ring
<1>4. Ring(r, v)
  <2>1. \A x \in DOMAIN r \ {0} : x + r[x].size <= v
    BY <1>2, <1>3
  <2>. QED BY <1>1, <2>1 DEF Ring
<1>5. Gap(r, v, t, n)
  BY <1>1, <1>2, <1>3 DEF Gap
<1>6. /\ Ring(s, v) /\ Umalloc!Place(r, t) \in DOMAIN s
      /\ \E x \in DOMAIN s : s[x].size >= n
      /\ \A u \in Nat : InRing(s, u) <=> InRing(r, u) \/ (t <= u /\ u < t + n)
  <2> HIDE DEF v
  <2>. QED BY <1>2, <1>4, <1>5, FreedIs
<1> HIDE DEF s
<1>7. Blocks(us, v)
  <2>1. \A b \in DOMAIN us : b \in Nat /\ us[b].size \in Nat /\ b + us[b].size <= t
    BY <1>1 DEF Blocks
  <2>2. \A b \in DOMAIN us : b + us[b].size <= v
    BY <1>2, <2>1
  <2>. QED BY <1>1, <2>2 DEF Blocks
<1>8. ASSUME NEW u \in Heap..(v - 1) PROVE InUse(us, u) <=> ~InRing(s, u)
  <2>1. u \in Nat
    BY <1>1
  <2>2. CASE u < t
    <3>1. u \in Heap..(t - 1)
      BY <1>1, <2>1, <2>2
    <3>. QED BY <1>1, <1>6, <2>1, <2>2, <3>1
  <2>3. CASE t <= u
    <3>1. ~InUse(us, u)
      <4>1. ASSUME NEW b \in DOMAIN us PROVE ~(u < b + us[b].size)
        <5>1. b \in Nat /\ us[b].size \in Nat /\ b + us[b].size <= t
          BY <1>1 DEF Blocks
        <5>. QED BY <2>1, <2>3, <5>1
      <4>. QED BY <4>1 DEF InUse
    <3>2. u < t + n
      BY <1>1, <1>2, <2>1
    <3>. QED BY <1>6, <2>1, <2>3, <3>1, <3>2
  <2>. QED BY <2>1, <2>2, <2>3
<1>9. Tiled(s, us, v)
  BY <1>6, <1>7, <1>8 DEF Tiled
<1>. QED BY <1>6, <1>9 DEF s, v

\* The empty heap, whose ring is base.
LEMMA MallocInit ==
  ASSUME Umalloc!SizesFit, Umalloc!Init
  PROVE  MallocInv
<1>1. /\ ring = [b \in {0} |-> [ptr |-> 0, size |-> 0]] /\ freep = 0
      /\ used = [b \in {} |-> 0] /\ top = Heap /\ fate = "runs"
  BY DEF Umalloc!Init
<1>2. Heap \in Nat /\ Heap > 0 /\ Limit \in Nat /\ Heap <= Limit
  BY DEF Umalloc!SizesFit
<1>3. DOMAIN ring = {0} /\ ring[0] = [ptr |-> 0, size |-> 0] /\ DOMAIN used = {}
  BY <1>1
<1>4. Follows(ring, 0)
  BY <1>3 DEF Follows
<1>5. Ring(ring, top)
  BY <1>3, <1>4 DEF Ring
<1>6. Blocks(used, top)
  BY <1>3 DEF Blocks
<1>7. Tiled(ring, used, top)
  BY <1>1, <1>2, <1>5, <1>6 DEF Tiled
<1>. QED BY <1>1, <1>2, <1>3, <1>7 DEF MallocInv, HeapInv

\* What sbrk() is asked for is no positive int only if malloc() wants too much.
LEMMA AskedIs ==
  ASSUME Umalloc!SizesFit, NEW nbytes \in Nat, Umalloc!Asked(Umalloc!Nu(nbytes)) <= 0
  PROVE  Umalloc!TooMuch(nbytes)
<1> DEFINE n == Umalloc!Units(nbytes)
           p == n * Header
           c == Chunk * Header
<1>1. /\ Header \in Nat /\ Header > 0 /\ UINT \in Nat /\ UINT > 0 /\ Chunk \in Nat /\ Chunk > 0
      /\ c < UINT \div 2
  BY DEF Umalloc!SizesFit
<1>2. n \in Nat /\ n > 0
  BY UnitsIs
<1>3. Umalloc!Nu(nbytes) = IF n < Chunk THEN Chunk ELSE n
  BY DEF Umalloc!Nu
<1>4. UINT \div 2 \in Nat /\ UINT \div 2 <= UINT
  BY <1>1
<1>5. c \in Nat /\ c > 0
  BY <1>1
<1> HIDE DEF n
<1>6. p \in Nat /\ p > 0
  BY <1>1, <1>2
<1>7. CASE n < Chunk
  <2>1. Umalloc!Asked(Chunk) <= 0
    BY <1>3, <1>7
  <2>2. Umalloc!Asked(Chunk) = IF c % UINT < UINT \div 2 THEN c % UINT ELSE (c % UINT) - UINT
    BY DEF Umalloc!Asked
  <2> HIDE DEF c
  <2>3. c % UINT = c
    BY <1>1, <1>4, <1>5
  <2>. QED BY <1>1, <1>5, <2>1, <2>2, <2>3
<1>8. CASE ~(n < Chunk)
  <2>1. Umalloc!Asked(n) <= 0
    BY <1>3, <1>8
  <2>2. Umalloc!Asked(n) = IF p % UINT < UINT \div 2 THEN p % UINT ELSE (p % UINT) - UINT
    BY DEF Umalloc!Asked
  <2>3. Umalloc!TooMuch(nbytes) <=> p >= UINT \div 2
    BY DEF Umalloc!TooMuch, n
  <2> HIDE DEF p
  <2>4. p < UINT => p % UINT = p
    BY <1>1, <1>6
  <2>5. p % UINT \in Int
    BY <1>1, <1>6
  <2>. QED BY <1>1, <1>4, <1>6, <2>1, <2>2, <2>3, <2>4, <2>5
<1>. QED BY <1>7, <1>8

\* Every call that sbrk() has memory for keeps it.
LEMMA HeapNext ==
  ASSUME Umalloc!SizesFit, HeapInv,
         \/ \E nbytes \in Requests : Umalloc!MallocFits(nbytes) \/ Umalloc!MallocGrows(nbytes)
         \/ \E b \in DOMAIN used : Umalloc!Free(b)
  PROVE  HeapInv'
<1>1. /\ top \in Nat /\ Heap <= top /\ top <= Limit
      /\ freep \in DOMAIN ring /\ Tiled(ring, used, top)
  BY DEF HeapInv
<1>2. Limit \in Nat /\ Requests \subseteq Nat /\ Chunk \in Nat /\ Chunk > 0 /\ Heap \in Nat
  BY DEF Umalloc!SizesFit
<1>3. ASSUME NEW nbytes \in Requests, Umalloc!MallocFits(nbytes) PROVE HeapInv'
  <2>1. nbytes \in Nat
    BY <1>2
  <2>2. freep' \in DOMAIN ring' /\ Tiled(ring', used', top) /\ top' = top
    BY <1>1, <1>3, <2>1, AllocateIs DEF Umalloc!MallocFits, Umalloc!Allocate
  <2>3. Tiled(ring', used', top')
    BY <2>2
  <2>4. Tiled(ring, used, top)'
    BY <2>3 DEF Tiled, Ring, Follows, InRing, Blocks, InUse
  <2>. QED BY <1>1, <2>2, <2>4 DEF HeapInv
<1>4. ASSUME NEW nbytes \in Requests, Umalloc!MallocGrows(nbytes) PROVE HeapInv'
  <2> DEFINE n == Umalloc!Units(nbytes)
             more == Umalloc!Nu(nbytes)
             s == Umalloc!Freed(ring, top, more)
             f == Umalloc!Place(ring, top)
  <2>1. nbytes \in Nat /\ n \in Nat /\ n > 0
    BY <1>2, UnitsIs
  <2> HIDE DEF n
  <2>2. more \in Nat /\ more > 0 /\ more >= n
    BY <1>2, <2>1 DEF Umalloc!Nu, n
  <2>3. /\ top + more <= Limit /\ top' = top + more
        /\ Umalloc!Allocate(s, f, nbytes)
    BY <1>4 DEF Umalloc!MallocGrows
  <2> HIDE DEF more
  <2>4. f \in DOMAIN s /\ Tiled(s, used, top + more) /\ \E x \in DOMAIN s : s[x].size >= more
    BY <1>1, <2>2, GrowKeeps
  <2> HIDE DEF s, f
  <2>5. Umalloc!Fits(s, n)
    <3>1. PICK x \in DOMAIN s : s[x].size >= more
      BY <2>4
    <3>2. s[x].size \in Nat
      BY <2>4 DEF Tiled, Ring
    <3>. QED BY <2>1, <2>2, <3>1, <3>2 DEF Umalloc!Fits
  <2> DEFINE t == top + more
  <2>6. t \in Nat /\ t <= Limit /\ Heap <= t /\ top' = t
    BY <1>1, <1>2, <2>2, <2>3
  <2>7. Tiled(s, used, t) /\ Umalloc!Fits(s, Umalloc!Units(nbytes))
    BY <2>4, <2>5 DEF n
  <2> HIDE DEF t
  <2>8. freep' \in DOMAIN ring' /\ Tiled(ring', used', t)
    BY <2>1, <2>3, <2>4, <2>6, <2>7, AllocateIs DEF Umalloc!Allocate
  <2>9. Tiled(ring, used, top)'
    BY <2>6, <2>8 DEF Tiled, Ring, Follows, InRing, Blocks, InUse
  <2>. QED BY <2>6, <2>8, <2>9 DEF HeapInv
<1>5. ASSUME NEW b \in DOMAIN used, Umalloc!Free(b) PROVE HeapInv'
  <2>1. freep' \in DOMAIN ring' /\ Tiled(ring', used', top) /\ top' = top
    BY <1>1, <1>5, FreeKeeps DEF Umalloc!Free
  <2>2. Tiled(ring, used, top)'
    BY <2>1 DEF Tiled, Ring, Follows, InRing, Blocks, InUse
  <2>. QED BY <1>1, <2>1, <2>2 DEF HeapInv
<1>. QED BY <1>3, <1>4, <1>5

\* Every call keeps the invariant.
LEMMA MallocNext ==
  ASSUME Umalloc!SizesFit, MallocInv, Umalloc!Next
  PROVE  MallocInv'
<1>1. Requests \subseteq Nat
  BY DEF Umalloc!SizesFit
<1>2. ASSUME fate = "runs", fate' = "runs",
             \/ \E nbytes \in Requests : Umalloc!MallocFits(nbytes) \/ Umalloc!MallocGrows(nbytes)
             \/ \E b \in DOMAIN used : Umalloc!Free(b)
      PROVE  MallocInv'
  <2>1. HeapInv'
    BY <1>2, HeapNext DEF MallocInv
  <2>. QED BY <1>2, <2>1 DEF MallocInv
<1>3. ASSUME NEW nbytes \in Requests, Umalloc!MallocFits(nbytes) \/ Umalloc!MallocGrows(nbytes)
      PROVE  MallocInv'
  <2>1. fate = "runs" /\ fate' = "runs"
    BY <1>3 DEF Umalloc!MallocFits, Umalloc!MallocGrows
  <2>. QED BY <1>2, <1>3, <2>1
<1>4. ASSUME NEW nbytes \in Requests, Umalloc!MallocFaults(nbytes) PROVE MallocInv'
  <2>1. Umalloc!TooMuch(nbytes)
    BY <1>1, <1>4, AskedIs DEF Umalloc!MallocFaults
  <2>2. fate = "runs" /\ fate' = "killed" /\ UNCHANGED <<ring, freep, used, top>>
    BY <1>4 DEF Umalloc!MallocFaults
  <2>3. HeapInv
    BY <2>2 DEF MallocInv
  <2>4. HeapInv'
    BY <2>2, <2>3 DEF HeapInv, Tiled, Ring, Follows, InRing, Blocks, InUse
  <2>5. Umalloc!TooMuch(nbytes)'
    BY <2>1 DEF Umalloc!TooMuch, Umalloc!Units
  <2>. QED BY <2>2, <2>4, <2>5 DEF MallocInv
<1>5. ASSUME NEW nbytes \in Requests, Umalloc!MallocOverruns(nbytes) PROVE MallocInv'
  <2>1. Umalloc!TooMuch(nbytes)
    BY <1>1, <1>5, AskedIs DEF Umalloc!MallocOverruns
  <2>2. fate' = "overrun" /\ \E b \in DOMAIN used' : used'[b].bytes = nbytes
    BY <1>5 DEF Umalloc!MallocOverruns, Umalloc!Allocate, Umalloc!With
  <2>3. \E b \in DOMAIN used' : Umalloc!TooMuch(used'[b].bytes)
    BY <2>1, <2>2
  <2>4. (\E b \in DOMAIN used : Umalloc!TooMuch(used[b].bytes))'
    BY <2>3 DEF Umalloc!TooMuch, Umalloc!Units
  <2>5. Umalloc!TooMuch(nbytes)'
    BY <2>1 DEF Umalloc!TooMuch, Umalloc!Units
  <2>. QED BY <2>2, <2>4, <2>5 DEF MallocInv
<1>6. ASSUME NEW b \in DOMAIN used, Umalloc!Free(b) PROVE MallocInv'
  <2>1. fate = "runs" /\ fate' = "runs"
    BY <1>6 DEF Umalloc!Free
  <2>. QED BY <1>2, <1>6, <2>1
<1>. QED BY <1>3, <1>4, <1>5, <1>6 DEF Umalloc!Next, Umalloc!Malloc

\* Every free block is a block of the heap, and the ring goes through them in the order of
\* their addresses.
LEMMA MallocFacts ==
  ASSUME Umalloc!SizesFit, HeapInv
  PROVE  /\ Umalloc!TypeOK /\ Umalloc!HeapIsTiled /\ Umalloc!Coalesced
         /\ Umalloc!RoomUnlessWrapped
<1>1. /\ top \in Nat /\ Heap <= top /\ top <= Limit
      /\ freep \in DOMAIN ring /\ Ring(ring, top) /\ Blocks(used, top)
      /\ \A u \in Heap..(top - 1) : InUse(used, u) <=> ~InRing(ring, u)
  BY DEF HeapInv, Tiled
<1>2. Limit \in Nat /\ Heap \in Nat /\ Heap > 0
  BY DEF Umalloc!SizesFit
<1>3. /\ 0 \in DOMAIN ring /\ ring[0].size = 0
      /\ \A b \in DOMAIN ring : /\ b \in Nat /\ ring[b].size \in Nat /\ ring[b].ptr \in Nat
                                /\ ring[b].ptr \in DOMAIN ring /\ Follows(ring, b)
      /\ \A b \in DOMAIN ring \ {0} : Heap <= b /\ ring[b].size > 0
                                      /\ b + ring[b].size <= top
  BY <1>1 DEF Ring
<1>4. /\ \A b \in DOMAIN used : /\ b \in Nat /\ Heap <= b /\ used[b].bytes \in Nat
                                /\ used[b].size \in Nat /\ used[b].size > 0
                                /\ used[b].size = Umalloc!Units(used[b].bytes)
                                /\ b + used[b].size <= top
      /\ \A b, c \in DOMAIN used : b < c => b + used[b].size <= c
  BY <1>1 DEF Blocks
<1>5. Umalloc!TypeOK
  <2>1. \A b \in DOMAIN ring : ring[b].size \in 0..Limit
    <3> TAKE b \in DOMAIN ring
    <3>1. CASE b = 0
      BY <1>2, <1>3, <3>1
    <3>2. CASE b # 0
      <4>1. b \in Nat /\ ring[b].size \in Nat /\ b + ring[b].size <= top
        BY <1>3, <3>2
      <4>. QED BY <1>1, <1>2, <4>1
    <3>. QED BY <3>1, <3>2
  <2>2. top \in Heap..Limit
    BY <1>1, <1>2
  <2>. QED BY <1>1, <1>3, <2>1, <2>2 DEF Umalloc!TypeOK
<1>6. Umalloc!HeapIsTiled
  <2> DEFINE inUse == {<<b, used[b].size>> : b \in DOMAIN used}
             free == {<<b, ring[b].size>> : b \in DOMAIN ring \ {0}}
             blocks == inUse \cup free
  <2>1. ASSUME NEW x \in blocks
        PROVE  x[1] \in Nat /\ x[2] \in Nat /\ Heap <= x[1] /\ x[1] + x[2] <= top
    BY <1>3, <1>4
  <2>2. ASSUME NEW u \in Nat
        PROVE  (\E x \in blocks : x[1] <= u /\ u < x[1] + x[2])
                 <=> InUse(used, u) \/ InRing(ring, u)
    <3>1. ASSUME NEW x \in blocks, x[1] <= u, u < x[1] + x[2]
          PROVE  InUse(used, u) \/ InRing(ring, u)
      <4>1. CASE x \in inUse
        BY <3>1, <4>1 DEF InUse
      <4>2. CASE x \in free
        BY <3>1, <4>2 DEF InRing
      <4>. QED BY <4>1, <4>2
    <3>2. ASSUME NEW b \in DOMAIN used, b <= u, u < b + used[b].size
          PROVE  \E x \in blocks : x[1] <= u /\ u < x[1] + x[2]
      <4>1. <<b, used[b].size>> \in blocks
        OBVIOUS
      <4>. QED BY <3>2, <4>1
    <3>3. ASSUME NEW b \in DOMAIN ring \ {0}, b <= u, u < b + ring[b].size
          PROVE  \E x \in blocks : x[1] <= u /\ u < x[1] + x[2]
      <4>1. <<b, ring[b].size>> \in blocks
        OBVIOUS
      <4>. QED BY <3>3, <4>1
    <3> HIDE DEF blocks
    <3>. QED BY <3>1, <3>2, <3>3 DEF InUse, InRing
  <2>3. \A x \in blocks, u \in Int :
          u \in Umalloc!Extent(x[1], x[2]) <=> x[1] <= u /\ u < x[1] + x[2]
    <3> TAKE x \in blocks, u \in Int
    <3> HIDE DEF blocks
    <3>. QED BY <2>1 DEF Umalloc!Extent
  <2>4. UNION {Umalloc!Extent(x[1], x[2]) : x \in blocks} = Heap..(top - 1)
    <3>1. ASSUME NEW x \in blocks, NEW u \in Umalloc!Extent(x[1], x[2]) PROVE u \in Heap..(top - 1)
      <4>1. x[1] \in Nat /\ x[2] \in Nat /\ Heap <= x[1] /\ x[1] + x[2] <= top
        BY <2>1
      <4> HIDE DEF blocks
      <4>. QED BY <1>1, <1>2, <4>1 DEF Umalloc!Extent
    <3>2. ASSUME NEW u \in Heap..(top - 1) PROVE \E x \in blocks : u \in Umalloc!Extent(x[1], x[2])
      <4>1. u \in Nat /\ u \in Int
        BY <1>1, <1>2
      <4>2. InUse(used, u) \/ InRing(ring, u)
        BY <1>1
      <4> HIDE DEF blocks
      <4>3. PICK x \in blocks : x[1] <= u /\ u < x[1] + x[2]
        BY <2>2, <4>1, <4>2
      <4>. QED BY <2>3, <4>1, <4>3
    <3> HIDE DEF blocks
    <3>. QED BY <3>1, <3>2
  <2>5. ASSUME NEW x \in blocks, NEW y \in blocks, x # y, NEW u \in Int,
               u \in Umalloc!Extent(x[1], x[2]), u \in Umalloc!Extent(y[1], y[2])
        PROVE  FALSE
    <3>1. x[1] <= u /\ u < x[1] + x[2] /\ y[1] <= u /\ u < y[1] + y[2]
      <4> HIDE DEF blocks
      <4>. QED BY <2>3, <2>5
    <3>2. u \in Heap..(top - 1) /\ u \in Nat
      <4>1. x[1] \in Nat /\ x[2] \in Nat /\ Heap <= x[1] /\ x[1] + x[2] <= top
        BY <2>1
      <4> HIDE DEF blocks
      <4>. QED BY <1>1, <1>2, <3>1, <4>1
    <3>3. CASE x \in inUse /\ y \in inUse
      <4>1. PICK a \in DOMAIN used : x = <<a, used[a].size>>
        BY <3>3
      <4>2. PICK b \in DOMAIN used : y = <<b, used[b].size>>
        BY <3>3
      <4>3. /\ a \in Nat /\ b \in Nat /\ used[a].size \in Nat /\ used[b].size \in Nat
            /\ a <= u /\ u < a + used[a].size /\ b <= u /\ u < b + used[b].size
        BY <1>4, <3>1, <4>1, <4>2
      <4>4. a # b
        BY <2>5, <4>1, <4>2
      <4>5. (a < b => a + used[a].size <= b) /\ (b < a => b + used[b].size <= a)
        BY <1>4
      <4>. QED BY <3>2, <4>3, <4>4, <4>5
    <3>4. CASE x \in free /\ y \in free
      <4>1. PICK a \in DOMAIN ring \ {0} : x = <<a, ring[a].size>>
        BY <3>4
      <4>2. PICK b \in DOMAIN ring \ {0} : y = <<b, ring[b].size>>
        BY <3>4
      <4>3. /\ a \in Nat /\ b \in Nat /\ ring[a].size \in Nat /\ ring[b].size \in Nat
            /\ a <= u /\ u < a + ring[a].size /\ b <= u /\ u < b + ring[b].size
        BY <1>3, <3>1, <4>1, <4>2
      <4>4. a # b
        BY <2>5, <4>1, <4>2
      <4>5. (a < b => a + ring[a].size < b) /\ (b < a => b + ring[b].size < a)
        BY <1>1, Apart
      <4>. QED BY <3>2, <4>3, <4>4, <4>5
    <3>5. CASE (x \in inUse /\ y \in free) \/ (x \in free /\ y \in inUse)
      <4>1. InUse(used, u) /\ InRing(ring, u)
        BY <3>1, <3>5 DEF InUse, InRing
      <4>. QED BY <1>1, <3>2, <4>1
    <3>. QED BY <3>3, <3>4, <3>5
  <2>6. \A x, y \in blocks : x # y => Umalloc!Extent(x[1], x[2]) \cap Umalloc!Extent(y[1], y[2]) = {}
    <3> TAKE x, y \in blocks
    <3>1. x[1] \in Nat /\ x[2] \in Nat
      BY <2>1
    <3>2. Umalloc!Extent(x[1], x[2]) \subseteq Int
      <4> HIDE DEF blocks
      <4>. QED BY <3>1 DEF Umalloc!Extent
    <3> HIDE DEF blocks
    <3>. QED BY <2>5, <3>2
  <2>. QED BY <2>4, <2>6 DEF Umalloc!HeapIsTiled
<1>7. Umalloc!Coalesced
  <2> SUFFICES ASSUME NEW b \in DOMAIN ring
               PROVE  /\ \A x \in DOMAIN ring :
                           ~(b < x /\ (x < ring[b].ptr \/ ring[b].ptr <= b))
                      /\ ring[b].ptr > b => b + ring[b].size < ring[b].ptr
    BY DEF Umalloc!Coalesced
  <2>1. b \in Nat /\ ring[b].size \in Nat /\ ring[b].ptr \in Nat /\ Follows(ring, b)
        /\ \A x \in DOMAIN ring : x \in Nat
    BY <1>3
  <2>. QED BY <2>1 DEF Follows
<1>8. Umalloc!RoomUnlessWrapped
  BY <1>4, UnitsIs DEF Umalloc!RoomUnlessWrapped
<1>. QED BY <1>5, <1>6, <1>7, <1>8

\* The allocator of xv6's programs (malloc(), free() and morecore() of umalloc.c) loses no
\* unit of the heap, gives none out twice, keeps its ring in order with no two free
\* neighbours, and gives each caller room unless the request wraps an unsigned int - until
\* a request of 2^31 - 15 bytes or more, which is no int for sbrk(), gets a block beyond
\* the heap.  A program that asks for less never gets one, and is not killed in malloc().
THEOREM MallocIsSafe ==
  ASSUME Umalloc!SizesFit
  PROVE  Umalloc!Spec => /\ []Umalloc!UmallocInv
                         /\ []((\A nbytes \in Requests : ~Umalloc!TooMuch(nbytes)) => fate = "runs")
<1> DEFINE NoneTooMuch == (\A nbytes \in Requests : ~Umalloc!TooMuch(nbytes)) => fate = "runs"
<1>1. Umalloc!Init => MallocInv
  BY MallocInit
<1>2. MallocInv /\ [Umalloc!Next]_(Umalloc!vars) => MallocInv'
  <2> SUFFICES ASSUME MallocInv, [Umalloc!Next]_(Umalloc!vars) PROVE MallocInv'
    OBVIOUS
  <2>1. CASE Umalloc!Next
    BY <2>1, MallocNext
  <2>2. CASE UNCHANGED Umalloc!vars
    BY <2>2 DEF Umalloc!vars, MallocInv, HeapInv, Tiled, Ring, Follows, InRing, Blocks, InUse,
                Umalloc!TooMuch, Umalloc!Units
  <2>. QED BY <2>1, <2>2
<1>3. MallocInv => Umalloc!UmallocInv
  BY MallocFacts DEF MallocInv, Umalloc!UmallocInv
<1>4. MallocInv => NoneTooMuch
  BY DEF MallocInv
<1> HIDE DEF NoneTooMuch
<1>5. Umalloc!Spec => []Umalloc!UmallocInv /\ []NoneTooMuch
  BY <1>1, <1>2, <1>3, <1>4, PTL DEF Umalloc!Spec
<1>. QED BY <1>5 DEF NoneTooMuch
=============================================================================
