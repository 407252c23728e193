------------------------------ MODULE VmProofs ------------------------------
(***************************************************************************)
(* Theorems about Vm: what is mapped is what the size says, no page of     *)
(* memory is lost, the CPU's translation is the page table's, and a child  *)
(* is a copy of its parent, for any number of processes, pages and sizes   *)
(* of pages.                                                               *)
(*                                                                         *)
(* The inductive invariant follows each call through its loop: which pages *)
(* are mapped when it has come to address op[p].a.  FrameInv adds what the *)
(* spaces take of the free list.                                           *)
(***************************************************************************)
EXTENDS Vm, SumProofs, FiniteSetTheorems, TLAPS

-----------------------------------------------------------------------------
(* Pages and addresses *)

\* The number of pages that begin below an address, page 0 included.
NPages(a) == PageOf(RoundUp(a))

\* An address where a page begins.
IsStart(a) == a \in Nat /\ a = PageOf(a) * PG

\* The sizes of a page and of a page table are positive.
LEMMA PgIsPositive == PG \in Nat /\ PG > 0 /\ NPT \in Nat /\ NPT > 0
BY VmAssumption

\* Rounding down to a multiple.
LEMMA Division ==
  ASSUME NEW a \in Int, NEW d \in Nat, d > 0
  PROVE  a \div d \in Int /\ (a \div d) * d <= a /\ a < (a \div d) * d + d
OBVIOUS

\* Multiples are ordered as their factors are.
LEMMA Multiples ==
  ASSUME NEW x \in Int, NEW k \in Int, NEW d \in Nat, d > 0
  PROVE  (x < k => x * d + d <= k * d) /\ (x <= k => x * d <= k * d)
OBVIOUS

\* The page of the address where page k begins is k.
LEMMA Quotient ==
  ASSUME NEW k \in Int
  PROVE  PageOf(k * PG) = k
<1>1. PG \in Nat /\ PG > 0 /\ k * PG \in Int
  BY PgIsPositive
<1>2. PageOf(k * PG) \in Int /\ PageOf(k * PG) * PG <= k * PG /\ k * PG < PageOf(k * PG) * PG + PG
  BY <1>1, Division DEF PageOf
<1>3. ~(k < PageOf(k * PG))
  BY <1>1, <1>2, Multiples
<1>4. ~(PageOf(k * PG) < k)
  BY <1>1, <1>2, Multiples
<1>. QED BY <1>2, <1>3, <1>4

\* A page begins below an address exactly when it is one of these.
LEMMA BelowIsPages ==
  ASSUME NEW a \in Nat
  PROVE  /\ NPages(a) \in Nat
         /\ RoundUp(a) \in Nat /\ RoundUp(a) = NPages(a) * PG
         /\ \A x \in Int : x * PG < a <=> x < NPages(a)
<1> DEFINE k == (a + PG - 1) \div PG
<1>1. PG \in Nat /\ PG > 0 /\ a + PG - 1 \in Int
  BY PgIsPositive
<1>2. k \in Int /\ k * PG <= a + PG - 1 /\ a + PG - 1 < k * PG + PG
  BY <1>1, Division
<1>3. RoundUp(a) = k * PG
  BY DEF RoundUp
<1>4. NPages(a) = k
  BY <1>2, <1>3, Quotient DEF NPages
<1>5. k \in Nat
  <2>1. SUFFICES ASSUME k < 0 PROVE FALSE
    BY <1>2
  <2>2. k * PG + PG <= 0 * PG
    BY <1>1, <1>2, <2>1, Multiples
  <2>. QED BY <1>1, <1>2, <2>2
<1>6. ASSUME NEW x \in Int PROVE x * PG < a <=> x < k
  <2> HIDE DEF k
  <2>1. ASSUME x < k PROVE x * PG < a
    <3>1. x * PG + PG <= k * PG
      BY <1>1, <1>2, <2>1, Multiples
    <3>2. x * PG \in Int /\ k * PG \in Int
      BY <1>1, <1>2
    <3>. QED BY <1>1, <1>2, <3>1, <3>2
  <2>2. ASSUME ~(x < k) PROVE ~(x * PG < a)
    <3>1. k * PG <= x * PG
      BY <1>1, <1>2, <2>2, Multiples
    <3>2. x * PG \in Int /\ k * PG \in Int
      BY <1>1, <1>2
    <3>. QED BY <1>1, <1>2, <3>1, <3>2
  <2>. QED BY <2>1, <2>2
<1>7. k * PG \in Nat
  BY <1>1, <1>5
<1>. QED BY <1>3, <1>4, <1>5, <1>6, <1>7

\* A larger size has at least as many pages.
LEMMA MorePages ==
  ASSUME NEW a \in Nat, NEW b \in Nat, a <= b
  PROVE  NPages(a) <= NPages(b)
<1>1. NPages(a) \in Nat /\ NPages(b) \in Nat
  BY BelowIsPages
<1>2. SUFFICES ASSUME NPages(b) < NPages(a) PROVE FALSE
  BY <1>1
<1>3. NPages(b) * PG < a /\ ~(NPages(b) * PG < b)
  BY <1>1, <1>2, BelowIsPages
<1>4. NPages(b) * PG \in Nat
  BY <1>1, PgIsPositive
<1>. QED BY <1>3, <1>4

\* Only the size 0 has no page.
LEMMA PagesOfZero == NPages(0) = 0 /\ \A a \in Nat : a > 0 => NPages(a) > 0
<1>1. \A x \in Int : x * PG < 0 <=> x < NPages(0)
  BY BelowIsPages
<1>2. NPages(0) \in Nat
  BY BelowIsPages
<1>3. ~(0 < NPages(0))
  <2>1. ~(0 * PG < 0)
    BY PgIsPositive
  <2>. QED BY <1>1, <2>1
<1>4. ASSUME NEW a \in Nat, a > 0 PROVE NPages(a) > 0
  <2>1. 0 * PG < a
    BY <1>4, PgIsPositive
  <2>. QED BY <2>1, BelowIsPages
<1>. QED BY <1>2, <1>3, <1>4

\* PGROUNDUP() of an address is where a page begins, not below it.
LEMMA RoundUpStarts ==
  ASSUME NEW a \in Nat
  PROVE  IsStart(RoundUp(a)) /\ a <= RoundUp(a)
<1>1. NPages(a) \in Nat /\ RoundUp(a) \in Nat /\ RoundUp(a) = NPages(a) * PG
  BY BelowIsPages
<1>2. ~(NPages(a) * PG < a)
  BY <1>1, BelowIsPages
<1>. QED BY <1>1, <1>2 DEF IsStart, NPages

\* The second page begins at PG.
LEMMA PgStarts == IsStart(PG) /\ PageOf(PG) = 1
<1>1. PG \in Nat /\ PG = 1 * PG
  BY PgIsPositive
<1>2. PageOf(PG) = 1
  BY <1>1, Quotient
<1>. QED BY <1>1, <1>2 DEF IsStart

\* The loops of vm.c, which add PG, go from page to page.
LEMMA NextStart ==
  ASSUME NEW a, IsStart(a)
  PROVE  IsStart(a + PG) /\ PageOf(a) \in Nat /\ PageOf(a + PG) = PageOf(a) + 1
<1>1. a \in Nat /\ PG \in Nat /\ PG > 0 /\ a = PageOf(a) * PG
  BY PgIsPositive DEF IsStart
<1>2. PageOf(a) \in Int
  BY <1>1, Division DEF PageOf
<1>3. PageOf(a) \in Nat
  <2>1. SUFFICES ASSUME PageOf(a) < 0 PROVE FALSE
    BY <1>2
  <2>2. PageOf(a) * PG + PG <= 0 * PG
    BY <1>1, <1>2, <2>1, Multiples
  <2>. QED BY <1>1, <2>2
<1>4. a + PG = (PageOf(a) + 1) * PG
  BY <1>1, <1>2
<1>5. PageOf(a + PG) = PageOf(a) + 1
  BY <1>2, <1>4, Quotient
<1>. QED BY <1>1, <1>3, <1>4, <1>5 DEF IsStart

\* Where a page begins compares with a size as its number does with the pages.
LEMMA StartBelow ==
  ASSUME NEW a, IsStart(a), NEW b \in Nat
  PROVE  /\ a < b <=> PageOf(a) < NPages(b)
         /\ a >= b => NPages(b) <= PageOf(a)
         /\ NPages(a) = PageOf(a)
<1>1. a \in Nat /\ PageOf(a) \in Nat /\ a = PageOf(a) * PG
  BY NextStart DEF IsStart
<1>2. a < b <=> PageOf(a) < NPages(b)
  BY <1>1, BelowIsPages
<1>3. NPages(b) \in Nat /\ NPages(a) \in Nat
  BY <1>1, BelowIsPages
<1>4. a < a <=> PageOf(a) < NPages(a)
  BY <1>1, BelowIsPages
<1>5. ~(NPages(a) < PageOf(a))
  <2>1. SUFFICES ASSUME NPages(a) < PageOf(a) PROVE FALSE
    OBVIOUS
  <2>2. NPages(a) * PG + PG <= PageOf(a) * PG
    BY <1>1, <1>3, <2>1, Multiples, PgIsPositive
  <2>3. ~(NPages(a) * PG < a)
    BY <1>1, <1>3, BelowIsPages
  <2>4. NPages(a) * PG \in Nat
    BY <1>3, PgIsPositive
  <2>. QED BY <1>1, <2>2, <2>3, <2>4, PgIsPositive
<1>. QED BY <1>1, <1>2, <1>3, <1>4, <1>5

-----------------------------------------------------------------------------
(* The inductive invariant *)

Space == [dir : 0..2, sz : Nat, tables : SUBSET Int, mapped : SUBSET Nat,
          w : SUBSET Nat, u : SUBSET Nat]
Call == [pc : {"idle", "grow", "fork", "text", "stack"}, a : Nat, end : Nat, child : Procs]

Shape ==
  /\ vm \in [Procs -> Space] /\ new \in [Procs -> Space]
  /\ op \in [Procs -> Call] /\ cur \in Procs
  /\ tlb \in [page : Nat, dir : 0..2, w : BOOLEAN]
  /\ stale \in {"no", "rights", "freed"}

\* Only a process that is there is in a call or on the CPU, and the child that a
\* fork() builds is not there yet, nor is it another one's.
LiveInv ==
  /\ \A p \in Procs : vm[p].dir = 0 => vm[p] = NoSpace
  /\ vm[First].dir # 0 /\ vm[cur].dir # 0
  /\ \A p \in Procs : op[p].pc # "idle" => vm[p].dir # 0
  /\ \A p \in Procs : op[p].pc \in {"fork", "text", "stack"} => new[p].dir # 0
  /\ \A p \in Procs : op[p].pc = "fork" => vm[op[p].child].dir = 0
  /\ \A p, q \in Procs :
       op[p].pc = "fork" /\ op[q].pc = "fork" /\ op[p].child = op[q].child => p = q

\* Pages from the second one to below page n, and all of them if the second is there.
Bounded(pages, n) == \A x \in pages : 1 <= x /\ x < n
Filled(pages, n) == 1 \in pages => \A x \in Nat : 1 <= x /\ x < n => x \in pages

SizeInv(p) ==
  vm[p].dir # 0 =>
    /\ vm[p].sz > 0
    /\ vm[p].w \subseteq vm[p].mapped /\ vm[p].u \subseteq vm[p].mapped
    /\ op[p].pc # "grow" =>
         /\ Bounded(vm[p].mapped, NPages(vm[p].sz))
         /\ Filled(vm[p].mapped, NPages(vm[p].sz))

GrowInv(p) ==
  op[p].pc = "grow" =>
    /\ vm[p].sz < op[p].end
    /\ NPages(vm[p].sz) <= PageOf(op[p].a)
    /\ Bounded(vm[p].mapped, PageOf(op[p].a))
    /\ Bounded(vm[p].mapped, NPages(op[p].end))
    /\ Filled(vm[p].mapped, PageOf(op[p].a))

\* What fork() has copied is what its parent has below the page it is at.
Part(pages, n) == {x \in pages : x < n}
ForkInv(p) ==
  op[p].pc = "fork" =>
    /\ op[p].end = vm[p].sz
    /\ new[p].mapped = Part(vm[p].mapped, PageOf(op[p].a))
    /\ new[p].w = Part(vm[p].w, PageOf(op[p].a))
    /\ new[p].u = Part(vm[p].u, PageOf(op[p].a))

ExecInv(p) ==
  op[p].pc \in {"text", "stack"} =>
    /\ op[p].end > 0
    /\ new[p].w \subseteq new[p].mapped /\ new[p].u \subseteq new[p].mapped
    /\ Bounded(new[p].mapped, NPages(op[p].end))
    /\ Filled(new[p].mapped, PageOf(op[p].a))

CallInv(p) ==
  /\ op[p].pc # "idle" => IsStart(op[p].a) /\ PageOf(op[p].a) >= 1
  /\ GrowInv(p) /\ ForkInv(p) /\ ExecInv(p)

\* The CPU's translation is the page table's, of a page below the size.
TlbInv ==
  tlb # NoTlb /\ stale # "freed" =>
    /\ tlb.dir = vm[cur].dir /\ tlb.page \in vm[cur].u
    /\ tlb.page < NPages(vm[cur].sz)
    /\ stale = "no" => (tlb.w <=> tlb.page \in vm[cur].w)

IInv ==
  /\ Shape
  /\ LiveInv
  /\ \A p \in Procs : SizeInv(p) /\ CallInv(p)
  /\ TlbInv

-----------------------------------------------------------------------------
\* A number of pages is a number.
LEMMA NPagesType == \A a \in Nat : NPages(a) \in Nat
BY BelowIsPages

\* deallocuvm() removes the pages from one size to the other.
LEMMA BetweenIsPages ==
  ASSUME NEW s \in Space, NEW newsz \in Nat, NEW oldsz \in Nat
  PROVE  Between(s, newsz, oldsz) =
           {pg \in s.mapped : NPages(newsz) <= pg /\ pg < NPages(oldsz)}
<1>1. s.mapped \subseteq Nat
  BY DEF Space
<1>2. ASSUME NEW x \in Nat
      PROVE  /\ RoundUp(newsz) <= x * PG <=> NPages(newsz) <= x
             /\ x * PG < oldsz <=> x < NPages(oldsz)
  <2>1. x * PG < oldsz <=> x < NPages(oldsz)
    BY BelowIsPages
  <2>2. RoundUp(newsz) \in Nat /\ RoundUp(newsz) = NPages(newsz) * PG /\ NPages(newsz) \in Nat
    BY BelowIsPages
  <2>3. IsStart(RoundUp(newsz)) /\ PageOf(RoundUp(newsz)) = NPages(newsz)
    BY RoundUpStarts DEF NPages
  <2>4. NPages(RoundUp(newsz)) = NPages(newsz)
    BY <2>2, <2>3, StartBelow
  <2>5. x * PG < RoundUp(newsz) <=> x < NPages(newsz)
    BY <2>2, <2>4, BelowIsPages
  <2>6. x * PG \in Nat
    BY PgIsPositive
  <2>. QED BY <2>1, <2>2, <2>5, <2>6
<1>. QED BY <1>1, <1>2 DEF Between

\* The pages mprotect() reaches are user pages.
LEMMA ReachedIsUser ==
  ASSUME NEW p \in Procs, NEW addr \in Int, NEW len \in Nat
  PROVE  Reached(p, addr, len) \subseteq vm[p].u
<1>1. SUFFICES ASSUME NEW pg \in Reached(p, addr, len) PROVE pg \in vm[p].u
  OBVIOUS
<1>2. pg \in Int /\ addr <= pg * PG /\ \A x \in (addr \div PG)..pg : x \in vm[p].u
  BY PgIsPositive DEF Reached, Pages
<1>3. addr \div PG \in Int /\ (addr \div PG) * PG <= addr
  BY Division, PgIsPositive
<1>4. ~(pg < addr \div PG)
  <2>1. SUFFICES ASSUME pg < addr \div PG PROVE FALSE
    OBVIOUS
  <2>2. pg * PG + PG <= (addr \div PG) * PG
    BY <1>2, <1>3, <2>1, Multiples, PgIsPositive
  <2>3. pg * PG \in Int /\ (addr \div PG) * PG \in Int
    BY <1>2, <1>3, PgIsPositive
  <2>. QED BY <1>2, <1>3, <2>2, <2>3, PgIsPositive
<1>. QED BY <1>2, <1>3, <1>4

\* mappages() adds a page with its rights.
LEMMA MapPageSpace ==
  ASSUME NEW s \in Space, NEW pg \in Nat, NEW w \in BOOLEAN, NEW u \in BOOLEAN
  PROVE  /\ MapPage(s, pg, w, u) \in Space
         /\ MapPage(s, pg, w, u).dir = s.dir /\ MapPage(s, pg, w, u).sz = s.sz
         /\ MapPage(s, pg, w, u).mapped = s.mapped \cup {pg}
         /\ MapPage(s, pg, w, u).w = s.w \cup (IF w THEN {pg} ELSE {})
         /\ MapPage(s, pg, w, u).u = s.u \cup (IF u THEN {pg} ELSE {})
<1>1. pg \div NPT \in Int
  BY PgIsPositive, Division
<1>. QED BY <1>1 DEF MapPage, Space

\* deallocuvm() leaves the other pages with their rights.
LEMMA DeallocSpace ==
  ASSUME NEW s \in Space, NEW newsz \in Nat, NEW oldsz \in Nat
  PROVE  LET left == {pg \in s.mapped : ~(NPages(newsz) <= pg /\ pg < NPages(oldsz))} IN
         /\ Dealloc(s, newsz, oldsz) \in Space
         /\ Dealloc(s, newsz, oldsz).dir = s.dir /\ Dealloc(s, newsz, oldsz).sz = s.sz
         /\ Dealloc(s, newsz, oldsz).mapped = left
         /\ s.w \subseteq s.mapped => Dealloc(s, newsz, oldsz).w = s.w \cap left
         /\ s.u \subseteq s.mapped => Dealloc(s, newsz, oldsz).u = s.u \cap left
<1> DEFINE pages == Between(s, newsz, oldsz)
           left == {pg \in s.mapped : ~(NPages(newsz) <= pg /\ pg < NPages(oldsz))}
<1>1. pages = {pg \in s.mapped : NPages(newsz) <= pg /\ pg < NPages(oldsz)}
  BY BetweenIsPages
<1>2. s.mapped \ pages = left
  BY <1>1
<1>3. s.w \subseteq s.mapped => s.w \ pages = s.w \cap left
  BY <1>1
<1>4. s.u \subseteq s.mapped => s.u \ pages = s.u \cap left
  BY <1>1
<1> HIDE DEF pages
<1>5. Unmap(s, pages) =
        [s EXCEPT !.mapped = s.mapped \ pages, !.w = s.w \ pages, !.u = s.u \ pages]
  BY DEF Unmap
<1>6. /\ Unmap(s, pages) \in Space
      /\ Unmap(s, pages).dir = s.dir /\ Unmap(s, pages).sz = s.sz
      /\ Unmap(s, pages).mapped = s.mapped \ pages
      /\ Unmap(s, pages).w = s.w \ pages /\ Unmap(s, pages).u = s.u \ pages
  BY <1>5 DEF Space
<1>. QED BY <1>2, <1>3, <1>4, <1>6 DEF Dealloc, pages

-----------------------------------------------------------------------------
(* The steps *)

\* What a step leaves alone keeps its invariant.
LEMMA Kept ==
  ASSUME NEW q \in Procs, SizeInv(q), CallInv(q),
         vm'[q] = vm[q], new'[q] = new[q], op'[q] = op[q]
  PROVE  SizeInv(q)' /\ CallInv(q)'
<1>1. SizeInv(q)'
  BY DEF SizeInv
<1>2. GrowInv(q)' /\ ForkInv(q)' /\ ExecInv(q)'
  BY DEF CallInv, GrowInv, ForkInv, ExecInv
<1>. QED BY <1>1, <1>2 DEF CallInv

\* The parts of the invariant that are about one process.
LEMMA Fields ==
  ASSUME IInv, NEW p \in Procs
  PROVE  /\ SizeInv(p) /\ CallInv(p)
         /\ vm[p] \in Space /\ new[p] \in Space /\ op[p] \in Call
         /\ vm[p].sz \in Nat /\ vm[p].mapped \subseteq Nat
         /\ new[p].mapped \subseteq Nat
         /\ op[p].a \in Nat /\ op[p].end \in Nat /\ op[p].child \in Procs
         /\ cur = p => vm[p].dir # 0 /\ vm[p].dir \in 1..2
BY DEF IInv, Shape, LiveInv, Space, Call

\* What of a call of p keeps LiveInv, unless it makes a child.
LEMMA LiveKept ==
  ASSUME IInv, NEW p \in Procs, vm[p].dir # 0, cur' = cur,
         \A q \in Procs : vm[q].dir # 0 => vm'[q].dir # 0,
         \A q \in Procs : vm[q].dir = 0 => vm'[q] = vm[q],
         \A q \in Procs \ {p} : op'[q] = op[q] /\ new'[q] = new[q],
         op'[p].pc = "fork" => op[p].pc = "fork" /\ op'[p].child = op[p].child,
         op'[p].pc \in {"fork", "text", "stack"} => new'[p].dir # 0
  PROVE  LiveInv'
<1>1. LiveInv /\ cur \in Procs /\ First \in Procs /\ \A q \in Procs : op[q].child \in Procs
  BY VmAssumption DEF IInv, Shape, Call
<1>2. /\ \A q \in Procs : vm'[q].dir = 0 => vm'[q] = NoSpace
      /\ vm'[First].dir # 0 /\ vm'[cur'].dir # 0
  BY <1>1 DEF LiveInv
<1>3. \A q \in Procs : op'[q].pc # "idle" => vm'[q].dir # 0
  BY <1>1 DEF LiveInv
<1>4. \A q \in Procs : op'[q].pc \in {"fork", "text", "stack"} => new'[q].dir # 0
  BY <1>1 DEF LiveInv
<1>5. \A q \in Procs : op'[q].pc = "fork" => op[q].pc = "fork" /\ op'[q].child = op[q].child
  OBVIOUS
<1>6. \A q \in Procs : op'[q].pc = "fork" => vm'[op'[q].child].dir = 0
  BY <1>1, <1>5 DEF LiveInv
<1>7. \A q, r \in Procs :
        op'[q].pc = "fork" /\ op'[r].pc = "fork" /\ op'[q].child = op'[r].child => q = r
  BY <1>1, <1>5 DEF LiveInv
<1>. QED BY <1>2, <1>3, <1>4, <1>6, <1>7 DEF LiveInv

\* The page that is touched is a user page, so below the size.
LEMMA TouchKeepsInv ==
  ASSUME IInv, NEW p \in Procs, NEW pg \in Pages, Touch(p, pg)
  PROVE  IInv'
<1>1. Shape'
  BY PgIsPositive DEF IInv, Shape, Touch, Pages, Space
<1>2. LiveInv'
  BY DEF IInv, LiveInv, Touch
<1>3. \A q \in Procs : SizeInv(q)' /\ CallInv(q)'
  BY Kept DEF IInv, Touch
<1>4. TlbInv'
  BY DEF IInv, Shape, LiveInv, SizeInv, TlbInv, Touch, Runs, At, Bounded, Space
<1>. QED BY <1>1, <1>2, <1>3, <1>4 DEF IInv

\* The scheduler loads another page directory and drops the translation.
LEMMA SwitchKeepsInv ==
  ASSUME IInv, NEW p \in Procs, Switch(p)
  PROVE  IInv'
<1>1. Shape'
  BY DEF IInv, Shape, Switch, Reload, NoTlb
<1>2. LiveInv'
  BY DEF IInv, LiveInv, Switch
<1>3. \A q \in Procs : SizeInv(q)' /\ CallInv(q)'
  BY Kept DEF IInv, Switch
<1>4. TlbInv'
  BY DEF TlbInv, Switch, Reload
<1>. QED BY <1>1, <1>2, <1>3, <1>4 DEF IInv

\* exit() leaves a process that is not there, and init on the CPU.
LEMMA ExitKeepsInv ==
  ASSUME IInv, NEW p \in Procs, Exit(p)
  PROVE  IInv'
<1>0. /\ vm' = [vm EXCEPT ![p] = NoSpace] /\ new' = new /\ op' = op
      /\ op[p].pc = "idle" /\ p # First /\ cur' = First /\ First \in Procs
  BY VmAssumption DEF Exit, At
<1>1. Shape'
  BY <1>0 DEF IInv, Shape, Exit, Reload, NoTlb, NoSpace, Space
<1>2. LiveInv'
  BY <1>0 DEF IInv, Shape, LiveInv, NoSpace, Call
<1>3. ASSUME NEW q \in Procs PROVE SizeInv(q)' /\ CallInv(q)'
  <2>1. CASE q = p
    <3>1. SizeInv(q)'
      BY <1>0, <2>1 DEF IInv, Shape, SizeInv, NoSpace
    <3>2. CallInv(q)'
      BY <1>0, <2>1 DEF CallInv, GrowInv, ForkInv, ExecInv
    <3>. QED BY <3>1, <3>2
  <2>2. CASE q # p
    BY <1>0, <2>2, Kept DEF IInv, Shape
  <2>. QED BY <2>1, <2>2
<1>4. TlbInv'
  BY DEF TlbInv, Exit, Reload
<1>. QED BY <1>1, <1>2, <1>3, <1>4 DEF IInv

\* allocuvm() begins at the first page above the size.
LEMMA GrowKeepsInv ==
  ASSUME IInv, NEW p \in Procs, NEW n \in Int, Grow(p, n)
  PROVE  IInv'
<1> DEFINE call == [Idle EXCEPT !.pc = "grow", !.a = RoundUp(vm[p].sz), !.end = vm[p].sz + n]
<1>0. /\ vm' = vm /\ new' = new /\ op' = [op EXCEPT ![p] = call]
      /\ cur' = cur /\ tlb' = tlb /\ stale' = stale
      /\ n > 0 /\ op[p].pc = "idle" /\ cur = p
  BY DEF Grow, Runs, At
<1>a. SizeInv(p) /\ vm[p].sz \in Nat /\ vm[p].dir # 0 /\ op[p] \in Call /\ First \in Procs
  BY <1>0, Fields, VmAssumption
<1>b. /\ call.pc = "grow" /\ call.a = RoundUp(vm[p].sz) /\ call.end = vm[p].sz + n
      /\ call.child = First
  BY DEF Idle
<1>c. /\ IsStart(call.a) /\ call.a \in Nat /\ vm[p].sz <= call.a
      /\ PageOf(call.a) = NPages(vm[p].sz) /\ NPages(vm[p].sz) \in Nat
      /\ NPages(vm[p].sz) > 0 /\ call.end \in Nat /\ vm[p].sz < call.end
      /\ NPages(vm[p].sz) <= NPages(call.end) /\ NPages(call.end) \in Nat
  <2>1. call.end \in Nat /\ vm[p].sz < call.end /\ vm[p].sz > 0
    BY <1>a, <1>b, <1>0 DEF SizeInv
  <2>2. IsStart(RoundUp(vm[p].sz)) /\ vm[p].sz <= RoundUp(vm[p].sz)
    BY <1>a, RoundUpStarts
  <2>3. RoundUp(vm[p].sz) \in Nat /\ PageOf(RoundUp(vm[p].sz)) = NPages(vm[p].sz)
    BY <1>a, BelowIsPages DEF NPages
  <2>4. NPages(vm[p].sz) \in Nat /\ NPages(vm[p].sz) > 0 /\ NPages(call.end) \in Nat
    BY <1>a, <2>1, NPagesType, PagesOfZero
  <2>5. NPages(vm[p].sz) <= NPages(call.end)
    BY <1>a, <2>1, MorePages
  <2>. QED BY <1>b, <2>1, <2>2, <2>3, <2>4, <2>5
<1>d. call \in Call
  BY <1>a, <1>c DEF Call, Idle
<1> HIDE DEF call
<1>1. Shape'
  BY <1>0, <1>d DEF IInv, Shape
<1>2. LiveInv'
  BY <1>0, <1>a, <1>b, LiveKept DEF IInv, Shape
<1>3. ASSUME NEW q \in Procs PROVE SizeInv(q)' /\ CallInv(q)'
  <2>1. CASE q = p
    <3>0. op'[p] = call /\ vm'[p] = vm[p]
      BY <1>0 DEF IInv, Shape
    <3>1. SizeInv(p)'
      BY <1>a, <1>b, <3>0 DEF SizeInv
    <3>2. vm[p].mapped \subseteq Nat
      BY Fields
    <3>3. GrowInv(p)'
      BY <1>a, <1>0, <1>b, <1>c, <3>0, <3>2 DEF SizeInv, GrowInv, Bounded, Filled
    <3>4. CallInv(p)'
      BY <1>b, <1>c, <3>0, <3>3 DEF CallInv, ForkInv, ExecInv
    <3>. QED BY <2>1, <3>1, <3>4
  <2>2. CASE q # p
    BY <1>0, <2>2, Kept DEF IInv, Shape
  <2>. QED BY <2>1, <2>2
<1>4. TlbInv'
  BY <1>0 DEF IInv, TlbInv
<1>. QED BY <1>1, <1>2, <1>3, <1>4 DEF IInv

\* It maps pages in order, none of which the CPU has a translation of.
LEMMA GrowPageKeepsInv ==
  ASSUME IInv, NEW p \in Procs, GrowPage(p)
  PROVE  IInv'
<1> DEFINE pg == PageOf(op[p].a)
           s == MapPage(vm[p], pg, TRUE, TRUE)
<1>0. /\ vm' = [vm EXCEPT ![p] = s] /\ new' = new /\ op' = [op EXCEPT ![p].a = @ + PG]
      /\ cur' = cur /\ tlb' = tlb /\ stale' = stale
      /\ op[p].pc = "grow" /\ cur = p /\ op[p].a < op[p].end
  BY DEF GrowPage, At
<1>a. /\ SizeInv(p) /\ CallInv(p) /\ vm[p] \in Space /\ vm[p].sz \in Nat /\ vm[p].dir # 0
      /\ vm[p].mapped \subseteq Nat /\ op[p] \in Call /\ op[p].a \in Nat /\ op[p].end \in Nat
      /\ PG \in Nat
  BY <1>0, Fields, PgIsPositive
<1>b. /\ IsStart(op[p].a) /\ pg \in Nat /\ pg >= 1
      /\ IsStart(op[p].a + PG) /\ PageOf(op[p].a + PG) = pg + 1
      /\ pg < NPages(op[p].end) /\ NPages(op[p].end) \in Nat /\ NPages(vm[p].sz) \in Nat
  BY <1>0, <1>a, NextStart, StartBelow, NPagesType DEF CallInv
<1>c. /\ s \in Space /\ s.dir = vm[p].dir /\ s.sz = vm[p].sz
      /\ s.mapped = vm[p].mapped \cup {pg} /\ s.w = vm[p].w \cup {pg} /\ s.u = vm[p].u \cup {pg}
  BY <1>a, <1>b, MapPageSpace
<1> HIDE DEF s
<1>d. vm'[p] = s /\ op'[p] = [op[p] EXCEPT !.a = @ + PG]
  BY <1>0 DEF IInv, Shape
<1>e. /\ op'[p].pc = "grow" /\ op'[p].a = op[p].a + PG /\ op'[p].end = op[p].end
      /\ op'[p].child = op[p].child /\ op'[p] \in Call
  BY <1>0, <1>a, <1>d DEF Call
<1>1. Shape'
  BY <1>0, <1>c, <1>d, <1>e DEF IInv, Shape
<1>2. LiveInv'
  BY <1>0, <1>a, <1>c, <1>d, <1>e, LiveKept DEF IInv, Shape
<1>3. ASSUME NEW q \in Procs PROVE SizeInv(q)' /\ CallInv(q)'
  <2>1. CASE q = p
    <3>1. SizeInv(p)'
      BY <1>a, <1>c, <1>d, <1>e DEF SizeInv
    <3>2. GrowInv(p)
      BY <1>a DEF CallInv
    <3>3. Bounded(s.mapped, pg + 1) /\ Bounded(s.mapped, NPages(op[p].end))
      BY <1>0, <1>a, <1>b, <1>c, <3>2 DEF GrowInv, Bounded
    <3>4. Filled(s.mapped, pg + 1)
      BY <1>0, <1>a, <1>b, <1>c, <3>2 DEF GrowInv, Filled
    <3>5. GrowInv(p)'
      <4>1. vm'[p].sz = vm[p].sz /\ vm'[p].mapped = s.mapped /\ PageOf(op'[p].a) = pg + 1
        BY <1>b, <1>c, <1>d, <1>e
      <4>2. vm[p].sz < op[p].end /\ NPages(vm[p].sz) <= pg + 1
        BY <1>0, <1>b, <3>2 DEF GrowInv
      <4> HIDE DEF pg
      <4>. QED BY <1>e, <3>3, <3>4, <4>1, <4>2 DEF GrowInv
    <3>6. CallInv(p)'
      BY <1>b, <1>e, <3>5 DEF CallInv, ForkInv, ExecInv
    <3>. QED BY <2>1, <3>1, <3>6
  <2>2. CASE q # p
    BY <1>0, <2>2, Kept DEF IInv, Shape
  <2>. QED BY <2>1, <2>2
<1>4. TlbInv'
  <2>1. tlb.page \in Nat /\ GrowInv(p) /\ TlbInv
    BY <1>a DEF IInv, Shape, CallInv
  <2>2. tlb.page < NPages(vm[p].sz) => tlb.page # pg
    BY <1>0, <1>b, <2>1 DEF GrowInv
  <2>. QED BY <1>0, <1>c, <1>d, <2>1, <2>2 DEF TlbInv
<1>. QED BY <1>1, <1>2, <1>3, <1>4 DEF IInv

\* What a process has left after deallocuvm() of its pages from newsz up.
LEMMA Remains ==
  ASSUME NEW s \in Space, s.w \subseteq s.mapped, s.u \subseteq s.mapped,
         NEW newsz \in Nat, NEW oldsz \in Nat, Bounded(s.mapped, NPages(oldsz))
  PROVE  LET r == Dealloc(s, newsz, oldsz) IN
         /\ r \in Space /\ r.dir = s.dir /\ r.sz = s.sz
         /\ r.mapped = {pg \in s.mapped : pg < NPages(newsz)}
         /\ r.w = {pg \in s.w : pg < NPages(newsz)}
         /\ r.u = {pg \in s.u : pg < NPages(newsz)}
<1> DEFINE left == {pg \in s.mapped : ~(NPages(newsz) <= pg /\ pg < NPages(oldsz))}
<1>1. NPages(newsz) \in Nat /\ s.mapped \subseteq Nat
  BY NPagesType DEF Space
<1>2. left = {pg \in s.mapped : pg < NPages(newsz)}
  BY <1>1 DEF Bounded
<1>3. /\ s.w \cap left = {pg \in s.w : pg < NPages(newsz)}
      /\ s.u \cap left = {pg \in s.u : pg < NPages(newsz)}
  BY <1>2
<1>. QED BY <1>2, <1>3, DeallocSpace

\* When it fails, deallocuvm() takes back what is above the size, and no more.
LEMMA GrowFailsKeepsInv ==
  ASSUME IInv, NEW p \in Procs, GrowFails(p)
  PROVE  IInv'
<1> DEFINE s == Dealloc(vm[p], vm[p].sz, op[p].end)
<1>0. /\ vm' = [vm EXCEPT ![p] = s] /\ new' = new /\ op' = [op EXCEPT ![p] = Idle]
      /\ cur' = cur /\ tlb' = tlb /\ stale' = stale
      /\ op[p].pc = "grow" /\ cur = p
  BY DEF GrowFails, At
<1>a. /\ SizeInv(p) /\ CallInv(p) /\ vm[p] \in Space /\ vm[p].sz \in Nat /\ vm[p].dir # 0
      /\ vm[p].mapped \subseteq Nat /\ op[p].end \in Nat /\ NPages(vm[p].sz) \in Nat
  BY <1>0, Fields, NPagesType
<1>b. /\ s \in Space /\ s.dir = vm[p].dir /\ s.sz = vm[p].sz
      /\ s.mapped = {pg \in vm[p].mapped : pg < NPages(vm[p].sz)}
      /\ s.w = {pg \in vm[p].w : pg < NPages(vm[p].sz)}
      /\ s.u = {pg \in vm[p].u : pg < NPages(vm[p].sz)}
  BY <1>0, <1>a, Remains DEF SizeInv, CallInv, GrowInv
<1> HIDE DEF s
<1>c. vm'[p] = s /\ op'[p] = Idle /\ Idle \in Call /\ Idle.pc = "idle"
  BY <1>0, VmAssumption DEF IInv, Shape, Idle, Call
<1>1. Shape'
  BY <1>0, <1>b, <1>c DEF IInv, Shape
<1>2. LiveInv'
  BY <1>0, <1>a, <1>b, <1>c, LiveKept DEF IInv, Shape
<1>3. ASSUME NEW q \in Procs PROVE SizeInv(q)' /\ CallInv(q)'
  <2>1. CASE q = p
    <3>1. GrowInv(p)
      BY <1>a DEF CallInv
    <3>2. Bounded(s.mapped, NPages(vm[p].sz))
      BY <1>0, <1>a, <1>b, <3>1 DEF GrowInv, Bounded
    <3>3. PageOf(op[p].a) \in Nat
      BY <1>0, <1>a, NextStart DEF CallInv
    <3>4. Filled(s.mapped, NPages(vm[p].sz))
      BY <1>0, <1>a, <1>b, <3>1, <3>3 DEF GrowInv, Filled
    <3>5. SizeInv(p)'
      BY <1>a, <1>b, <1>c, <3>2, <3>4 DEF SizeInv
    <3>6. CallInv(p)'
      BY <1>c DEF CallInv, GrowInv, ForkInv, ExecInv
    <3>. QED BY <2>1, <3>5, <3>6
  <2>2. CASE q # p
    BY <1>0, <2>2, Kept DEF IInv, Shape
  <2>. QED BY <2>1, <2>2
<1>4. TlbInv'
  BY <1>0, <1>b, <1>c DEF IInv, TlbInv
<1>. QED BY <1>1, <1>2, <1>3, <1>4 DEF IInv

\* When it ends, the new size is that of the pages mapped.
LEMMA GrowDoneKeepsInv ==
  ASSUME IInv, NEW p \in Procs, GrowDone(p)
  PROVE  IInv'
<1> DEFINE s == [vm[p] EXCEPT !.sz = op[p].end]
<1>0. /\ vm' = [vm EXCEPT ![p] = s] /\ new' = new /\ op' = [op EXCEPT ![p] = Idle]
      /\ cur' = cur /\ tlb' = NoTlb /\ stale' = "no"
      /\ op[p].pc = "grow" /\ cur = p /\ op[p].a >= op[p].end
  BY DEF GrowDone, At, Reload
<1>a. /\ SizeInv(p) /\ CallInv(p) /\ vm[p] \in Space /\ vm[p].sz \in Nat /\ vm[p].dir # 0
      /\ vm[p].mapped \subseteq Nat /\ op[p].end \in Nat /\ NPages(op[p].end) \in Nat
  BY <1>0, Fields, NPagesType
<1>b. /\ s \in Space /\ s.dir = vm[p].dir /\ s.sz = op[p].end
      /\ s.mapped = vm[p].mapped /\ s.w = vm[p].w /\ s.u = vm[p].u
  BY <1>a DEF Space
<1> HIDE DEF s
<1>c. vm'[p] = s /\ op'[p] = Idle /\ Idle \in Call /\ Idle.pc = "idle"
  BY <1>0, VmAssumption DEF IInv, Shape, Idle, Call
<1>1. Shape'
  BY <1>0, <1>b, <1>c DEF IInv, Shape, NoTlb
<1>2. LiveInv'
  BY <1>0, <1>a, <1>b, <1>c, LiveKept DEF IInv, Shape
<1>3. ASSUME NEW q \in Procs PROVE SizeInv(q)' /\ CallInv(q)'
  <2>1. CASE q = p
    <3>1. GrowInv(p) /\ IsStart(op[p].a)
      BY <1>0, <1>a DEF CallInv
    <3>2. NPages(op[p].end) <= PageOf(op[p].a) /\ PageOf(op[p].a) \in Nat
      BY <1>0, <1>a, <3>1, StartBelow, NextStart
    <3>3. Bounded(s.mapped, NPages(op[p].end)) /\ Filled(s.mapped, NPages(op[p].end))
      BY <1>0, <1>a, <1>b, <3>1, <3>2 DEF GrowInv, Filled
    <3>4. op[p].end > 0
      BY <1>0, <1>a, <3>1 DEF GrowInv
    <3>5. SizeInv(p)'
      BY <1>a, <1>b, <1>c, <3>3, <3>4 DEF SizeInv
    <3>6. CallInv(p)'
      BY <1>c DEF CallInv, GrowInv, ForkInv, ExecInv
    <3>. QED BY <2>1, <3>5, <3>6
  <2>2. CASE q # p
    BY <1>0, <2>2, Kept DEF IInv, Shape
  <2>. QED BY <2>1, <2>2
<1>4. TlbInv'
  BY <1>0 DEF TlbInv
<1>. QED BY <1>1, <1>2, <1>3, <1>4 DEF IInv

\* A sbrk() that gives back pages sets the size to what is left, unless that is
\* nothing: then it only records the failure.
LEMMA ShrinkKeepsInv ==
  ASSUME IInv, NEW p \in Procs, NEW n \in Int, Shrink(p, n)
  PROVE  IInv'
<1> DEFINE newsz == (vm[p].sz + n) % UINT
           r == Dealloc(vm[p], newsz, vm[p].sz)
           s == [r EXCEPT !.sz = IF newsz = 0 THEN @ ELSE newsz]
<1>0. /\ vm' = [vm EXCEPT ![p] = s] /\ new' = new /\ op' = op
      /\ cur' = cur /\ newsz < vm[p].sz
      /\ IF newsz = 0 THEN stale' = "freed" /\ tlb' = tlb ELSE stale' = "no" /\ tlb' = NoTlb
      /\ op[p].pc = "idle" /\ cur = p
  BY DEF Shrink, Runs, At, Reload
<1>a. /\ SizeInv(p) /\ CallInv(p) /\ vm[p] \in Space /\ vm[p].sz \in Nat /\ vm[p].dir # 0
      /\ vm[p].mapped \subseteq Nat
  BY <1>0, Fields
<1>b. newsz \in Nat
  <2>1. UINT \in Nat /\ UINT > 0
    BY VmAssumption DEF UINT
  <2>. QED BY <1>a, <2>1
<1>c. /\ NPages(newsz) \in Nat /\ NPages(vm[p].sz) \in Nat
      /\ newsz = 0 => NPages(newsz) = 0
      /\ NPages(newsz) <= NPages(vm[p].sz)
  BY <1>0, <1>a, <1>b, NPagesType, PagesOfZero, MorePages
<1> HIDE DEF newsz
<1>d. /\ r \in Space /\ r.dir = vm[p].dir /\ r.sz = vm[p].sz
      /\ r.mapped = {pg \in vm[p].mapped : pg < NPages(newsz)}
      /\ r.w = {pg \in vm[p].w : pg < NPages(newsz)}
      /\ r.u = {pg \in vm[p].u : pg < NPages(newsz)}
  BY <1>0, <1>a, <1>b, Remains DEF SizeInv
<1> HIDE DEF r
<1>e. /\ s \in Space /\ s.dir = r.dir /\ s.mapped = r.mapped /\ s.w = r.w /\ s.u = r.u
      /\ s.sz = IF newsz = 0 THEN vm[p].sz ELSE newsz
  BY <1>a, <1>b, <1>d DEF Space
<1> HIDE DEF s
<1>f. vm'[p] = s /\ op'[p] = op[p]
  BY <1>0 DEF IInv, Shape
<1>1. Shape'
  <2>1. tlb' \in [page : Nat, dir : 0..2, w : BOOLEAN] /\ stale' \in {"no", "rights", "freed"}
    <3>1. NoTlb \in [page : Nat, dir : 0..2, w : BOOLEAN]
      BY DEF NoTlb
    <3>2. CASE newsz = 0
      BY <1>0, <3>2 DEF IInv, Shape
    <3>3. CASE newsz # 0
      BY <1>0, <3>1, <3>3
    <3>. QED BY <3>2, <3>3
  <2>. QED BY <1>0, <1>e, <2>1 DEF IInv, Shape
<1>2. LiveInv'
  BY <1>0, <1>a, <1>d, <1>e, <1>f, LiveKept DEF IInv, Shape
<1>3. ASSUME NEW q \in Procs PROVE SizeInv(q)' /\ CallInv(q)'
  <2>1. CASE q = p
    <3>1. /\ Bounded(vm[p].mapped, NPages(vm[p].sz)) /\ Filled(vm[p].mapped, NPages(vm[p].sz))
          /\ vm[p].w \subseteq vm[p].mapped /\ vm[p].u \subseteq vm[p].mapped /\ vm[p].sz > 0
      BY <1>0, <1>a DEF SizeInv
    <3>2. s.w \subseteq s.mapped /\ s.u \subseteq s.mapped /\ s.sz > 0
      BY <1>a, <1>b, <1>d, <1>e, <3>1
    <3>3. ASSUME newsz = 0 PROVE SizeInv(p)'
      <4>1. s.mapped = {} /\ s.sz = vm[p].sz
        BY <1>a, <1>c, <1>d, <1>e, <3>1, <3>3 DEF Bounded
      <4>. QED BY <1>f, <3>2, <4>1 DEF SizeInv, Bounded, Filled
    <3>4. ASSUME newsz # 0 PROVE SizeInv(p)'
      <4>1. s.sz = newsz
        BY <1>e, <3>4
      <4>2. Bounded(s.mapped, NPages(newsz))
        BY <1>d, <1>e, <3>1 DEF Bounded
      <4>3. Filled(s.mapped, NPages(newsz))
        BY <1>a, <1>c, <1>d, <1>e, <3>1 DEF Filled
      <4>. QED BY <1>f, <3>2, <4>1, <4>2, <4>3 DEF SizeInv
    <3>5. CallInv(p)'
      BY <1>0, <1>f DEF CallInv, GrowInv, ForkInv, ExecInv
    <3>. QED BY <2>1, <3>3, <3>4, <3>5
  <2>2. CASE q # p
    BY <1>0, <2>2, Kept DEF IInv, Shape
  <2>. QED BY <2>1, <2>2
<1>4. TlbInv'
  BY <1>0 DEF TlbInv
<1>. QED BY <1>1, <1>2, <1>3, <1>4 DEF IInv

\* A sbrk() below 0 changes nothing.
LEMMA ShrinkWrapsKeepsInv ==
  ASSUME IInv, NEW p \in Procs, NEW n \in Int, ShrinkWraps(p, n)
  PROVE  IInv'
<1>1. Shape'
  BY DEF IInv, Shape, ShrinkWraps, Reload, NoTlb
<1>2. LiveInv'
  BY DEF IInv, LiveInv, ShrinkWraps
<1>3. \A q \in Procs : SizeInv(q)' /\ CallInv(q)'
  BY Kept DEF IInv, ShrinkWraps
<1>4. TlbInv'
  BY DEF TlbInv, ShrinkWraps, Reload
<1>. QED BY <1>1, <1>2, <1>3, <1>4 DEF IInv

\* fork() begins with an empty copy, for a process that is not there.
LEMMA ForkKeepsInv ==
  ASSUME IInv, NEW p \in Procs, NEW c \in Procs, Fork(p, c)
  PROVE  IInv'
<1> DEFINE s == [NoSpace EXCEPT !.dir = 1]
           call == [pc |-> "fork", a |-> PG, end |-> vm[p].sz, child |-> c]
<1>0. /\ vm' = vm /\ new' = [new EXCEPT ![p] = s] /\ op' = [op EXCEPT ![p] = call]
      /\ cur' = cur /\ tlb' = tlb /\ stale' = stale
      /\ op[p].pc = "idle" /\ cur = p /\ c \notin InUse
  BY DEF Fork, Runs, At
<1>a. /\ SizeInv(p) /\ CallInv(p) /\ vm[p] \in Space /\ vm[p].sz \in Nat /\ vm[p].dir # 0
      /\ vm[p].mapped \subseteq Nat /\ PG \in Nat
  BY <1>0, Fields, PgIsPositive
<1>b. s \in Space /\ s.dir = 1 /\ s.mapped = {} /\ s.w = {} /\ s.u = {} /\ call \in Call
  BY <1>a DEF NoSpace, Space, Call
<1>c. call.pc = "fork" /\ call.a = PG /\ call.end = vm[p].sz /\ call.child = c
  OBVIOUS
<1>d. /\ vm[c].dir = 0
      /\ \A q \in Procs : op[q].pc = "fork" => op[q].child # c
  BY <1>0 DEF InUse, NoSpace
<1> HIDE DEF s, call
<1>e. new'[p] = s /\ op'[p] = call
  BY <1>0 DEF IInv, Shape
<1>1. Shape'
  BY <1>0, <1>b DEF IInv, Shape
<1>2. LiveInv'
  BY <1>0, <1>a, <1>b, <1>c, <1>d DEF IInv, Shape, LiveInv
<1>3. ASSUME NEW q \in Procs PROVE SizeInv(q)' /\ CallInv(q)'
  <2>1. CASE q = p
    <3>1. SizeInv(p)'
      BY <1>0, <1>a, <1>c, <1>e DEF SizeInv
    <3>2. vm[p].w \subseteq vm[p].mapped /\ vm[p].u \subseteq vm[p].mapped
          /\ Bounded(vm[p].mapped, NPages(vm[p].sz))
      BY <1>0, <1>a DEF SizeInv
    <3>3. Part(vm[p].mapped, 1) = {} /\ Part(vm[p].w, 1) = {} /\ Part(vm[p].u, 1) = {}
      BY <1>a, <3>2 DEF Part, Bounded
    <3>4. ForkInv(p)'
      BY <1>0, <1>b, <1>c, <1>e, <3>3, PgStarts DEF ForkInv
    <3>5. CallInv(p)'
      BY <1>c, <1>e, <3>4, PgStarts DEF CallInv, GrowInv, ExecInv
    <3>. QED BY <2>1, <3>1, <3>5
  <2>2. CASE q # p
    BY <1>0, <2>2, Kept DEF IInv, Shape
  <2>. QED BY <2>1, <2>2
<1>4. TlbInv'
  BY <1>0 DEF IInv, TlbInv
<1>. QED BY <1>1, <1>2, <1>3, <1>4 DEF IInv

\* The part of a set below n + 1 is that below n, and n if it is in the set.
LEMMA PartGrows ==
  ASSUME NEW S \in SUBSET Nat, NEW n \in Nat
  PROVE  Part(S, n + 1) = Part(S, n) \cup (IF n \in S THEN {n} ELSE {})
<1>1. \A x \in S : x < n + 1 <=> x < n \/ x = n
  OBVIOUS
<1>2. CASE n \in S
  <2>1. Part(S, n + 1) = Part(S, n) \cup {n}
    BY <1>1, <1>2 DEF Part
  <2>. QED BY <1>2, <2>1
<1>3. CASE n \notin S
  <2>1. Part(S, n + 1) = Part(S, n)
    BY <1>1, <1>3 DEF Part
  <2>. QED BY <1>3, <2>1
<1>. QED BY <1>2, <1>3

\* copyuvm() extends the copy by one page.
LEMMA ForkPageKeepsInv ==
  ASSUME IInv, NEW p \in Procs, ForkPage(p)
  PROVE  IInv'
<1> DEFINE pg == PageOf(op[p].a)
           s == MapPage(new[p], pg, pg \in vm[p].w, pg \in vm[p].u)
<1>0. /\ vm' = vm /\ new' = [new EXCEPT ![p] = s] /\ op' = [op EXCEPT ![p].a = @ + PG]
      /\ cur' = cur /\ tlb' = tlb /\ stale' = stale
      /\ op[p].pc = "fork" /\ cur = p /\ pg \in vm[p].mapped
  BY DEF ForkPage, At
<1>a. /\ SizeInv(p) /\ CallInv(p) /\ vm[p] \in Space /\ new[p] \in Space /\ vm[p].dir # 0
      /\ op[p] \in Call /\ op[p].a \in Nat /\ PG \in Nat
      /\ vm[p].mapped \subseteq Nat /\ vm[p].w \subseteq Nat /\ vm[p].u \subseteq Nat
  BY <1>0, Fields, PgIsPositive DEF Space
<1>b. /\ IsStart(op[p].a) /\ pg \in Nat /\ pg >= 1
      /\ IsStart(op[p].a + PG) /\ PageOf(op[p].a + PG) = pg + 1
  BY <1>0, <1>a, NextStart DEF CallInv
<1>c. /\ s \in Space /\ s.dir = new[p].dir
      /\ s.mapped = new[p].mapped \cup {pg}
      /\ s.w = new[p].w \cup (IF pg \in vm[p].w THEN {pg} ELSE {})
      /\ s.u = new[p].u \cup (IF pg \in vm[p].u THEN {pg} ELSE {})
  <2>1. pg \div NPT \in Int
    BY <1>b, PgIsPositive, Division
  <2> HIDE DEF pg
  <2>. QED BY <1>a, <1>b, <2>1 DEF MapPage, Space
<1> HIDE DEF s
<1>d. new'[p] = s /\ op'[p] = [op[p] EXCEPT !.a = @ + PG]
  BY <1>0 DEF IInv, Shape
<1>e. /\ op'[p].pc = "fork" /\ op'[p].a = op[p].a + PG /\ op'[p].end = op[p].end
      /\ op'[p].child = op[p].child /\ op'[p] \in Call
  BY <1>0, <1>a, <1>d DEF Call
<1>1. Shape'
  BY <1>0, <1>c, <1>d, <1>e DEF IInv, Shape
<1>2. LiveInv'
  <2>1. new[p].dir # 0
    BY <1>0 DEF IInv, LiveInv
  <2>. QED BY <1>0, <1>a, <1>c, <1>d, <1>e, <2>1, LiveKept DEF IInv, Shape
<1>3. ASSUME NEW q \in Procs PROVE SizeInv(q)' /\ CallInv(q)'
  <2>1. CASE q = p
    <3>1. SizeInv(p)'
      BY <1>0, <1>a, <1>e DEF SizeInv
    <3>2. ForkInv(p)
      BY <1>a DEF CallInv
    <3>3. /\ s.mapped = Part(vm[p].mapped, pg + 1)
          /\ s.w = Part(vm[p].w, pg + 1) /\ s.u = Part(vm[p].u, pg + 1)
      BY <1>0, <1>a, <1>b, <1>c, <3>2, PartGrows DEF ForkInv
    <3>4. PageOf(op'[p].a) = pg + 1 /\ op[p].end = vm[p].sz
      BY <1>0, <1>b, <1>e, <3>2 DEF ForkInv
    <3> HIDE DEF pg
    <3>5. ForkInv(p)'
      BY <1>0, <1>d, <1>e, <3>3, <3>4 DEF ForkInv
    <3>6. CallInv(p)'
      BY <1>b, <1>e, <3>4, <3>5 DEF CallInv, GrowInv, ExecInv
    <3>. QED BY <2>1, <3>1, <3>6
  <2>2. CASE q # p
    BY <1>0, <2>2, Kept DEF IInv, Shape
  <2>. QED BY <2>1, <2>2
<1>4. TlbInv'
  BY <1>0 DEF IInv, TlbInv
<1>. QED BY <1>1, <1>2, <1>3, <1>4 DEF IInv

\* A call that gives up the space it builds.
LEMMA AbandonKeepsInv ==
  ASSUME IInv, NEW p \in Procs, cur = p, op[p].pc # "grow", Abandon(p)
  PROVE  IInv'
<1>0. /\ vm' = vm /\ new' = [new EXCEPT ![p] = NoSpace] /\ op' = [op EXCEPT ![p] = Idle]
      /\ cur' = cur /\ tlb' = tlb /\ stale' = stale
  BY DEF Abandon
<1>a. SizeInv(p) /\ vm[p].dir # 0
  BY Fields
<1>b. NoSpace \in Space /\ Idle \in Call /\ Idle.pc = "idle"
  BY VmAssumption DEF NoSpace, Space, Idle, Call
<1>c. new'[p] = NoSpace /\ op'[p] = Idle
  BY <1>0 DEF IInv, Shape
<1>1. Shape'
  BY <1>0, <1>b DEF IInv, Shape
<1>2. LiveInv'
  BY <1>0, <1>a, <1>b, <1>c, LiveKept DEF IInv, Shape
<1>3. ASSUME NEW q \in Procs PROVE SizeInv(q)' /\ CallInv(q)'
  <2>1. CASE q = p
    <3>1. SizeInv(p)'
      BY <1>0, <1>a, <1>c DEF SizeInv
    <3>2. CallInv(p)'
      BY <1>b, <1>c DEF CallInv, GrowInv, ForkInv, ExecInv
    <3>. QED BY <2>1, <3>1, <3>2
  <2>2. CASE q # p
    BY <1>0, <2>2, Kept DEF IInv, Shape
  <2>. QED BY <2>1, <2>2
<1>4. TlbInv'
  BY <1>0 DEF IInv, TlbInv
<1>. QED BY <1>1, <1>2, <1>3, <1>4 DEF IInv

\* What fork() leaves to the child when it is done.
LEMMA ForkIsComplete ==
  ASSUME IInv, NEW p \in Procs, ForkDone(p)
  PROVE  /\ vm'[op[p].child].sz = vm[p].sz /\ vm'[op[p].child].mapped = vm[p].mapped
         /\ vm'[op[p].child].w = vm[p].w /\ vm'[op[p].child].u = vm[p].u
         /\ vm'[op[p].child] \in Space /\ vm'[op[p].child].dir # 0
<1> DEFINE n == PageOf(op[p].a)
<1>0. /\ vm' = [vm EXCEPT ![op[p].child] = [new[p] EXCEPT !.sz = vm[p].sz]]
      /\ op[p].pc = "fork" /\ cur = p /\ op[p].a >= op[p].end
  BY DEF ForkDone, At
<1>1. /\ SizeInv(p) /\ ForkInv(p) /\ IsStart(op[p].a) /\ op[p].child \in Procs
      /\ vm[p].dir # 0 /\ vm[p].sz \in Nat /\ new[p] \in Space /\ new[p].dir # 0
      /\ vm[p].mapped \subseteq Nat
  BY <1>0, Fields DEF CallInv, IInv, LiveInv
<1>2. n \in Nat /\ NPages(vm[p].sz) \in Nat /\ NPages(vm[p].sz) <= n
  BY <1>0, <1>1, StartBelow, NextStart, NPagesType DEF ForkInv
<1>3. /\ Bounded(vm[p].mapped, NPages(vm[p].sz))
      /\ vm[p].w \subseteq vm[p].mapped /\ vm[p].u \subseteq vm[p].mapped
  BY <1>0, <1>1 DEF SizeInv
<1> HIDE DEF n
<1>4. /\ Part(vm[p].mapped, n) = vm[p].mapped
      /\ Part(vm[p].w, n) = vm[p].w /\ Part(vm[p].u, n) = vm[p].u
  BY <1>1, <1>2, <1>3 DEF Part, Bounded
<1>5. /\ new[p].mapped = vm[p].mapped /\ new[p].w = vm[p].w /\ new[p].u = vm[p].u
  BY <1>0, <1>1, <1>4 DEF ForkInv, n
<1>6. vm'[op[p].child] = [new[p] EXCEPT !.sz = vm[p].sz]
  BY <1>0, <1>1 DEF IInv, Shape
<1>. QED BY <1>1, <1>5, <1>6 DEF Space

\* The child gets a space that is as its size says.
LEMMA ForkDoneKeepsInv ==
  ASSUME IInv, NEW p \in Procs, ForkDone(p)
  PROVE  IInv'
<1>p. PICK c \in Procs : c = op[p].child
  BY Fields
<1>0. /\ \A q \in Procs \ {c} : vm'[q] = vm[q]
      /\ new' = [new EXCEPT ![p] = NoSpace] /\ op' = [op EXCEPT ![p] = Idle]
      /\ cur' = cur /\ tlb' = tlb /\ stale' = stale
      /\ op[p].pc = "fork" /\ cur = p
  BY <1>p DEF ForkDone, At, IInv, Shape
<1>a. /\ SizeInv(p) /\ CallInv(p) /\ vm[p].dir # 0
  BY <1>0, Fields
<1>b. NoSpace \in Space /\ Idle \in Call /\ Idle.pc = "idle"
  BY VmAssumption DEF NoSpace, Space, Idle, Call
<1>c. /\ vm'[c].sz = vm[p].sz /\ vm'[c].mapped = vm[p].mapped
      /\ vm'[c].w = vm[p].w /\ vm'[c].u = vm[p].u /\ vm'[c] \in Space /\ vm'[c].dir # 0
  BY <1>p, ForkIsComplete
<1>d. vm[c].dir = 0 /\ op[c].pc = "idle" /\ c # p /\ c # cur
  BY <1>0, <1>a, <1>p DEF IInv, LiveInv
<1>e. new'[p] = NoSpace /\ op'[p] = Idle
  BY <1>0 DEF IInv, Shape
<1>f. \A q \in Procs \ {p} : op[q].pc = "fork" => op[q].child # c
  BY <1>0, <1>p DEF IInv, LiveInv
<1>g. vm' \in [Procs -> Space]
  BY <1>c, <1>p DEF ForkDone, IInv, Shape
<1>1. Shape'
  BY <1>0, <1>b, <1>g DEF IInv, Shape
<1>2. LiveInv'
  <2>1. LiveInv /\ cur \in Procs /\ First \in Procs /\ \A q \in Procs : op[q].child \in Procs
    BY VmAssumption DEF IInv, Shape, Call
  <2>2. /\ \A q \in Procs \ {p} : op'[q] = op[q] /\ new'[q] = new[q]
        /\ \A q \in Procs : vm[q].dir # 0 => vm'[q].dir # 0
    BY <1>0, <1>c DEF IInv, Shape
  <2>3. /\ \A q \in Procs : vm'[q].dir = 0 => vm'[q] = NoSpace
        /\ vm'[First].dir # 0 /\ vm'[cur'].dir # 0
    BY <1>0, <1>c, <1>d, <2>1, <2>2 DEF LiveInv
  <2>4. /\ \A q \in Procs : op'[q].pc # "idle" => vm'[q].dir # 0
        /\ \A q \in Procs : op'[q].pc \in {"fork", "text", "stack"} => new'[q].dir # 0
    BY <1>b, <1>e, <2>1, <2>2 DEF LiveInv
  <2>5. \A q \in Procs : op'[q].pc = "fork" => q # p /\ op[q].pc = "fork" /\ op'[q].child = op[q].child
    BY <1>b, <1>e, <2>2
  <2>6. \A q \in Procs : op'[q].pc = "fork" => vm'[op'[q].child].dir = 0
    BY <1>0, <1>f, <2>1, <2>5 DEF LiveInv
  <2>7. \A q, r \in Procs :
          op'[q].pc = "fork" /\ op'[r].pc = "fork" /\ op'[q].child = op'[r].child => q = r
    BY <2>1, <2>5 DEF LiveInv
  <2>. QED BY <2>3, <2>4, <2>6, <2>7 DEF LiveInv
<1>3. ASSUME NEW q \in Procs PROVE SizeInv(q)' /\ CallInv(q)'
  <2>1. CASE q = p
    <3>1. SizeInv(p)'
      BY <1>0, <1>a, <1>b, <1>d, <1>e DEF SizeInv
    <3>2. CallInv(p)'
      BY <1>b, <1>e DEF CallInv, GrowInv, ForkInv, ExecInv
    <3>. QED BY <2>1, <3>1, <3>2
  <2>2. CASE q = c
    <3>0. op'[c] = op[c]
      BY <1>0, <1>a, <1>d DEF IInv, Shape
    <3>1. SizeInv(c)'
      BY <1>0, <1>a, <1>c DEF SizeInv
    <3>2. CallInv(c)'
      BY <1>d, <3>0 DEF CallInv, GrowInv, ForkInv, ExecInv
    <3>. QED BY <2>2, <3>1, <3>2
  <2>3. CASE q # p /\ q # c
    BY <1>0, <2>3, Kept DEF IInv, Shape
  <2>. QED BY <2>1, <2>2, <2>3
<1>4. TlbInv'
  BY <1>0, <1>d DEF IInv, Shape, TlbInv
<1>. QED BY <1>1, <1>2, <1>3, <1>4 DEF IInv

\* exec() begins with an empty image.
LEMMA ExecKeepsInv ==
  ASSUME IInv, NEW p \in Procs, NEW size \in Texts, Exec(p, size)
  PROVE  IInv'
<1> DEFINE s == [NoSpace EXCEPT !.dir = 3 - vm[p].dir]
           call == [Idle EXCEPT !.pc = "text", !.a = PG, !.end = PG + size]
<1>0. /\ vm' = vm /\ new' = [new EXCEPT ![p] = s] /\ op' = [op EXCEPT ![p] = call]
      /\ cur' = cur /\ tlb' = tlb /\ stale' = stale
      /\ op[p].pc = "idle" /\ cur = p
  BY DEF Exec, ExecStart, Runs, At
<1>a. /\ SizeInv(p) /\ vm[p].dir # 0 /\ vm[p].dir \in 1..2 /\ PG \in Nat /\ PG > 0
      /\ size \in Nat /\ First \in Procs
  BY <1>0, Fields, PgIsPositive, VmAssumption
<1>b. /\ s \in Space /\ s.dir # 0 /\ s.mapped = {} /\ s.w = {} /\ s.u = {}
  BY <1>a DEF NoSpace, Space
<1>c. call.pc = "text" /\ call.a = PG /\ call.end = PG + size /\ call \in Call
  <2>1. PG + size \in Nat
    BY <1>a
  <2>. QED BY <1>a, <2>1 DEF Idle, Call
<1> HIDE DEF s, call
<1>e. new'[p] = s /\ op'[p] = call
  BY <1>0 DEF IInv, Shape
<1>1. Shape'
  BY <1>0, <1>b, <1>c DEF IInv, Shape
<1>2. LiveInv'
  BY <1>0, <1>a, <1>b, <1>c, <1>e, LiveKept DEF IInv, Shape
<1>3. ASSUME NEW q \in Procs PROVE SizeInv(q)' /\ CallInv(q)'
  <2>1. CASE q = p
    <3>1. SizeInv(p)'
      BY <1>0, <1>a, <1>c, <1>e DEF SizeInv
    <3>2. ExecInv(p)'
      BY <1>a, <1>b, <1>c, <1>e DEF ExecInv, Bounded, Filled
    <3>3. CallInv(p)'
      BY <1>c, <1>e, <3>2, PgStarts DEF CallInv, GrowInv, ForkInv
    <3>. QED BY <2>1, <3>1, <3>3
  <2>2. CASE q # p
    BY <1>0, <2>2, Kept DEF IInv, Shape
  <2>. QED BY <2>1, <2>2
<1>4. TlbInv'
  BY <1>0 DEF IInv, TlbInv
<1>. QED BY <1>1, <1>2, <1>3, <1>4 DEF IInv

\* The image is built page by page, below its end.
LEMMA ExecPageKeepsInv ==
  ASSUME IInv, NEW p \in Procs, ExecPage(p)
  PROVE  IInv'
<1> DEFINE pg == PageOf(op[p].a)
           s == MapPage(new[p], pg, TRUE, TRUE)
<1>0. /\ vm' = vm /\ new' = [new EXCEPT ![p] = s] /\ op' = [op EXCEPT ![p].a = @ + PG]
      /\ cur' = cur /\ tlb' = tlb /\ stale' = stale
      /\ op[p].pc \in {"text", "stack"} /\ cur = p /\ op[p].a < op[p].end
  BY DEF ExecPage, At
<1>a. /\ SizeInv(p) /\ CallInv(p) /\ new[p] \in Space /\ vm[p].dir # 0 /\ new[p].dir # 0
      /\ op[p] \in Call /\ op[p].a \in Nat /\ op[p].end \in Nat /\ PG \in Nat
      /\ new[p].mapped \subseteq Nat
  BY <1>0, Fields, PgIsPositive DEF IInv, LiveInv
<1>b. /\ IsStart(op[p].a) /\ pg \in Nat /\ pg >= 1
      /\ IsStart(op[p].a + PG) /\ PageOf(op[p].a + PG) = pg + 1
      /\ pg < NPages(op[p].end) /\ NPages(op[p].end) \in Nat
  BY <1>0, <1>a, NextStart, StartBelow, NPagesType DEF CallInv
<1>c. /\ s \in Space /\ s.dir = new[p].dir
      /\ s.mapped = new[p].mapped \cup {pg} /\ s.w = new[p].w \cup {pg} /\ s.u = new[p].u \cup {pg}
  BY <1>a, <1>b, MapPageSpace
<1> HIDE DEF s
<1>d. new'[p] = s /\ op'[p] = [op[p] EXCEPT !.a = @ + PG]
  BY <1>0 DEF IInv, Shape
<1>e. /\ op'[p].pc = op[p].pc /\ op'[p].a = op[p].a + PG /\ op'[p].end = op[p].end
      /\ op'[p] \in Call
  BY <1>0, <1>a, <1>d DEF Call
<1>1. Shape'
  BY <1>0, <1>c, <1>d, <1>e DEF IInv, Shape
<1>2. LiveInv'
  BY <1>0, <1>a, <1>c, <1>d, <1>e, LiveKept DEF IInv, Shape
<1>3. ASSUME NEW q \in Procs PROVE SizeInv(q)' /\ CallInv(q)'
  <2>1. CASE q = p
    <3>1. SizeInv(p)'
      BY <1>0, <1>a, <1>e DEF SizeInv
    <3>2. ExecInv(p)
      BY <1>a DEF CallInv
    <3>3. Bounded(s.mapped, NPages(op[p].end)) /\ s.w \subseteq s.mapped /\ s.u \subseteq s.mapped
      BY <1>0, <1>a, <1>b, <1>c, <3>2 DEF ExecInv, Bounded
    <3>4. Filled(s.mapped, pg + 1)
      BY <1>0, <1>a, <1>b, <1>c, <3>2 DEF ExecInv, Filled
    <3>5. PageOf(op'[p].a) = pg + 1 /\ op[p].end > 0
      BY <1>0, <1>b, <1>e, <3>2 DEF ExecInv
    <3> HIDE DEF pg
    <3>6. ExecInv(p)'
      BY <1>d, <1>e, <3>3, <3>4, <3>5 DEF ExecInv
    <3>7. CallInv(p)'
      BY <1>0, <1>b, <1>e, <3>5, <3>6 DEF CallInv, GrowInv, ForkInv
    <3>. QED BY <2>1, <3>1, <3>7
  <2>2. CASE q # p
    BY <1>0, <2>2, Kept DEF IInv, Shape
  <2>. QED BY <2>1, <2>2
<1>4. TlbInv'
  BY <1>0 DEF IInv, TlbInv
<1>. QED BY <1>1, <1>2, <1>3, <1>4 DEF IInv

\* The stack begins where the program ends.
LEMMA ExecStackKeepsInv ==
  ASSUME IInv, NEW p \in Procs, ExecStack(p)
  PROVE  IInv'
<1> DEFINE sz == RoundUp(op[p].end)
           call == [op[p] EXCEPT !.pc = "stack", !.a = sz, !.end = sz + 2 * PG]
<1>0. /\ vm' = vm /\ new' = new /\ op' = [op EXCEPT ![p] = call]
      /\ cur' = cur /\ tlb' = tlb /\ stale' = stale
      /\ op[p].pc = "text" /\ cur = p /\ op[p].a >= op[p].end
  BY DEF ExecStack, At
<1>a. /\ SizeInv(p) /\ CallInv(p) /\ new[p] \in Space /\ vm[p].dir # 0 /\ new[p].dir # 0
      /\ op[p] \in Call /\ op[p].a \in Nat /\ op[p].end \in Nat /\ PG \in Nat /\ PG > 0
      /\ new[p].mapped \subseteq Nat
  BY <1>0, Fields, PgIsPositive DEF IInv, LiveInv
<1>b. ExecInv(p) /\ IsStart(op[p].a) /\ op[p].end > 0
  BY <1>0, <1>a DEF CallInv, ExecInv
<1>c. /\ IsStart(sz) /\ sz \in Nat /\ PageOf(sz) = NPages(op[p].end) /\ op[p].end <= sz
      /\ PageOf(sz) \in Nat /\ PageOf(sz) >= 1
  BY <1>a, <1>b, RoundUpStarts, NPagesType, PagesOfZero DEF NPages, IsStart
<1>d. NPages(op[p].end) <= PageOf(op[p].a) /\ PageOf(op[p].a) \in Nat
  BY <1>0, <1>a, <1>b, StartBelow, NextStart
<1> HIDE DEF sz
<1>e. /\ call.pc = "stack" /\ call.a = sz /\ call.end = sz + 2 * PG /\ call \in Call
  <2>1. sz + 2 * PG \in Nat
    BY <1>a, <1>c
  <2>. QED BY <1>a, <1>c, <2>1 DEF Call
<1> HIDE DEF call
<1>f. op'[p] = call /\ vm'[p] = vm[p] /\ new'[p] = new[p]
  BY <1>0 DEF IInv, Shape
<1>1. Shape'
  BY <1>0, <1>e DEF IInv, Shape
<1>2. LiveInv'
  BY <1>0, <1>a, <1>e, <1>f, LiveKept DEF IInv, Shape
<1>3. ASSUME NEW q \in Procs PROVE SizeInv(q)' /\ CallInv(q)'
  <2>1. CASE q = p
    <3>1. SizeInv(p)'
      BY <1>0, <1>a, <1>e, <1>f DEF SizeInv
    <3>2. sz + 2 * PG \in Nat /\ sz + 2 * PG > 0 /\ op[p].end <= sz + 2 * PG
      BY <1>a, <1>b, <1>c
    <3>3. NPages(op[p].end) <= NPages(sz + 2 * PG) /\ NPages(sz + 2 * PG) \in Nat
      BY <1>a, <3>2, MorePages, NPagesType
    <3>4. Bounded(new[p].mapped, NPages(sz + 2 * PG))
      BY <1>0, <1>a, <1>b, <1>c, <3>3 DEF ExecInv, Bounded
    <3>5. Filled(new[p].mapped, PageOf(sz))
      BY <1>0, <1>b, <1>c, <1>d DEF ExecInv, Filled
    <3>6. new[p].w \subseteq new[p].mapped /\ new[p].u \subseteq new[p].mapped
      BY <1>0, <1>b DEF ExecInv
    <3>7. ExecInv(p)'
      BY <1>e, <1>f, <3>2, <3>4, <3>5, <3>6 DEF ExecInv
    <3>8. CallInv(p)'
      BY <1>c, <1>e, <1>f, <3>7 DEF CallInv, GrowInv, ForkInv
    <3>. QED BY <2>1, <3>1, <3>8
  <2>2. CASE q # p
    BY <1>0, <2>2, Kept DEF IInv, Shape
  <2>. QED BY <2>1, <2>2
<1>4. TlbInv'
  BY <1>0 DEF IInv, TlbInv
<1>. QED BY <1>1, <1>2, <1>3, <1>4 DEF IInv

\* The image is committed with its size, and the old translations dropped.
LEMMA ExecDoneKeepsInv ==
  ASSUME IInv, NEW p \in Procs, ExecDone(p)
  PROVE  IInv'
<1> DEFINE s == [new[p] EXCEPT !.sz = op[p].end, !.u = @ \ {PageOf(op[p].end - 2 * PG)}]
<1>0. /\ vm' = [vm EXCEPT ![p] = s] /\ new' = [new EXCEPT ![p] = NoSpace]
      /\ op' = [op EXCEPT ![p] = Idle]
      /\ cur' = cur /\ tlb' = NoTlb /\ stale' = "no"
      /\ op[p].pc = "stack" /\ cur = p /\ op[p].a >= op[p].end
  BY DEF ExecDone, At, Reload
<1>a. /\ SizeInv(p) /\ CallInv(p) /\ new[p] \in Space /\ vm[p].dir # 0 /\ new[p].dir # 0
      /\ op[p].a \in Nat /\ op[p].end \in Nat /\ new[p].mapped \subseteq Nat
  BY <1>0, Fields DEF IInv, LiveInv
<1>b. ExecInv(p) /\ IsStart(op[p].a) /\ op[p].end > 0
  BY <1>0, <1>a DEF CallInv, ExecInv
<1>c. /\ s \in Space /\ s.dir = new[p].dir /\ s.sz = op[p].end /\ s.mapped = new[p].mapped
      /\ s.w = new[p].w /\ s.u \subseteq new[p].u
  BY <1>a DEF Space
<1>d. /\ NPages(op[p].end) <= PageOf(op[p].a) /\ PageOf(op[p].a) \in Nat
      /\ NPages(op[p].end) \in Nat
  BY <1>0, <1>a, <1>b, StartBelow, NextStart, NPagesType
<1> HIDE DEF s
<1>e. NoSpace \in Space /\ Idle \in Call /\ Idle.pc = "idle" /\ NoTlb \in [page : Nat, dir : 0..2, w : BOOLEAN]
  BY VmAssumption DEF NoSpace, Space, Idle, Call, NoTlb
<1>f. op'[p] = Idle /\ vm'[p] = s /\ new'[p] = NoSpace
  BY <1>0 DEF IInv, Shape
<1>1. Shape'
  BY <1>0, <1>c, <1>e DEF IInv, Shape
<1>2. LiveInv'
  BY <1>0, <1>a, <1>c, <1>e, <1>f, LiveKept DEF IInv, Shape
<1>3. ASSUME NEW q \in Procs PROVE SizeInv(q)' /\ CallInv(q)'
  <2>1. CASE q = p
    <3>1. /\ Bounded(s.mapped, NPages(s.sz)) /\ s.sz > 0
          /\ s.w \subseteq s.mapped /\ s.u \subseteq s.mapped
      BY <1>0, <1>b, <1>c DEF ExecInv
    <3>2. Filled(s.mapped, NPages(s.sz))
      BY <1>0, <1>b, <1>c, <1>d DEF ExecInv, Filled
    <3>3. SizeInv(p)'
      BY <1>f, <3>1, <3>2 DEF SizeInv
    <3>4. CallInv(p)'
      BY <1>e, <1>f DEF CallInv, GrowInv, ForkInv, ExecInv
    <3>. QED BY <2>1, <3>3, <3>4
  <2>2. CASE q # p
    BY <1>0, <2>2, Kept DEF IInv, Shape
  <2>. QED BY <2>1, <2>2
<1>4. TlbInv'
  BY <1>0 DEF TlbInv
<1>. QED BY <1>1, <1>2, <1>3, <1>4 DEF IInv

\* A change of the rights of user pages: what is mapped stays as it is.
LEMMA RightsKeepInv ==
  ASSUME IInv, NEW p \in Procs, NEW pages, pages \subseteq vm[p].u, NEW w \in BOOLEAN,
         Rights(p, pages, w), op[p].pc = "idle", cur = p,
         UNCHANGED <<free, new, op, cur>>,
         tlb' \in [page : Nat, dir : 0..2, w : BOOLEAN], stale' \in {"no", "rights", "freed"}
  PROVE  Shape' /\ LiveInv' /\ \A q \in Procs : SizeInv(q)' /\ CallInv(q)'
<1> DEFINE s == [vm[p] EXCEPT !.w = IF w THEN @ \cup pages ELSE @ \ pages]
<1>0. vm' = [vm EXCEPT ![p] = s] /\ new' = new /\ op' = op /\ cur' = cur
  BY DEF Rights
<1>a. SizeInv(p) /\ vm[p] \in Space /\ vm[p].dir # 0
  BY Fields
<1>b. vm[p].w \subseteq vm[p].mapped /\ vm[p].u \subseteq vm[p].mapped /\ vm[p].mapped \subseteq Nat
  BY <1>a DEF SizeInv, Space
<1>c. /\ s \in Space /\ s.dir = vm[p].dir /\ s.sz = vm[p].sz
      /\ s.mapped = vm[p].mapped /\ s.u = vm[p].u /\ s.w \subseteq s.mapped
  BY <1>a, <1>b DEF Space
<1> HIDE DEF s
<1>d. vm'[p] = s
  BY <1>0 DEF IInv, Shape
<1>1. Shape'
  BY <1>0, <1>c DEF IInv, Shape
<1>2. LiveInv'
  BY <1>0, <1>a, <1>c, <1>d, LiveKept DEF IInv, Shape, LiveInv
<1>3. ASSUME NEW q \in Procs PROVE SizeInv(q)' /\ CallInv(q)'
  <2>1. CASE q = p
    <3>1. SizeInv(p)'
      BY <1>0, <1>a, <1>c, <1>d DEF SizeInv
    <3>2. CallInv(p)'
      BY <1>0 DEF IInv, CallInv, GrowInv, ForkInv, ExecInv
    <3>. QED BY <2>1, <3>1, <3>2
  <2>2. CASE q # p
    BY <1>0, <2>2, Kept DEF IInv, Shape
  <2>. QED BY <2>1, <2>2
<1>. QED BY <1>1, <1>2, <1>3

\* A mprotect() that succeeds changes rights and reloads the page directory.
LEMMA ProtectKeepsInv ==
  ASSUME IInv, NEW p \in Procs, NEW addr \in Addrs, NEW len \in Lens, NEW w \in BOOLEAN,
         Protect(p, addr, len, w)
  PROVE  IInv'
<1>1. addr \in Int /\ len \in Nat
  BY VmAssumption
<1>2. Reached(p, addr, len) \subseteq vm[p].u
  BY <1>1, ReachedIsUser
<1>3. /\ Rights(p, Reached(p, addr, len), w) /\ op[p].pc = "idle" /\ cur = p
      /\ UNCHANGED <<free, new, op, cur>> /\ tlb' = NoTlb /\ stale' = "no"
  BY DEF Protect, Runs, At, Reload
<1>4. NoTlb \in [page : Nat, dir : 0..2, w : BOOLEAN]
  BY DEF NoTlb
<1>5. Shape' /\ LiveInv' /\ \A q \in Procs : SizeInv(q)' /\ CallInv(q)'
  BY <1>2, <1>3, <1>4, RightsKeepInv
<1>6. TlbInv'
  BY <1>3 DEF TlbInv
<1>. QED BY <1>5, <1>6 DEF IInv

\* The rights may have changed under the CPU's translation.
LEMMA ProtectFailsKeepsInv ==
  ASSUME IInv, NEW p \in Procs, NEW addr \in Addrs, NEW len \in Lens, NEW w \in BOOLEAN,
         ProtectFails(p, addr, len, w)
  PROVE  IInv'
<1> DEFINE pages == Reached(p, addr, len)
           s == [vm[p] EXCEPT !.w = IF w THEN @ \cup pages ELSE @ \ pages]
<1>1. addr \in Int /\ len \in Nat
  BY VmAssumption
<1>2. pages \subseteq vm[p].u
  BY <1>1, ReachedIsUser
<1> HIDE DEF pages
<1>3. /\ Rights(p, pages, w) /\ op[p].pc = "idle" /\ cur = p
      /\ UNCHANGED <<free, new, op, cur>> /\ tlb' = tlb
      /\ stale' = IF pages # {} /\ stale = "no" THEN "rights" ELSE stale
  BY DEF ProtectFails, Runs, At, pages
<1>4. tlb' \in [page : Nat, dir : 0..2, w : BOOLEAN] /\ stale' \in {"no", "rights", "freed"}
  BY <1>3 DEF IInv, Shape
<1>5. Shape' /\ LiveInv' /\ \A q \in Procs : SizeInv(q)' /\ CallInv(q)'
  BY <1>2, <1>3, <1>4, RightsKeepInv
<1>6. vm'[p] = s /\ cur' = cur
  BY <1>3 DEF IInv, Shape, Rights
<1>7. /\ vm'[p].dir = vm[p].dir /\ vm'[p].sz = vm[p].sz /\ vm'[p].u = vm[p].u
      /\ pages = {} => vm'[p].w = vm[p].w
  <2>1. vm[p] \in Space
    BY DEF IInv, Shape
  <2>2. s.dir = vm[p].dir /\ s.sz = vm[p].sz /\ s.u = vm[p].u
    BY <2>1 DEF Space
  <2>3. s.w = IF w THEN vm[p].w \cup pages ELSE vm[p].w \ pages
    BY <2>1 DEF Space
  <2>4. pages = {} => s.w = vm[p].w
    BY <2>3
  <2>. QED BY <1>6, <2>2, <2>4
<1>8. stale' = "no" => stale = "no" /\ pages = {}
  BY <1>3
<1>9. stale' # "freed" => stale # "freed"
  BY <1>3
<1>10. TlbInv'
  BY <1>3, <1>6, <1>7, <1>8, <1>9 DEF IInv, TlbInv
<1>. QED BY <1>5, <1>10 DEF IInv

\* The first program has the pages its size says.
LEMMA InitIsSound == Init => IInv
<1>1. SUFFICES ASSUME Init PROVE IInv
  OBVIOUS
<1>2. PICK size \in Texts : vm = [p \in Procs |-> IF p = First THEN Image(size) ELSE NoSpace]
  BY <1>1 DEF Init
<1> DEFINE start == RoundUp(PG + size)
           sz == start + 2 * PG
           pages == 1..(PageOf(sz) - 1)
<1>3. size \in Nat /\ PG \in Nat /\ PG > 0 /\ NPT \in Nat /\ NPT > 0 /\ First \in Procs
  BY <1>2, VmAssumption, PgIsPositive
<1>4. IsStart(start) /\ start \in Nat
  BY <1>3, RoundUpStarts DEF IsStart
<1>5. IsStart(sz) /\ sz \in Nat
  <2>1. IsStart(start + PG)
    BY <1>4, NextStart
  <2>2. IsStart((start + PG) + PG) /\ sz = (start + PG) + PG
    BY <1>3, <1>4, <2>1, NextStart
  <2>. QED BY <2>2 DEF IsStart
<1>6. NPages(sz) = PageOf(sz) /\ PageOf(sz) \in Nat /\ sz > 0
  BY <1>3, <1>4, <1>5, StartBelow, NextStart
<1>7. Image(size) = [dir |-> 1, sz |-> sz, tables |-> {pg \div NPT : pg \in pages},
                     mapped |-> pages, w |-> pages, u |-> pages \ {PageOf(sz - 2 * PG)}]
  BY DEF Image
<1>8. pages \subseteq Nat /\ {pg \div NPT : pg \in pages} \subseteq Int
  BY <1>3, <1>6, Division
<1>9. Bounded(pages, NPages(sz)) /\ Filled(pages, NPages(sz))
  BY <1>6 DEF Bounded, Filled
<1> HIDE DEF sz, pages
<1>10. Image(size) \in Space
  <2> DEFINE t == {pg \div NPT : pg \in pages}
             u == pages \ {PageOf(sz - 2 * PG)}
  <2>1. t \in SUBSET Int /\ pages \in SUBSET Nat /\ u \in SUBSET Nat
    BY <1>8
  <2>2. Image(size) = [dir |-> 1, sz |-> sz, tables |-> t, mapped |-> pages, w |-> pages, u |-> u]
    BY <1>7
  <2> HIDE DEF t, u
  <2>. QED BY <1>5, <2>1, <2>2 DEF Space
<1>11. /\ NoSpace \in Space /\ NoSpace.dir = 0 /\ Idle \in Call /\ Idle.pc = "idle"
       /\ NoTlb \in [page : Nat, dir : 0..2, w : BOOLEAN]
  BY <1>3 DEF NoSpace, Space, Idle, Call, NoTlb
<1>12. /\ new = [p \in Procs |-> NoSpace] /\ op = [p \in Procs |-> Idle]
       /\ cur = First /\ tlb = NoTlb /\ stale = "no"
  BY <1>1 DEF Init
<1>13. Shape
  BY <1>2, <1>3, <1>10, <1>11, <1>12 DEF Shape
<1>14. LiveInv
  BY <1>2, <1>3, <1>7, <1>11, <1>12 DEF LiveInv
<1>15. ASSUME NEW p \in Procs PROVE SizeInv(p) /\ CallInv(p)
  <2>1. CallInv(p)
    BY <1>11, <1>12 DEF CallInv, GrowInv, ForkInv, ExecInv
  <2>2. CASE p = First
    <3>1. /\ vm[p].sz = sz /\ vm[p].mapped = pages /\ vm[p].w = pages
          /\ vm[p].u = pages \ {PageOf(sz - 2 * PG)}
      BY <1>2, <1>7, <2>2
    <3>2. SizeInv(p)
      BY <1>6, <1>9, <3>1 DEF SizeInv
    <3>. QED BY <2>1, <3>2
  <2>3. CASE p # First
    BY <1>2, <1>11, <2>1, <2>3 DEF SizeInv
  <2>. QED BY <2>2, <2>3
<1>16. TlbInv
  BY <1>12 DEF TlbInv
<1>. QED BY <1>13, <1>14, <1>15, <1>16 DEF IInv

\* Every step keeps the invariant.
LEMMA StepKeepsInv == IInv /\ [Next]_vars => IInv'
<1>1. SUFFICES ASSUME IInv, [Next]_vars PROVE IInv'
  OBVIOUS
<1>2. CASE UNCHANGED vars
  <2>1. Shape' /\ LiveInv' /\ TlbInv'
    BY <1>1, <1>2 DEF vars, IInv, Shape, LiveInv, TlbInv
  <2>2. \A q \in Procs : SizeInv(q)' /\ CallInv(q)'
    BY <1>1, <1>2, Kept DEF vars, IInv
  <2>. QED BY <2>1, <2>2 DEF IInv
<1>3. CASE Next
  <2>1. PICK p \in Procs :
          \/ Switch(p) \/ Exit(p) \/ InGrow(p) \/ InFork(p) \/ InExec(p)
          \/ \E pg \in Pages : Touch(p, pg)
          \/ \E n \in Grows : Sbrk(p, n)
          \/ \E q \in Procs : Fork(p, q)
          \/ \E size \in Texts : Exec(p, size)
          \/ \E addr \in Addrs, len \in Lens, w \in BOOLEAN :
               Protect(p, addr, len, w) \/ ProtectFails(p, addr, len, w)
    BY <1>3 DEF Next
  <2>2. CASE Switch(p) \/ Exit(p)
    BY <1>1, <2>2, SwitchKeepsInv, ExitKeepsInv
  <2>3. CASE InGrow(p)
    BY <1>1, <2>3, GrowPageKeepsInv, GrowFailsKeepsInv, GrowDoneKeepsInv DEF InGrow
  <2>4. CASE InFork(p)
    <3>1. CASE ForkFails(p)
      <4>1. cur = p /\ op[p].pc # "grow" /\ Abandon(p)
        BY <3>1 DEF ForkFails, At
      <4>. QED BY <1>1, <4>1, AbandonKeepsInv
    <3>. QED BY <1>1, <2>4, <3>1, ForkPageKeepsInv, ForkDoneKeepsInv DEF InFork
  <2>5. CASE InExec(p)
    <3>1. CASE ExecFails(p)
      <4>1. cur = p /\ op[p].pc # "grow" /\ Abandon(p)
        BY <3>1 DEF ExecFails, At
      <4>. QED BY <1>1, <4>1, AbandonKeepsInv
    <3>. QED BY <1>1, <2>5, <3>1, ExecPageKeepsInv, ExecStackKeepsInv, ExecDoneKeepsInv DEF InExec
  <2>6. CASE \E pg \in Pages : Touch(p, pg)
    BY <1>1, <2>6, TouchKeepsInv
  <2>7. CASE \E n \in Grows : Sbrk(p, n)
    <3>1. PICK n \in Grows : Sbrk(p, n)
      BY <2>7
    <3>2. n \in Int
      BY VmAssumption
    <3>. QED BY <1>1, <3>1, <3>2, GrowKeepsInv, ShrinkKeepsInv, ShrinkWrapsKeepsInv DEF Sbrk
  <2>8. CASE \E q \in Procs : Fork(p, q)
    BY <1>1, <2>8, ForkKeepsInv
  <2>9. CASE \E size \in Texts : Exec(p, size)
    BY <1>1, <2>9, ExecKeepsInv
  <2>10. CASE \E addr \in Addrs, len \in Lens, w \in BOOLEAN :
                Protect(p, addr, len, w) \/ ProtectFails(p, addr, len, w)
    BY <1>1, <2>10, ProtectKeepsInv, ProtectFailsKeepsInv
  <2>. QED BY <2>1, <2>2, <2>3, <2>4, <2>5, <2>6, <2>7, <2>8, <2>9, <2>10
<1>. QED BY <1>1, <1>2, <1>3

-----------------------------------------------------------------------------
(* The pages of memory *)

\* An address space of finitely many pages, as mappages() makes it.
Finite(s) == IsFiniteSet(s.tables) /\ IsFiniteSet(s.mapped)

\* What an address space takes is a number of pages.
LEMMA UsedIsNat ==
  ASSUME NEW s, Finite(s)
  PROVE  Used(s) \in Nat
<1>1. Cardinality(s.tables) \in Nat /\ Cardinality(s.mapped) \in Nat
  BY FS_CardinalityType DEF Finite
<1>. QED BY <1>1 DEF Used

\* No space, no pages.
LEMMA NoSpaceUsesNone == Finite(NoSpace) /\ Used(NoSpace) = 0
<1>1. NoSpace.tables = {} /\ NoSpace.mapped = {} /\ NoSpace.dir = 0
  BY DEF NoSpace
<1>. QED BY <1>1, FS_EmptySet DEF Finite, Used

\* mappages() of a new page takes that page, and a page table if there is none.
LEMMA MapPageUses ==
  ASSUME NEW s \in Space, Finite(s), NEW pg, pg \notin s.mapped, NEW w, NEW u
  PROVE  /\ Finite(MapPage(s, pg, w, u))
         /\ Used(MapPage(s, pg, w, u)) = Used(s) + Costs(s, pg)
<1> DEFINE r == MapPage(s, pg, w, u)
<1>1. r.dir = s.dir /\ r.mapped = s.mapped \cup {pg} /\ r.tables = s.tables \cup {pg \div NPT}
  BY DEF MapPage, Space
<1>2. IsFiniteSet(s.mapped) /\ IsFiniteSet(s.tables)
  BY DEF Finite
<1>3. Cardinality(s.mapped) \in Nat /\ Cardinality(s.tables) \in Nat
  BY <1>2, FS_CardinalityType
<1> DEFINE t == pg \div NPT
<1> HIDE DEF r, t
<1>4. /\ IsFiniteSet(s.mapped \cup {pg})
      /\ Cardinality(s.mapped \cup {pg}) = Cardinality(s.mapped) + 1
  BY <1>2, FS_AddElement
<1>5. /\ IsFiniteSet(s.tables \cup {t})
      /\ Cardinality(s.tables \cup {t}) =
           IF t \in s.tables THEN Cardinality(s.tables) ELSE Cardinality(s.tables) + 1
  BY <1>2, FS_AddElement
<1>6. r.tables = s.tables \cup {t}
  BY <1>1 DEF t
<1>7. Costs(s, pg) = IF t \in s.tables THEN 1 ELSE 2
  BY DEF Costs, t
<1>8. Finite(r)
  BY <1>1, <1>4, <1>5, <1>6 DEF Finite
<1>9. Used(r) = Used(s) + Costs(s, pg)
  <2>1. Cardinality(r.mapped) = Cardinality(s.mapped) + 1
    BY <1>1, <1>4
  <2>2. Cardinality(r.tables) = IF t \in s.tables THEN Cardinality(s.tables) ELSE Cardinality(s.tables) + 1
    BY <1>5, <1>6
  <2>. QED BY <1>1, <1>3, <1>7, <2>1, <2>2 DEF Used
<1>. QED BY <1>8, <1>9 DEF r

\* deallocuvm() gives back the pages it unmaps, and no page table.
LEMMA DeallocFrees ==
  ASSUME NEW s \in Space, Finite(s), NEW newsz, NEW oldsz
  PROVE  /\ Finite(Dealloc(s, newsz, oldsz))
         /\ Used(Dealloc(s, newsz, oldsz)) = Used(s) - Cardinality(Between(s, newsz, oldsz))
         /\ Cardinality(Between(s, newsz, oldsz)) \in Nat
<1> DEFINE r == Dealloc(s, newsz, oldsz)
           B == Between(s, newsz, oldsz)
<1>1. r.dir = s.dir /\ r.mapped = s.mapped \ B /\ r.tables = s.tables
  BY DEF Dealloc, Unmap, Space
<1>2. B \subseteq s.mapped
  BY DEF Between
<1>3. IsFiniteSet(s.mapped) /\ IsFiniteSet(s.tables)
  BY DEF Finite
<1> HIDE DEF r, B
<1>4. IsFiniteSet(B) /\ IsFiniteSet(s.mapped \ B)
  BY <1>2, <1>3, FS_Subset
<1>5. /\ Cardinality(s.mapped) \in Nat /\ Cardinality(s.tables) \in Nat
      /\ Cardinality(B) \in Nat /\ Cardinality(s.mapped \ B) \in Nat
  BY <1>3, <1>4, FS_CardinalityType
<1>6. Cardinality(s.mapped \ B) = Cardinality(s.mapped) - Cardinality(B)
  <2>1. s.mapped \cap B = B
    BY <1>2
  <2>. QED BY <1>3, <1>4, <2>1, FS_Difference
<1>7. Used(r) = Used(s) - Cardinality(B)
  BY <1>1, <1>5, <1>6 DEF Used
<1>. QED BY <1>1, <1>3, <1>4, <1>5, <1>7 DEF Finite, r, B

\* What all address spaces take, as the sum that the lemmas of SumProofs are about.
LEMMA TotalIsSum ==
  ASSUME NEW v, NEW n
  PROVE  Total(v, n) = SumFunctionOnSet([p \in Procs |-> Used(v[p]) + Used(n[p])], Procs)
BY DEF Total, FoldFunction, SumFunctionOnSet

\* A call that changes the spaces of one process changes the total by as much.
LEMMA TotalUpdate ==
  ASSUME NEW v, NEW n, NEW v2, NEW n2, NEW p \in Procs,
         \A q \in Procs : Finite(v[q]) /\ Finite(n[q]) /\ Finite(v2[q]) /\ Finite(n2[q]),
         \A q \in Procs \ {p} : v2[q] = v[q] /\ n2[q] = n[q]
  PROVE  /\ Total(v, n) \in Int
         /\ Total(v2, n2) = Total(v, n) - (Used(v[p]) + Used(n[p])) + (Used(v2[p]) + Used(n2[p]))
<1> DEFINE f == [q \in Procs |-> Used(v[q]) + Used(n[q])]
           g == [q \in Procs |-> Used(v2[q]) + Used(n2[q])]
<1>1. \A q \in Procs : /\ Used(v[q]) \in Nat /\ Used(n[q]) \in Nat
                       /\ Used(v2[q]) \in Nat /\ Used(n2[q]) \in Nat
  BY UsedIsNat
<1>2. \A q \in Procs : f[q] \in Int /\ g[q] \in Int
  BY <1>1
<1>3. \A q \in Procs \ {p} : g[q] = f[q]
  OBVIOUS
<1>4. f[p] = Used(v[p]) + Used(n[p]) /\ g[p] = Used(v2[p]) + Used(n2[p])
  OBVIOUS
<1>5. IsFiniteSet(Procs)
  BY VmAssumption
<1> HIDE DEF f, g
<1>6. SumFunctionOnSet(g, Procs) = SumFunctionOnSet(f, Procs) - f[p] + g[p]
  BY <1>2, <1>3, <1>5, SumUpdate
<1>7. SumFunctionOnSet(f, Procs) \in Int
  BY <1>2, <1>5, SumIsInt
<1>. QED BY <1>4, <1>6, <1>7, TotalIsSum DEF f, g

\* An address space within user memory, as PagesConserved and TypeOK need it.
Room(s) == s.sz < KERNBASE /\ s.tables \subseteq Tables /\ s.mapped \subseteq Pages

\* No page is lost, fork() and exec() build their space in "new", and exec() has
\* mapped no page above the one it is at.
FrameInv ==
  /\ free \in Nat
  /\ tlb.page \in Pages
  /\ PagesConserved
  /\ \A p \in Procs :
       /\ Room(vm[p]) /\ Room(new[p])
       /\ op[p].a <= KERNBASE /\ op[p].end < KERNBASE
       /\ op[p].pc \in {"idle", "grow"} => new[p] = NoSpace
       /\ op[p].pc \in {"text", "stack"} => Bounded(new[p].mapped, PageOf(op[p].a))

\* User memory ends where a page does.
LEMMA LastPage ==
  /\ KERNBASE \div PG \in Nat /\ KERNBASE = (KERNBASE \div PG) * PG /\ KERNBASE \div PG > 0
  /\ NPages(KERNBASE) = KERNBASE \div PG
<1> DEFINE k == KERNBASE \div PG
<1>1. KERNBASE \in Nat /\ KERNBASE > 0 /\ PG \in Nat /\ PG > 0 /\ KERNBASE % PG = 0
  BY VmAssumption
<1>2. k \in Int /\ KERNBASE = k * PG
  BY <1>1
<1> HIDE DEF k
<1>3. IsStart(KERNBASE)
  BY <1>1, <1>2, Quotient DEF IsStart
<1>4. PageOf(KERNBASE) = k /\ k \in Nat
  BY <1>2, <1>3, Quotient, NextStart
<1>5. NPages(KERNBASE) = k
  BY <1>1, <1>3, <1>4, StartBelow
<1>6. k > 0
  BY <1>1, <1>2, <1>4
<1>. QED BY <1>2, <1>4, <1>5, <1>6 DEF k

\* The loops of vm.c stay within user memory.
LEMMA LoopInRange ==
  ASSUME NEW a, IsStart(a), NEW b \in Nat, a < b, b <= KERNBASE
  PROVE  PageOf(a) \in Pages /\ a + PG <= KERNBASE
<1> DEFINE k == KERNBASE \div PG
<1>1. k \in Nat /\ KERNBASE = k * PG /\ NPages(KERNBASE) = k /\ KERNBASE \in Nat
  BY LastPage, VmAssumption
<1>2. a \in Nat /\ a = PageOf(a) * PG /\ PageOf(a) \in Nat /\ PG \in Nat /\ PG > 0
  BY NextStart, PgIsPositive DEF IsStart
<1>3. a < KERNBASE
  BY <1>1, <1>2
<1>4. PageOf(a) < k
  BY <1>1, <1>3, StartBelow
<1>5. PageOf(a) \in 0..(k - 1)
  BY <1>1, <1>2, <1>4
<1>6. PageOf(a) * PG + PG <= k * PG
  BY <1>1, <1>2, <1>4, Multiples
<1>. QED BY <1>1, <1>2, <1>5, <1>6 DEF Pages

\* A size below the end of user memory can be rounded up.
LEMMA RoundUpInRange ==
  ASSUME NEW a \in Nat, a <= KERNBASE
  PROVE  RoundUp(a) <= KERNBASE /\ NPages(a) <= KERNBASE \div PG
<1>1. KERNBASE \div PG \in Nat /\ KERNBASE = (KERNBASE \div PG) * PG /\ KERNBASE \in Nat
      /\ NPages(KERNBASE) = KERNBASE \div PG
  BY LastPage, VmAssumption
<1>2. NPages(a) \in Nat /\ RoundUp(a) = NPages(a) * PG /\ NPages(a) <= KERNBASE \div PG
  BY <1>1, BelowIsPages, MorePages
<1>3. NPages(a) * PG <= (KERNBASE \div PG) * PG
  BY <1>1, <1>2, Multiples, PgIsPositive
<1>. QED BY <1>1, <1>2, <1>3

\* User memory has finitely many pages, and finitely many page tables map it.
LEMMA PagesAreFinite == IsFiniteSet(Pages) /\ IsFiniteSet(Tables)
<1>1. IsFiniteSet(Pages)
  <2>1. KERNBASE \div PG - 1 \in Int
    BY LastPage
  <2>. QED BY <2>1, FS_Interval DEF Pages
<1> DEFINE table == [pg \in Pages |-> pg \div NPT]
<1>2. table \in Surjection(Pages, Tables)
  BY DEF Surjection, Tables
<1>. QED BY <1>1, <1>2, FS_Surjection

\* Such a space has finitely many pages.
LEMMA RoomIsFinite ==
  ASSUME NEW s, Room(s)
  PROVE  Finite(s)
BY PagesAreFinite, FS_Subset DEF Room, Finite

\* mappages() of a page of user memory.
LEMMA MapPageRoom ==
  ASSUME NEW s \in Space, Room(s), NEW pg \in Pages, NEW w \in BOOLEAN, NEW u \in BOOLEAN
  PROVE  Room(MapPage(s, pg, w, u))
<1>1. pg \div NPT \in Tables
  BY DEF Tables
<1>2. /\ MapPage(s, pg, w, u).sz = s.sz
      /\ MapPage(s, pg, w, u).mapped = s.mapped \cup {pg}
      /\ MapPage(s, pg, w, u).tables = s.tables \cup {pg \div NPT}
  BY DEF MapPage, Space
<1>. QED BY <1>1, <1>2 DEF Room

\* A process that is in no call, or grows, has nothing in "new".
LEMMA EmptyRoom == Room(NoSpace) /\ NoSpace.mapped = {}
BY LastPage, VmAssumption DEF Room, NoSpace

\* Each process has its space, and builds one, within user memory.
LEMMA AllFinite ==
  ASSUME FrameInv
  PROVE  \A p \in Procs : Finite(vm[p]) /\ Finite(new[p]) /\ Used(vm[p]) \in Nat /\ Used(new[p]) \in Nat
BY RoomIsFinite, UsedIsNat DEF FrameInv

\* A step of p that takes from the free list what its spaces gain, and gives back
\* what they lose, keeps the invariant.
LEMMA FrameStep ==
  ASSUME FrameInv, NEW p \in Procs,
         \A q \in Procs \ {p} : vm'[q] = vm[q] /\ new'[q] = new[q] /\ op'[q] = op[q],
         Room(vm'[p]), Room(new'[p]), op'[p].a <= KERNBASE, op'[p].end < KERNBASE,
         op'[p].pc \in {"idle", "grow"} => new'[p] = NoSpace,
         op'[p].pc \in {"text", "stack"} => Bounded(new'[p].mapped, PageOf(op'[p].a)),
         free' \in Nat, tlb'.page \in Pages,
         free' + Used(vm'[p]) + Used(new'[p]) = free + Used(vm[p]) + Used(new[p])
  PROVE  FrameInv'
<1>1. \A q \in Procs : Finite(vm[q]) /\ Finite(new[q]) /\ Used(vm[q]) \in Nat /\ Used(new[q]) \in Nat
  BY AllFinite
<1>2. \A q \in Procs : Room(vm'[q]) /\ Room(new'[q])
  BY DEF FrameInv
<1>3. \A q \in Procs : Finite(vm'[q]) /\ Finite(new'[q])
  BY <1>2, RoomIsFinite
<1>4. Used(vm'[p]) \in Nat /\ Used(new'[p]) \in Nat
  BY <1>3, UsedIsNat
<1>5. /\ Total(vm, new) \in Int
      /\ Total(vm', new') = Total(vm, new) - (Used(vm[p]) + Used(new[p]))
                              + (Used(vm'[p]) + Used(new'[p]))
  BY <1>1, <1>3, TotalUpdate
<1>6. NFrames = free + Total(vm, new) /\ free \in Nat
  BY DEF FrameInv, PagesConserved
<1>7. NFrames = free' + Total(vm', new')
  BY <1>1, <1>4, <1>5, <1>6
<1>8. PagesConserved'
  BY <1>7 DEF PagesConserved
<1>9. \A q \in Procs :
        /\ op'[q].a <= KERNBASE /\ op'[q].end < KERNBASE
        /\ op'[q].pc \in {"idle", "grow"} => new'[q] = NoSpace
        /\ op'[q].pc \in {"text", "stack"} => Bounded(new'[q].mapped, PageOf(op'[q].a))
  BY DEF FrameInv
<1>. QED BY <1>2, <1>8, <1>9 DEF FrameInv

\* A step that leaves the memory alone.
LEMMA FrameKept ==
  ASSUME IInv, FrameInv, NEW p \in Procs, vm' = vm, new' = new, op' = op, free' = free,
         tlb'.page \in Pages
  PROVE  FrameInv'
BY FrameStep, AllFinite DEF FrameInv

-----------------------------------------------------------------------------
(* The steps and the pages of memory *)

\* sbrk() adds a page that was not mapped.
LEMMA GrowPageConserves ==
  ASSUME IInv, FrameInv, NEW p \in Procs, GrowPage(p)
  PROVE  FrameInv'
<1> DEFINE pg == PageOf(op[p].a)
           s == MapPage(vm[p], pg, TRUE, TRUE)
<1>0. /\ op[p].pc = "grow" /\ op[p].a < op[p].end /\ free >= Costs(vm[p], pg)
      /\ vm' = [vm EXCEPT ![p] = s] /\ free' = free - Costs(vm[p], pg)
      /\ op' = [op EXCEPT ![p].a = @ + PG] /\ new' = new /\ tlb' = tlb
  BY DEF GrowPage, At, CanMap
<1>1. /\ CallInv(p) /\ vm[p] \in Space /\ op[p] \in Call /\ op[p].a \in Nat /\ op[p].end \in Nat
      /\ PG \in Nat
  BY Fields, PgIsPositive
<1>2. Room(vm[p]) /\ Room(new[p]) /\ op[p].end < KERNBASE /\ new[p] = NoSpace
  BY <1>0 DEF FrameInv
<1>3. IsStart(op[p].a) /\ Bounded(vm[p].mapped, pg)
  BY <1>0, <1>1 DEF CallInv, GrowInv
<1>4. pg \in Pages /\ op[p].a + PG <= KERNBASE /\ pg \in Nat
  BY <1>0, <1>1, <1>2, <1>3, LoopInRange, NextStart, VmAssumption
<1>5. Room(s)
  BY <1>1, <1>2, <1>4, MapPageRoom
<1>6. pg \notin vm[p].mapped
  BY <1>3, <1>4 DEF Bounded
<1>7. Used(s) = Used(vm[p]) + Costs(vm[p], pg)
  BY <1>1, <1>2, <1>6, RoomIsFinite, MapPageUses
<1>8. Costs(vm[p], pg) \in Nat
  BY DEF Costs
<1> HIDE DEF s, pg
<1>9. /\ vm'[p] = s /\ op'[p] = [op[p] EXCEPT !.a = @ + PG]
      /\ \A q \in Procs \ {p} : vm'[q] = vm[q] /\ new'[q] = new[q] /\ op'[q] = op[q]
  BY <1>0 DEF IInv, Shape
<1>10. op'[p].pc = "grow" /\ op'[p].a = op[p].a + PG /\ op'[p].end = op[p].end
  BY <1>0, <1>1, <1>9 DEF Call
<1>11. free \in Nat /\ Used(vm[p]) \in Nat /\ Used(new[p]) \in Nat /\ tlb.page \in Pages
  BY AllFinite DEF FrameInv
<1>12. /\ free' \in Nat
       /\ free' + Used(vm'[p]) + Used(new'[p]) = free + Used(vm[p]) + Used(new[p])
  BY <1>0, <1>7, <1>8, <1>9, <1>11
<1>. QED BY <1>0, <1>2, <1>4, <1>5, <1>9, <1>10, <1>11, <1>12, FrameStep

\* deallocuvm() leaves a space within user memory.
LEMMA DeallocRoom ==
  ASSUME NEW s \in Space, Room(s), NEW newsz, NEW oldsz
  PROVE  /\ Room(Dealloc(s, newsz, oldsz))
         /\ Used(Dealloc(s, newsz, oldsz)) = Used(s) - Cardinality(Between(s, newsz, oldsz))
         /\ Cardinality(Between(s, newsz, oldsz)) \in Nat
<1>1. /\ Dealloc(s, newsz, oldsz).sz = s.sz
      /\ Dealloc(s, newsz, oldsz).mapped \subseteq s.mapped
      /\ Dealloc(s, newsz, oldsz).tables = s.tables
  BY DEF Dealloc, Unmap, Space
<1>. QED BY <1>1, RoomIsFinite, DeallocFrees DEF Room

\* allocuvm() that runs out of memory gives back what it had.
LEMMA GrowFailsConserves ==
  ASSUME IInv, FrameInv, NEW p \in Procs, GrowFails(p)
  PROVE  FrameInv'
<1> DEFINE s == Dealloc(vm[p], vm[p].sz, op[p].end)
           gone == Cardinality(Between(vm[p], vm[p].sz, op[p].end))
<1>0. /\ op[p].pc = "grow" /\ vm' = [vm EXCEPT ![p] = s] /\ free' = free + gone
      /\ op' = [op EXCEPT ![p] = Idle] /\ new' = new /\ tlb' = tlb
  BY DEF GrowFails, At
<1>1. vm[p] \in Space /\ Room(vm[p]) /\ Room(new[p]) /\ new[p] = NoSpace
  BY <1>0, Fields DEF FrameInv
<1>2. Room(s) /\ Used(s) = Used(vm[p]) - gone /\ gone \in Nat
  BY <1>1, DeallocRoom
<1> HIDE DEF s, gone
<1>3. /\ vm'[p] = s /\ op'[p] = Idle
      /\ \A q \in Procs \ {p} : vm'[q] = vm[q] /\ new'[q] = new[q] /\ op'[q] = op[q]
  BY <1>0 DEF IInv, Shape
<1>4. Idle.pc = "idle" /\ Idle.a <= KERNBASE /\ Idle.end < KERNBASE
  BY VmAssumption DEF Idle
<1>5. free \in Nat /\ Used(vm[p]) \in Nat /\ Used(new[p]) \in Nat /\ tlb.page \in Pages
  BY AllFinite DEF FrameInv
<1>6. /\ free' \in Nat
      /\ free' + Used(vm'[p]) + Used(new'[p]) = free + Used(vm[p]) + Used(new[p])
  BY <1>0, <1>2, <1>3, <1>5
<1>. QED BY <1>0, <1>1, <1>2, <1>3, <1>4, <1>5, <1>6, FrameStep

\* A space with another size or other rights takes the same pages.
LEMMA SameUse ==
  ASSUME NEW s, NEW r, r.dir = s.dir, r.tables = s.tables, r.mapped = s.mapped
  PROVE  Used(r) = Used(s) /\ (Room(s) /\ r.sz < KERNBASE => Room(r))
BY DEF Used, Room

\* growproc() sets the size once the pages are there.
LEMMA GrowDoneConserves ==
  ASSUME IInv, FrameInv, NEW p \in Procs, GrowDone(p)
  PROVE  FrameInv'
<1>0. /\ op[p].pc = "grow" /\ vm' = [vm EXCEPT ![p].sz = op[p].end] /\ free' = free
      /\ op' = [op EXCEPT ![p] = Idle] /\ new' = new /\ tlb' = NoTlb
  BY DEF GrowDone, At, Reload
<1>1. /\ vm[p] \in Space /\ Room(vm[p]) /\ Room(new[p]) /\ new[p] = NoSpace
      /\ op[p].end < KERNBASE
  BY <1>0, Fields DEF FrameInv
<1>2. /\ vm'[p] = [vm[p] EXCEPT !.sz = op[p].end] /\ op'[p] = Idle
      /\ \A q \in Procs \ {p} : vm'[q] = vm[q] /\ new'[q] = new[q] /\ op'[q] = op[q]
  BY <1>0 DEF IInv, Shape
<1>3. /\ vm'[p].dir = vm[p].dir /\ vm'[p].tables = vm[p].tables
      /\ vm'[p].mapped = vm[p].mapped /\ vm'[p].sz = op[p].end
  BY <1>1, <1>2 DEF Space
<1>4. Room(vm'[p]) /\ Used(vm'[p]) = Used(vm[p])
  BY <1>1, <1>3, SameUse
<1>5. /\ Idle.pc = "idle" /\ Idle.a <= KERNBASE /\ Idle.end < KERNBASE
      /\ NoTlb.page \in Pages
  BY VmAssumption, LastPage DEF Idle, NoTlb, Pages
<1>6. free \in Nat
  BY DEF FrameInv
<1>7. free' + Used(vm'[p]) + Used(new'[p]) = free + Used(vm[p]) + Used(new[p])
  BY <1>0, <1>4
<1>. QED BY <1>0, <1>1, <1>2, <1>4, <1>5, <1>6, <1>7, FrameStep

\* A larger size is below the end of user memory: the sum does not wrap around.
LEMMA SumFits ==
  ASSUME NEW sz \in Nat, sz < KERNBASE, NEW n \in Grows, n > 0, (sz + n) % UINT < KERNBASE
  PROVE  sz + n < KERNBASE /\ sz + n \in Nat
<1>1. KERNBASE \in Nat /\ n \in Nat /\ n < KERNBASE
  BY VmAssumption
<1>2. sz + n < UINT /\ sz + n \in Nat
  BY <1>1 DEF UINT
<1>3. (sz + n) % UINT = sz + n
  BY <1>2, <1>1 DEF UINT
<1>. QED BY <1>2, <1>3

\* growproc() finds the sum within user memory.
LEMMA GrowConserves ==
  ASSUME IInv, FrameInv, NEW p \in Procs, NEW n \in Grows, Grow(p, n)
  PROVE  FrameInv'
<1> DEFINE call == [Idle EXCEPT !.pc = "grow", !.a = RoundUp(vm[p].sz), !.end = vm[p].sz + n]
<1>0. /\ op[p].pc = "idle" /\ n > 0 /\ (vm[p].sz + n) % UINT < KERNBASE
      /\ vm' = vm /\ free' = free /\ op' = [op EXCEPT ![p] = call] /\ new' = new /\ tlb' = tlb
  BY DEF Grow, Runs, At
<1>1. /\ vm[p].sz \in Nat /\ Room(vm[p]) /\ Room(new[p]) /\ new[p] = NoSpace
      /\ vm[p].sz < KERNBASE /\ KERNBASE \in Nat
  BY <1>0, Fields, VmAssumption DEF FrameInv, Room
<1>2. vm[p].sz + n < KERNBASE
  BY <1>0, <1>1, SumFits
<1>3. RoundUp(vm[p].sz) <= KERNBASE
  BY <1>1, RoundUpInRange
<1>4. call.pc = "grow" /\ call.a = RoundUp(vm[p].sz) /\ call.end = vm[p].sz + n
  BY DEF Idle
<1> HIDE DEF call
<1>5. /\ op'[p] = call
      /\ \A q \in Procs \ {p} : vm'[q] = vm[q] /\ new'[q] = new[q] /\ op'[q] = op[q]
  BY <1>0 DEF IInv, Shape
<1>6. free \in Nat /\ tlb.page \in Pages
  BY DEF FrameInv
<1>. QED BY <1>0, <1>1, <1>2, <1>3, <1>4, <1>5, <1>6, FrameStep

\* deallocuvm() gives back the pages above the new size.
LEMMA ShrinkConserves ==
  ASSUME IInv, FrameInv, NEW p \in Procs, NEW n \in Int, Shrink(p, n)
  PROVE  FrameInv'
<1> DEFINE newsz == (vm[p].sz + n) % UINT
           r == Dealloc(vm[p], newsz, vm[p].sz)
           s == [r EXCEPT !.sz = IF newsz = 0 THEN @ ELSE newsz]
           gone == Cardinality(Between(vm[p], newsz, vm[p].sz))
<1>0. /\ op[p].pc = "idle" /\ newsz < vm[p].sz
      /\ vm' = [vm EXCEPT ![p] = s] /\ free' = free + gone
      /\ op' = op /\ new' = new /\ (tlb' = tlb \/ tlb' = NoTlb)
  BY DEF Shrink, Runs, At, Reload
<1>1. /\ vm[p] \in Space /\ Room(vm[p]) /\ Room(new[p]) /\ new[p] = NoSpace
      /\ vm[p].sz \in Nat /\ op[p].a <= KERNBASE /\ op[p].end < KERNBASE
  BY <1>0, Fields DEF FrameInv
<1>2. newsz \in Int
  <2>1. UINT \in Nat /\ UINT > 0
    BY VmAssumption DEF UINT
  <2>. QED BY <1>1, <2>1
<1> HIDE DEF newsz
<1>3. Room(r) /\ Used(r) = Used(vm[p]) - gone /\ gone \in Nat
  BY <1>1, DeallocRoom
<1>4. /\ r.dir = vm[p].dir /\ r.sz = vm[p].sz
      /\ s = [r EXCEPT !.sz = IF newsz = 0 THEN r.sz ELSE newsz] /\ s.dir = r.dir
      /\ s.tables = r.tables /\ s.mapped = r.mapped
      /\ s.sz = IF newsz = 0 THEN r.sz ELSE newsz
  BY <1>1 DEF Dealloc, Unmap, Space
<1> HIDE DEF s, r, gone
<1>5. s.sz < KERNBASE
  BY <1>0, <1>1, <1>2, <1>3, <1>4, VmAssumption DEF Room
<1>6. Room(s) /\ Used(s) = Used(r)
  BY <1>3, <1>4, <1>5, SameUse
<1>7. /\ vm'[p] = s /\ op'[p] = op[p]
      /\ \A q \in Procs \ {p} : vm'[q] = vm[q] /\ new'[q] = new[q] /\ op'[q] = op[q]
  BY <1>0 DEF IInv, Shape
<1>8. free \in Nat /\ Used(vm[p]) \in Nat /\ Used(new[p]) \in Nat /\ tlb.page \in Pages
  BY AllFinite DEF FrameInv
<1>9. tlb'.page \in Pages
  <2>1. NoTlb.page \in Pages
    BY LastPage DEF NoTlb, Pages
  <2>. QED BY <1>0, <1>8, <2>1
<1>10. /\ free' \in Nat
       /\ free' + Used(vm'[p]) + Used(new'[p]) = free + Used(vm[p]) + Used(new[p])
  BY <1>0, <1>3, <1>6, <1>7, <1>8
<1>. QED BY <1>0, <1>1, <1>6, <1>7, <1>9, <1>10, FrameStep


\* fork() and exec() take a page for the page directory.
LEMMA NewDirectory ==
  ASSUME NEW d, d # 0
  PROVE  LET s == [NoSpace EXCEPT !.dir = d] IN
         Room(s) /\ Used(s) = 1 /\ s.mapped = {} /\ s.dir = d /\ s.tables = {}
<1> DEFINE s == [NoSpace EXCEPT !.dir = d]
<1>1. s.dir = d /\ s.sz = 0 /\ s.tables = {} /\ s.mapped = {}
  BY DEF NoSpace
<1> HIDE DEF s
<1>2. Room(s)
  BY <1>1, VmAssumption DEF Room
<1>3. Used(s) = 1
  BY <1>1, FS_EmptySet DEF Used
<1>. QED BY <1>1, <1>2, <1>3 DEF s

\* The first address of a loop is within user memory.
LEMMA FirstInRange == PG <= KERNBASE
<1>1. KERNBASE \div PG \in Nat /\ KERNBASE = (KERNBASE \div PG) * PG /\ KERNBASE \div PG > 0
  BY LastPage
<1>2. 0 * PG + PG <= (KERNBASE \div PG) * PG
  BY <1>1, Multiples, PgIsPositive
<1>. QED BY <1>1, <1>2, PgIsPositive

\* fork() begins with an empty space.
LEMMA ForkConserves ==
  ASSUME IInv, FrameInv, NEW p \in Procs, NEW q \in Procs, Fork(p, q)
  PROVE  FrameInv'
<1> DEFINE s == [NoSpace EXCEPT !.dir = 1]
           call == [pc |-> "fork", a |-> PG, end |-> vm[p].sz, child |-> q]
<1>0. /\ op[p].pc = "idle" /\ free > 0 /\ free' = free - 1
      /\ vm' = vm /\ new' = [new EXCEPT ![p] = s] /\ op' = [op EXCEPT ![p] = call] /\ tlb' = tlb
  BY DEF Fork, Runs, At
<1>1. Room(s) /\ Used(s) = 1
  BY NewDirectory
<1>2. call.pc = "fork" /\ call.a = PG /\ call.end = vm[p].sz
  OBVIOUS
<1> HIDE DEF s, call
<1>3. /\ Room(vm[p]) /\ new[p] = NoSpace /\ vm[p].sz < KERNBASE /\ free \in Nat
      /\ tlb.page \in Pages
  BY <1>0 DEF FrameInv, Room
<1>4. /\ vm'[p] = vm[p] /\ new'[p] = s /\ op'[p] = call
      /\ \A x \in Procs \ {p} : vm'[x] = vm[x] /\ new'[x] = new[x] /\ op'[x] = op[x]
  BY <1>0 DEF IInv, Shape
<1>5. Used(vm[p]) \in Nat /\ Used(new[p]) = 0
  BY <1>3, AllFinite, NoSpaceUsesNone
<1>6. /\ free' \in Nat
      /\ free' + Used(vm'[p]) + Used(new'[p]) = free + Used(vm[p]) + Used(new[p])
  BY <1>0, <1>1, <1>3, <1>4, <1>5
<1>. QED BY <1>0, <1>1, <1>2, <1>3, <1>4, <1>6, FirstInRange, FrameStep

\* A page that fork() or exec() adds to the space it builds.
LEMMA NewPageConserves ==
  ASSUME IInv, FrameInv, NEW p \in Procs, op[p].pc \in {"fork", "text", "stack"},
         NEW pg \in Pages, pg \notin new[p].mapped, pg = PageOf(op[p].a),
         NEW w \in BOOLEAN, NEW u \in BOOLEAN, free >= Costs(new[p], pg),
         op[p].a + PG <= KERNBASE,
         new' = [new EXCEPT ![p] = MapPage(@, pg, w, u)], free' = free - Costs(new[p], pg),
         op' = [op EXCEPT ![p].a = @ + PG], vm' = vm, tlb' = tlb
  PROVE  FrameInv'
<1> DEFINE s == MapPage(new[p], pg, w, u)
<1>1. /\ new[p] \in Space /\ op[p] \in Call /\ op[p].a \in Nat /\ PG \in Nat
      /\ Room(vm[p]) /\ Room(new[p]) /\ op[p].end < KERNBASE
  BY Fields, PgIsPositive DEF FrameInv
<1>2. Room(s)
  BY <1>1, MapPageRoom
<1>3. Used(s) = Used(new[p]) + Costs(new[p], pg)
  BY <1>1, RoomIsFinite, MapPageUses
<1>4. s.mapped = new[p].mapped \cup {pg}
  BY <1>1 DEF MapPage, Space
<1>5. Costs(new[p], pg) \in Nat
  BY DEF Costs
<1> HIDE DEF s
<1>6. /\ vm'[p] = vm[p] /\ new'[p] = s /\ op'[p] = [op[p] EXCEPT !.a = @ + PG]
      /\ \A x \in Procs \ {p} : vm'[x] = vm[x] /\ new'[x] = new[x] /\ op'[x] = op[x]
  BY DEF IInv, Shape, s
<1>7. op'[p].pc = op[p].pc /\ op'[p].a = op[p].a + PG /\ op'[p].end = op[p].end
  BY <1>1, <1>6 DEF Call
<1>8. free \in Nat /\ Used(vm[p]) \in Nat /\ Used(new[p]) \in Nat /\ tlb.page \in Pages
  BY AllFinite DEF FrameInv
<1>9. /\ free' \in Nat
      /\ free' + Used(vm'[p]) + Used(new'[p]) = free + Used(vm[p]) + Used(new[p])
  BY <1>3, <1>5, <1>6, <1>8
<1>10. ASSUME op[p].pc \in {"text", "stack"} PROVE Bounded(s.mapped, PageOf(op[p].a + PG))
  <2>1. IsStart(op[p].a) /\ pg >= 1
    BY <1>10, Fields DEF CallInv
  <2>2. PageOf(op[p].a + PG) = pg + 1 /\ pg \in Nat
    BY <2>1, NextStart
  <2>3. Bounded(new[p].mapped, pg) /\ new[p].mapped \subseteq Nat
    BY <1>10, Fields DEF FrameInv
  <2>. QED BY <1>4, <2>1, <2>2, <2>3 DEF Bounded
<1>. QED BY <1>1, <1>2, <1>6, <1>7, <1>8, <1>9, <1>10, FrameStep

\* copyuvm() copies a page.
LEMMA ForkPageConserves ==
  ASSUME IInv, FrameInv, NEW p \in Procs, ForkPage(p)
  PROVE  FrameInv'
<1> DEFINE pg == PageOf(op[p].a)
           w == pg \in vm[p].w
           u == pg \in vm[p].u
<1>0. /\ op[p].pc = "fork" /\ op[p].a < op[p].end /\ free >= Costs(new[p], pg)
      /\ new' = [new EXCEPT ![p] = MapPage(@, pg, w, u)] /\ free' = free - Costs(new[p], pg)
      /\ op' = [op EXCEPT ![p].a = @ + PG] /\ vm' = vm /\ tlb' = tlb
  BY DEF ForkPage, At, CanMap
<1>1. CallInv(p) /\ op[p].end \in Nat /\ op[p].end < KERNBASE
  BY Fields DEF FrameInv
<1>2. IsStart(op[p].a) /\ new[p].mapped = Part(vm[p].mapped, pg)
  BY <1>0, <1>1 DEF CallInv, ForkInv
<1>3. pg \in Pages /\ op[p].a + PG <= KERNBASE /\ pg \in Nat
  BY <1>0, <1>1, <1>2, LoopInRange, NextStart, VmAssumption
<1>4. pg \notin new[p].mapped
  BY <1>2, <1>3 DEF Part
<1>5. w \in BOOLEAN /\ u \in BOOLEAN
  OBVIOUS
<1> HIDE DEF w, u
<1>. QED BY <1>0, <1>3, <1>4, <1>5, NewPageConserves

\* allocuvm() adds a page to the image.
LEMMA ExecPageConserves ==
  ASSUME IInv, FrameInv, NEW p \in Procs, ExecPage(p)
  PROVE  FrameInv'
<1> DEFINE pg == PageOf(op[p].a)
<1>0. /\ op[p].pc \in {"text", "stack"} /\ op[p].a < op[p].end /\ free >= Costs(new[p], pg)
      /\ new' = [new EXCEPT ![p] = MapPage(@, pg, TRUE, TRUE)] /\ free' = free - Costs(new[p], pg)
      /\ op' = [op EXCEPT ![p].a = @ + PG] /\ vm' = vm /\ tlb' = tlb
  BY DEF ExecPage, At, CanMap
<1>1. CallInv(p) /\ op[p].end \in Nat /\ op[p].end < KERNBASE
  BY Fields DEF FrameInv
<1>2. IsStart(op[p].a) /\ Bounded(new[p].mapped, pg)
  BY <1>0, <1>1 DEF CallInv, FrameInv
<1>3. pg \in Pages /\ op[p].a + PG <= KERNBASE /\ pg \in Nat
  BY <1>0, <1>1, <1>2, LoopInRange, NextStart, VmAssumption
<1>4. pg \notin new[p].mapped
  BY <1>2, <1>3 DEF Bounded
<1>. QED BY <1>0, <1>3, <1>4, NewPageConserves

\* A fork() or exec() that fails gives back all it took.
LEMMA AbandonConserves ==
  ASSUME IInv, FrameInv, NEW p \in Procs, Abandon(p)
  PROVE  FrameInv'
<1>0. /\ free' = free + Used(new[p]) /\ new' = [new EXCEPT ![p] = NoSpace]
      /\ op' = [op EXCEPT ![p] = Idle] /\ vm' = vm /\ tlb' = tlb
  BY DEF Abandon
<1>1. Room(vm[p]) /\ tlb.page \in Pages /\ free \in Nat
  BY DEF FrameInv
<1>2. Idle.pc = "idle" /\ Idle.a <= KERNBASE /\ Idle.end < KERNBASE
  BY VmAssumption DEF Idle
<1>3. /\ vm'[p] = vm[p] /\ new'[p] = NoSpace /\ op'[p] = Idle
      /\ \A x \in Procs \ {p} : vm'[x] = vm[x] /\ new'[x] = new[x] /\ op'[x] = op[x]
  BY <1>0 DEF IInv, Shape
<1>4. /\ free' \in Nat
      /\ free' + Used(vm'[p]) + Used(new'[p]) = free + Used(vm[p]) + Used(new[p])
  BY <1>0, <1>1, <1>3, AllFinite, NoSpaceUsesNone
<1>. QED BY <1>0, <1>1, <1>2, <1>3, <1>4, EmptyRoom, FrameStep

\* The child has what was built for it.
LEMMA ForkDoneConserves ==
  ASSUME IInv, FrameInv, NEW p \in Procs, ForkDone(p)
  PROVE  FrameInv'
<1>p. PICK c \in Procs : c = op[p].child
  BY Fields
<1> DEFINE s == [new[p] EXCEPT !.sz = vm[p].sz]
           mid == [vm EXCEPT ![c] = s]
<1>0. /\ op[p].pc = "fork" /\ vm' = mid
      /\ new' = [new EXCEPT ![p] = NoSpace] /\ op' = [op EXCEPT ![p] = Idle]
      /\ free' = free /\ tlb' = tlb /\ cur = p
  BY <1>p DEF ForkDone, At
<1>1. /\ vm[c] = NoSpace /\ c # p /\ new[p] \in Space /\ op[c].pc = "idle"
  BY <1>0, <1>p, Fields DEF IInv, LiveInv
<1>2. /\ \A q \in Procs : Room(vm[q]) /\ Room(new[q]) /\ op[q].a <= KERNBASE /\ op[q].end < KERNBASE
      /\ tlb.page \in Pages /\ free \in Nat /\ new[c] = NoSpace
  BY <1>1 DEF FrameInv
<1>3. /\ s.dir = new[p].dir /\ s.tables = new[p].tables /\ s.mapped = new[p].mapped
      /\ s.sz = vm[p].sz
  BY <1>1 DEF Space
<1>4. Room(s) /\ Used(s) = Used(new[p])
  BY <1>2, <1>3, SameUse DEF Room
<1> HIDE DEF s
<1>5. /\ mid[c] = s /\ mid[p] = vm[p] /\ \A q \in Procs \ {c} : mid[q] = vm[q]
      /\ new'[p] = NoSpace /\ \A q \in Procs \ {p} : new'[q] = new[q]
      /\ op'[p] = Idle /\ \A q \in Procs \ {p} : op'[q] = op[q]
  BY <1>0, <1>1 DEF IInv, Shape
<1> HIDE DEF mid
<1>6. /\ \A q \in Procs : Room(mid[q]) /\ Room(new'[q])
  BY <1>2, <1>4, <1>5, EmptyRoom
<1>7. /\ \A q \in Procs : Finite(vm[q]) /\ Finite(new[q]) /\ Finite(mid[q]) /\ Finite(new'[q])
      /\ \A q \in Procs : Used(vm[q]) \in Nat /\ Used(new[q]) \in Nat
  BY <1>6, RoomIsFinite, AllFinite
<1>8. /\ Total(vm, new) \in Int
      /\ Total(mid, new) = Total(vm, new) - (Used(vm[c]) + Used(new[c])) + (Used(mid[c]) + Used(new[c]))
  BY <1>5, <1>7, TotalUpdate
<1>9. Total(mid, new') = Total(mid, new) - (Used(mid[p]) + Used(new[p])) + (Used(mid[p]) + Used(new'[p]))
  BY <1>5, <1>7, TotalUpdate
<1>10. Total(mid, new') = Total(vm, new)
  BY <1>1, <1>4, <1>5, <1>7, <1>8, <1>9, NoSpaceUsesNone
<1>11. PagesConserved'
  <2>1. NFrames = free + Total(vm, new)
    BY DEF FrameInv, PagesConserved
  <2>2. NFrames = free' + Total(vm', new')
    BY <1>0, <1>10, <2>1
  <2>. QED BY <2>2 DEF PagesConserved
<1>12. Idle.pc = "idle" /\ Idle.a <= KERNBASE /\ Idle.end < KERNBASE
  BY VmAssumption DEF Idle
<1>13. \A q \in Procs :
         /\ op'[q].a <= KERNBASE /\ op'[q].end < KERNBASE
         /\ op'[q].pc \in {"idle", "grow"} => new'[q] = NoSpace
         /\ op'[q].pc \in {"text", "stack"} => Bounded(new'[q].mapped, PageOf(op'[q].a))
  BY <1>2, <1>5, <1>12 DEF FrameInv
<1>. QED BY <1>0, <1>2, <1>6, <1>11, <1>13 DEF FrameInv


\* exec() begins with an empty image.
LEMMA ExecConserves ==
  ASSUME IInv, FrameInv, NEW p \in Procs, NEW size \in Texts, Exec(p, size)
  PROVE  FrameInv'
<1> DEFINE d == 3 - vm[p].dir
           s == [NoSpace EXCEPT !.dir = d]
           call == [Idle EXCEPT !.pc = "text", !.a = PG, !.end = PG + size]
<1>0. /\ op[p].pc = "idle" /\ free > 0 /\ free' = free - 1 /\ PG + size < KERNBASE /\ cur = p
      /\ vm' = vm /\ new' = [new EXCEPT ![p] = s] /\ op' = [op EXCEPT ![p] = call] /\ tlb' = tlb
  BY DEF Exec, Runs, At, ExecStart
<1>1. d # 0
  <2>1. vm[p].dir \in 1..2
    BY <1>0, Fields
  <2>. QED BY <2>1
<1> HIDE DEF d
<1>2. Room(s) /\ Used(s) = 1 /\ s.mapped = {}
  BY <1>1, NewDirectory
<1>3. call.pc = "text" /\ call.a = PG /\ call.end = PG + size
  BY DEF Idle
<1> HIDE DEF s, call
<1>4. Room(vm[p]) /\ new[p] = NoSpace /\ free \in Nat /\ tlb.page \in Pages
  BY <1>0 DEF FrameInv
<1>5. /\ vm'[p] = vm[p] /\ new'[p] = s /\ op'[p] = call
      /\ \A x \in Procs \ {p} : vm'[x] = vm[x] /\ new'[x] = new[x] /\ op'[x] = op[x]
  BY <1>0 DEF IInv, Shape
<1>6. Used(vm[p]) \in Nat /\ Used(new[p]) = 0
  BY <1>4, AllFinite, NoSpaceUsesNone
<1>7. /\ free' \in Nat
      /\ free' + Used(vm'[p]) + Used(new'[p]) = free + Used(vm[p]) + Used(new[p])
  BY <1>0, <1>2, <1>4, <1>5, <1>6
<1>8. Bounded(new'[p].mapped, PageOf(op'[p].a))
  BY <1>2, <1>5 DEF Bounded
<1>. QED BY <1>0, <1>2, <1>3, <1>4, <1>5, <1>7, <1>8, FirstInRange, FrameStep

\* The stack comes above what was loaded.
LEMMA ExecStackConserves ==
  ASSUME IInv, FrameInv, NEW p \in Procs, ExecStack(p)
  PROVE  FrameInv'
<1> DEFINE sz == RoundUp(op[p].end)
           call == [op[p] EXCEPT !.pc = "stack", !.a = sz, !.end = sz + 2 * PG]
<1>0. /\ op[p].pc = "text" /\ sz + 2 * PG < KERNBASE
      /\ vm' = vm /\ new' = new /\ op' = [op EXCEPT ![p] = call] /\ tlb' = tlb /\ free' = free
  BY DEF ExecStack, At
<1>1. CallInv(p) /\ op[p] \in Call /\ op[p].end \in Nat /\ Room(vm[p]) /\ Room(new[p])
  BY Fields DEF FrameInv
<1>2. Bounded(new[p].mapped, PageOf(sz))
  BY <1>0, <1>1 DEF CallInv, ExecInv, NPages
<1>3. sz <= KERNBASE
  <2>1. sz \in Nat /\ PG \in Nat /\ KERNBASE \in Nat
    BY <1>1, BelowIsPages, PgIsPositive, VmAssumption
  <2> HIDE DEF sz
  <2>. QED BY <1>0, <2>1
<1> HIDE DEF sz
<1>4. call.pc = "stack" /\ call.a = sz /\ call.end = sz + 2 * PG
  BY <1>1 DEF Call
<1> HIDE DEF call
<1>5. /\ vm'[p] = vm[p] /\ new'[p] = new[p] /\ op'[p] = call
      /\ \A x \in Procs \ {p} : vm'[x] = vm[x] /\ new'[x] = new[x] /\ op'[x] = op[x]
  BY <1>0 DEF IInv, Shape
<1>6. tlb.page \in Pages /\ free \in Nat
  BY DEF FrameInv
<1>7. free' + Used(vm'[p]) + Used(new'[p]) = free + Used(vm[p]) + Used(new[p])
  BY <1>0, <1>5
<1>. QED BY <1>0, <1>1, <1>2, <1>3, <1>4, <1>5, <1>6, <1>7, FrameStep

\* freevm() gives back the old image once the new one is in place.
LEMMA ExecDoneConserves ==
  ASSUME IInv, FrameInv, NEW p \in Procs, ExecDone(p)
  PROVE  FrameInv'
<1> DEFINE sz == op[p].end
           s == [new[p] EXCEPT !.sz = sz, !.u = @ \ {PageOf(sz - 2 * PG)}]
<1>0. /\ vm' = [vm EXCEPT ![p] = s] /\ free' = free + Used(vm[p])
      /\ new' = [new EXCEPT ![p] = NoSpace] /\ op' = [op EXCEPT ![p] = Idle] /\ tlb' = NoTlb
  BY DEF ExecDone, Reload
<1>1. new[p] \in Space /\ Room(new[p]) /\ op[p].end < KERNBASE
  BY Fields DEF FrameInv
<1>2. s.dir = new[p].dir /\ s.tables = new[p].tables /\ s.mapped = new[p].mapped /\ s.sz = sz
  BY <1>1 DEF Space
<1> HIDE DEF s
<1>3. Room(s) /\ Used(s) = Used(new[p])
  BY <1>1, <1>2, SameUse
<1>4. /\ vm'[p] = s /\ new'[p] = NoSpace /\ op'[p] = Idle
      /\ \A x \in Procs \ {p} : vm'[x] = vm[x] /\ new'[x] = new[x] /\ op'[x] = op[x]
  BY <1>0 DEF IInv, Shape
<1>5. free \in Nat /\ Used(vm[p]) \in Nat /\ Used(new[p]) \in Nat
  BY AllFinite DEF FrameInv
<1>6. /\ free' \in Nat
      /\ free' + Used(vm'[p]) + Used(new'[p]) = free + Used(vm[p]) + Used(new[p])
  BY <1>0, <1>3, <1>4, <1>5, NoSpaceUsesNone
<1>7. /\ Idle.pc = "idle" /\ Idle.a <= KERNBASE /\ Idle.end < KERNBASE
      /\ NoTlb.page \in Pages
  BY VmAssumption, LastPage DEF Idle, NoTlb, Pages
<1>. QED BY <1>0, <1>3, <1>4, <1>6, <1>7, EmptyRoom, FrameStep

\* wait() frees what the process had.
LEMMA ExitConserves ==
  ASSUME IInv, FrameInv, NEW p \in Procs, Exit(p)
  PROVE  FrameInv'
<1>0. /\ op[p].pc = "idle" /\ vm' = [vm EXCEPT ![p] = NoSpace] /\ free' = free + Used(vm[p])
      /\ new' = new /\ op' = op /\ tlb' = NoTlb
  BY DEF Exit, At, Reload
<1>1. Room(new[p]) /\ new[p] = NoSpace /\ op[p].a <= KERNBASE /\ op[p].end < KERNBASE
  BY <1>0 DEF FrameInv
<1>2. /\ vm'[p] = NoSpace /\ new'[p] = new[p] /\ op'[p] = op[p]
      /\ \A x \in Procs \ {p} : vm'[x] = vm[x] /\ new'[x] = new[x] /\ op'[x] = op[x]
  BY <1>0 DEF IInv, Shape
<1>3. free \in Nat /\ Used(vm[p]) \in Nat /\ Used(new[p]) \in Nat
  BY AllFinite DEF FrameInv
<1>4. /\ free' \in Nat
      /\ free' + Used(vm'[p]) + Used(new'[p]) = free + Used(vm[p]) + Used(new[p])
  BY <1>0, <1>2, <1>3, NoSpaceUsesNone
<1>5. NoTlb.page \in Pages
  BY LastPage DEF NoTlb, Pages
<1>. QED BY <1>0, <1>1, <1>2, <1>4, <1>5, EmptyRoom, FrameStep

\* mprotect() changes rights, not pages.
LEMMA RightsConserve ==
  ASSUME IInv, FrameInv, NEW p \in Procs, NEW pages, NEW w \in BOOLEAN, Rights(p, pages, w),
         UNCHANGED <<free, new, op>>, tlb'.page \in Pages
  PROVE  FrameInv'
<1> DEFINE s == [vm[p] EXCEPT !.w = IF w THEN @ \cup pages ELSE @ \ pages]
<1>0. vm' = [vm EXCEPT ![p] = s] /\ new' = new /\ op' = op /\ free' = free
  BY DEF Rights
<1>1. vm[p] \in Space /\ Room(vm[p]) /\ vm[p].sz < KERNBASE
  BY Fields DEF FrameInv, Room
<1>2. s.dir = vm[p].dir /\ s.tables = vm[p].tables /\ s.mapped = vm[p].mapped /\ s.sz = vm[p].sz
  BY <1>1 DEF Space
<1> HIDE DEF s
<1>3. Room(s) /\ Used(s) = Used(vm[p])
  BY <1>1, <1>2, SameUse
<1>4. /\ vm'[p] = s /\ new'[p] = new[p] /\ op'[p] = op[p]
      /\ \A x \in Procs \ {p} : vm'[x] = vm[x] /\ new'[x] = new[x] /\ op'[x] = op[x]
  BY <1>0 DEF IInv, Shape
<1>5. /\ Room(new[p]) /\ op[p].a <= KERNBASE /\ op[p].end < KERNBASE /\ free \in Nat
      /\ op[p].pc \in {"idle", "grow"} => new[p] = NoSpace
      /\ op[p].pc \in {"text", "stack"} => Bounded(new[p].mapped, PageOf(op[p].a))
  BY DEF FrameInv
<1>6. free' + Used(vm'[p]) + Used(new'[p]) = free + Used(vm[p]) + Used(new[p])
  BY <1>0, <1>3, <1>4
<1>. QED BY <1>0, <1>3, <1>4, <1>5, <1>6, FrameStep

\* What the first program takes is not free.
LEMMA InitConserves == Init => FrameInv
<1>1. SUFFICES ASSUME Init PROVE FrameInv
  OBVIOUS
<1>2. PICK size \in Texts :
        /\ Image(size).sz < KERNBASE /\ Used(Image(size)) <= NFrames
        /\ vm = [p \in Procs |-> IF p = First THEN Image(size) ELSE NoSpace]
  BY <1>1 DEF Init
<1> DEFINE i == Image(size)
           pages == 1..(PageOf(i.sz) - 1)
           none == [p \in Procs |-> NoSpace]
<1>3. /\ i.sz = RoundUp(PG + size) + 2 * PG
      /\ i.mapped = pages /\ i.tables = {pg \div NPT : pg \in pages}
  BY DEF Image
<1>4. IsStart(i.sz) /\ i.sz \in Nat
  <2>1. PG + size \in Nat /\ PG \in Nat
    BY VmAssumption
  <2>2. IsStart(RoundUp(PG + size)) /\ RoundUp(PG + size) \in Nat
    BY <2>1, RoundUpStarts DEF IsStart
  <2>3. IsStart((RoundUp(PG + size) + PG) + PG)
    BY <2>2, NextStart
  <2>4. i.sz = (RoundUp(PG + size) + PG) + PG
    BY <1>3, <2>1, <2>2
  <2>. QED BY <2>3, <2>4 DEF IsStart
<1>5. PageOf(i.sz) \in Nat /\ PageOf(i.sz) <= KERNBASE \div PG
  <2>1. NPages(i.sz) = PageOf(i.sz) /\ PageOf(i.sz) \in Nat
    BY <1>4, StartBelow, NextStart
  <2>2. i.sz <= KERNBASE
    BY <1>2, <1>4, VmAssumption
  <2>. QED BY <1>4, <2>1, <2>2, RoundUpInRange
<1>6. pages \subseteq Pages
  BY <1>5, LastPage DEF Pages
<1>7. Room(i)
  BY <1>2, <1>3, <1>6 DEF Room, Tables
<1>8. Finite(i) /\ Used(i) \in Nat
  BY <1>7, RoomIsFinite, UsedIsNat
<1> HIDE DEF i, pages
<1>9. /\ new = none /\ op = [p \in Procs |-> Idle] /\ tlb = NoTlb
      /\ free = NFrames - Used(vm[First]) /\ First \in Procs /\ NFrames \in Nat
  BY <1>1, VmAssumption DEF Init
<1>10. vm[First] = i /\ \A p \in Procs \ {First} : vm[p] = NoSpace
  BY <1>2, <1>9 DEF i
<1>11. free \in Nat
  BY <1>2, <1>8, <1>9, <1>10 DEF i
<1>12. Total(none, none) = 0
  <2> DEFINE f == [p \in Procs |-> Used(none[p]) + Used(none[p])]
  <2>1. \A p \in Procs : f[p] = 0
    BY NoSpaceUsesNone
  <2> HIDE DEF f
  <2>2. IsFiniteSet(Procs) /\ IsFiniteSet({}) /\ {} \in SUBSET Procs
    BY VmAssumption, FS_EmptySet
  <2>3. SumFunctionOnSet(f, Procs) = SumFunctionOnSet(f, {})
    BY <2>1, <2>2, SumOfRest
  <2>4. SumFunctionOnSet(f, {}) = 0
    BY <2>2, SumEquation
  <2>5. Total(none, none) = SumFunctionOnSet(f, Procs)
    BY TotalIsSum DEF f
  <2>. QED BY <2>3, <2>4, <2>5
<1>13. /\ \A p \in Procs : none[p] = NoSpace
       /\ \A p \in Procs : Finite(vm[p]) /\ Finite(none[p])
  BY <1>8, <1>10, NoSpaceUsesNone
<1> HIDE DEF none
<1>14. Total(vm, none) = Total(none, none) - (Used(none[First]) + Used(none[First]))
                           + (Used(vm[First]) + Used(none[First]))
  BY <1>9, <1>10, <1>13, TotalUpdate
<1>15. Total(vm, none) = Used(i)
  BY <1>8, <1>9, <1>10, <1>12, <1>13, <1>14, NoSpaceUsesNone
<1>16. PagesConserved
  BY <1>8, <1>9, <1>10, <1>15 DEF PagesConserved
<1>17. /\ Idle.pc = "idle" /\ Idle.a <= KERNBASE /\ Idle.end < KERNBASE
       /\ NoTlb.page \in Pages
  BY VmAssumption, LastPage DEF Idle, NoTlb, Pages
<1>18. \A p \in Procs : Room(vm[p]) /\ Room(new[p]) /\ new[p] = NoSpace
  BY <1>7, <1>9, <1>10, <1>13, EmptyRoom
<1>. QED BY <1>9, <1>11, <1>16, <1>17, <1>18 DEF FrameInv


\* Every step keeps the pages.
LEMMA StepConserves == IInv /\ FrameInv /\ [Next]_vars => FrameInv'
<1>1. SUFFICES ASSUME IInv, FrameInv, [Next]_vars PROVE FrameInv'
  OBVIOUS
<1>t. tlb.page \in Pages /\ NoTlb.page \in Pages
  BY <1>1, LastPage DEF FrameInv, NoTlb, Pages
<1>2. CASE UNCHANGED vars
  BY <1>1, <1>2, <1>t, FrameKept, VmAssumption DEF vars
<1>3. CASE Next
  <2>1. PICK p \in Procs :
          \/ Switch(p) \/ Exit(p) \/ InGrow(p) \/ InFork(p) \/ InExec(p)
          \/ \E pg \in Pages : Touch(p, pg)
          \/ \E n \in Grows : Sbrk(p, n)
          \/ \E q \in Procs : Fork(p, q)
          \/ \E size \in Texts : Exec(p, size)
          \/ \E addr \in Addrs, len \in Lens, w \in BOOLEAN :
               Protect(p, addr, len, w) \/ ProtectFails(p, addr, len, w)
    BY <1>3 DEF Next
  <2>2. CASE Switch(p)
    BY <1>1, <1>t, <2>2, FrameKept DEF Switch, Reload
  <2>3. CASE Exit(p)
    BY <1>1, <2>3, ExitConserves
  <2>4. CASE InGrow(p)
    BY <1>1, <2>4, GrowPageConserves, GrowFailsConserves, GrowDoneConserves DEF InGrow
  <2>5. CASE InFork(p)
    BY <1>1, <2>5, ForkPageConserves, AbandonConserves, ForkDoneConserves DEF InFork, ForkFails
  <2>6. CASE InExec(p)
    BY <1>1, <2>6, ExecPageConserves, AbandonConserves, ExecStackConserves, ExecDoneConserves
       DEF InExec, ExecFails
  <2>7. CASE \E pg \in Pages : Touch(p, pg)
    <3>1. PICK pg \in Pages : Touch(p, pg)
      BY <2>7
    <3>2. vm' = vm /\ new' = new /\ op' = op /\ free' = free /\ tlb'.page \in Pages
      BY <3>1 DEF Touch
    <3>. QED BY <1>1, <3>2, FrameKept
  <2>8. CASE \E n \in Grows : Sbrk(p, n)
    <3>1. PICK n \in Grows : Sbrk(p, n)
      BY <2>8
    <3>2. CASE ShrinkWraps(p, n)
      BY <1>1, <1>t, <3>2, FrameKept DEF ShrinkWraps, Reload
    <3>3. n \in Int
      BY VmAssumption
    <3>. QED BY <1>1, <3>1, <3>2, <3>3, GrowConserves, ShrinkConserves DEF Sbrk
  <2>9. CASE \E q \in Procs : Fork(p, q)
    BY <1>1, <2>9, ForkConserves
  <2>10. CASE \E size \in Texts : Exec(p, size)
    BY <1>1, <2>10, ExecConserves
  <2>11. CASE \E addr \in Addrs, len \in Lens, w \in BOOLEAN :
                Protect(p, addr, len, w) \/ ProtectFails(p, addr, len, w)
    <3>1. PICK addr \in Addrs, len \in Lens, w \in BOOLEAN :
                 Protect(p, addr, len, w) \/ ProtectFails(p, addr, len, w)
      BY <2>11
    <3>2. /\ Rights(p, Reached(p, addr, len), w) /\ UNCHANGED <<free, new, op>>
          /\ tlb' = tlb \/ tlb' = NoTlb
      BY <3>1 DEF Protect, ProtectFails, Reload
    <3>3. tlb'.page \in Pages
      BY <1>t, <3>2
    <3>. QED BY <1>1, <3>2, <3>3, RightsConserve
  <2>. QED BY <2>1, <2>2, <2>3, <2>4, <2>5, <2>6, <2>7, <2>8, <2>9, <2>10, <2>11
<1>. QED BY <1>1, <1>2, <1>3

\* What the invariant says of an address space, as TypeOK states it.
LEMMA SpacesAreTyped ==
  ASSUME IInv, FrameInv, NEW p \in Procs, NEW s \in {vm[p], new[p]}
  PROVE  /\ s.dir \in 0..2 /\ s.sz \in 0..(KERNBASE - 1)
         /\ s.tables \subseteq Tables /\ s.mapped \subseteq Pages
         /\ s.w \subseteq s.mapped /\ s.u \subseteq s.mapped
<1>1. /\ SizeInv(p) /\ CallInv(p) /\ vm[p] \in Space /\ new[p] \in Space /\ op[p] \in Call
      /\ Room(s) /\ s \in Space
  BY Fields DEF FrameInv
<1>2. s.dir \in 0..2 /\ s.sz \in Nat /\ s.sz < KERNBASE /\ KERNBASE \in Nat
  BY <1>1, VmAssumption DEF Space, Room
<1>3. NoSpace.w = {} /\ NoSpace.u = {}
  BY DEF NoSpace
<1>4. vm[p].w \subseteq vm[p].mapped /\ vm[p].u \subseteq vm[p].mapped
  BY <1>1, <1>3 DEF SizeInv, IInv, LiveInv
<1>5. new[p].w \subseteq new[p].mapped /\ new[p].u \subseteq new[p].mapped
  <2>1. CASE op[p].pc = "fork"
    BY <1>1, <1>4, <2>1 DEF CallInv, ForkInv, Part
  <2>2. CASE op[p].pc \in {"text", "stack"}
    BY <1>1, <2>2 DEF CallInv, ExecInv
  <2>3. CASE op[p].pc \in {"idle", "grow"}
    BY <1>3, <2>3 DEF FrameInv
  <2>. QED BY <1>1, <2>1, <2>2, <2>3 DEF Call
<1>. QED BY <1>1, <1>2, <1>4, <1>5 DEF Room

\* The free list is never longer than memory.
LEMMA FreeIsBounded ==
  ASSUME FrameInv
  PROVE  free \in 0..NFrames
<1> DEFINE f == [p \in Procs |-> Used(vm[p]) + Used(new[p])]
<1>1. \A p \in Procs : f[p] \in Nat
  BY AllFinite
<1> HIDE DEF f
<1>2. IsFiniteSet(Procs) /\ NFrames \in Nat
  BY VmAssumption
<1>3. SumFunctionOnSet(f, Procs) \in Nat
  BY <1>1, <1>2, SumIsNat
<1>4. Total(vm, new) \in Nat
  BY <1>3, TotalIsSum DEF f
<1>. QED BY <1>2, <1>4 DEF FrameInv, PagesConserved

\* Every variable has its type.
LEMMA Typed == IInv /\ FrameInv => TypeOK
<1>1. SUFFICES ASSUME IInv, FrameInv PROVE TypeOK
  OBVIOUS
<1>2. free \in 0..NFrames /\ cur \in Procs /\ stale \in {"no", "rights", "freed"}
  BY <1>1, FreeIsBounded DEF IInv, Shape
<1>3. ASSUME NEW s \in Range(vm) \cup Range(new)
      PROVE  /\ s.dir \in 0..2 /\ s.sz \in 0..(KERNBASE - 1)
             /\ s.tables \subseteq Tables /\ s.mapped \subseteq Pages
             /\ s.w \subseteq s.mapped /\ s.u \subseteq s.mapped
  <2>1. PICK p \in Procs : s \in {vm[p], new[p]}
    BY <1>1 DEF IInv, Shape, Range
  <2>. QED BY <1>1, <2>1, SpacesAreTyped
<1>4. op \in [Procs -> [pc : {"idle", "grow", "fork", "text", "stack"}, a : 0..KERNBASE,
                        end : 0..(KERNBASE - 1), child : Procs]]
  <2>1. op \in [Procs -> Call] /\ KERNBASE \in Nat
    BY <1>1, VmAssumption DEF IInv, Shape
  <2>2. \A p \in Procs : op[p].a <= KERNBASE /\ op[p].end < KERNBASE
    BY <1>1 DEF FrameInv
  <2>. QED BY <2>1, <2>2 DEF Call
<1>5. tlb \in [page : Pages, dir : 0..2, w : BOOLEAN]
  BY <1>1 DEF IInv, Shape, FrameInv
<1>6. vm[cur] # NoSpace
  <2>1. NoSpace.dir = 0
    BY DEF NoSpace
  <2>. QED BY <1>1, <2>1 DEF IInv, LiveInv
<1>. QED BY <1>2, <1>3, <1>4, <1>5, <1>6 DEF TypeOK

-----------------------------------------------------------------------------
(* The theorems *)

\* The invariant holds in every state.
THEOREM Inductive == Spec => []IInv
BY InitIsSound, StepKeepsInv, PTL DEF Spec

\* A translation the CPU has cached is what the page table of the process that
\* runs says, for any number of processes and pages: growproc(), exec(), exit(),
\* mprotect() and the scheduler reload it whenever they take a page or a right
\* away, but for the two failures that "stale" records.
THEOREM TlbIsHonest == Spec => []TlbHonest
<1>1. IInv => TlbHonest
  BY DEF IInv, TlbInv, TlbHonest
<1>. QED BY <1>1, Inductive, PTL

\* What a process has between two calls is exactly the pages below its size, and
\* page 0 is never mapped, whichever calls failed half way: what copyuvm() takes
\* for granted, which panics at a page that is missing.
THEOREM SizesMatch == Spec => []MappedIsSize
<1>1. IInv => MappedIsSize
  <2>1. SUFFICES ASSUME IInv, NEW p \in Procs, vm[p] # NoSpace
                 PROVE  /\ 0 \notin vm[p].mapped
                        /\ op[p].pc = "idle" /\ 1 \in vm[p].mapped =>
                             vm[p].mapped = 1..(PageOf(RoundUp(vm[p].sz)) - 1)
    BY DEF MappedIsSize
  <2>2. vm[p].dir # 0 /\ SizeInv(p) /\ CallInv(p) /\ vm[p].sz \in Nat /\ vm[p].mapped \subseteq Nat
    BY <2>1, Fields DEF IInv, LiveInv
  <2>3. 0 \notin vm[p].mapped
    BY <2>2 DEF SizeInv, CallInv, GrowInv, Bounded
  <2>4. NPages(vm[p].sz) \in Nat /\ NPages(vm[p].sz) = PageOf(RoundUp(vm[p].sz))
    BY <2>2, NPagesType DEF NPages
  <2>5. ASSUME op[p].pc = "idle", 1 \in vm[p].mapped
        PROVE  vm[p].mapped = 1..(NPages(vm[p].sz) - 1)
    <3>1. Bounded(vm[p].mapped, NPages(vm[p].sz)) /\ Filled(vm[p].mapped, NPages(vm[p].sz))
      BY <2>2, <2>5 DEF SizeInv
    <3>2. vm[p].mapped \subseteq 1..(NPages(vm[p].sz) - 1)
      BY <2>2, <2>4, <3>1 DEF Bounded
    <3>3. 1..(NPages(vm[p].sz) - 1) \subseteq vm[p].mapped
      BY <2>4, <2>5, <3>1 DEF Filled
    <3>. QED BY <3>2, <3>3
  <2>. QED BY <2>3, <2>4, <2>5
<1>. QED BY <1>1, Inductive, PTL

\* The child of a fork() has the parent's size, its pages and their rights,
\* although copyuvm() is interrupted at every page and other processes run.
THEOREM ChildrenAreCopies == Spec => ChildIsCopy
<1> DEFINE Copy == \A p, q \in Procs : op[p].pc = "fork" /\ op[p].child = q /\ vm'[q] # vm[q] =>
                     /\ vm'[q].sz = vm[p].sz /\ vm'[q].mapped = vm[p].mapped
                     /\ vm'[q].w = vm[p].w /\ vm'[q].u = vm[p].u
<1>1. ASSUME IInv, Next PROVE Copy
  <2>1. SUFFICES ASSUME NEW p \in Procs, op[p].pc = "fork", vm'[op[p].child] # vm[op[p].child]
                 PROVE  /\ vm'[op[p].child].sz = vm[p].sz
                        /\ vm'[op[p].child].mapped = vm[p].mapped
                        /\ vm'[op[p].child].w = vm[p].w /\ vm'[op[p].child].u = vm[p].u
    OBVIOUS
  <2>2. PICK c \in Procs : c = op[p].child
    BY <1>1, Fields
  <2>3. vm[c].dir = 0 /\ c # cur /\ op[c].pc = "idle" /\ vm'[c] # vm[c]
    BY <1>1, <2>1, <2>2 DEF IInv, Shape, LiveInv
  <2>4. vm \in [Procs -> Space]
    BY <1>1 DEF IInv, Shape
  <2>5. PICK r \in Procs :
          \/ Switch(r) \/ Exit(r) \/ InGrow(r) \/ InFork(r) \/ InExec(r)
          \/ \E pg \in Pages : Touch(r, pg)
          \/ \E n \in Grows : Sbrk(r, n)
          \/ \E q \in Procs : Fork(r, q)
          \/ \E size \in Texts : Exec(r, size)
          \/ \E addr \in Addrs, len \in Lens, w \in BOOLEAN :
               Protect(r, addr, len, w) \/ ProtectFails(r, addr, len, w)
    BY <1>1 DEF Next
  <2>6. ~Switch(r) /\ ~Exit(r) /\ ~InGrow(r)
    <3>1. ~Switch(r) /\ ~Exit(r)
      BY <2>3, <2>4 DEF Switch, Exit, At
    <3>2. ~GrowPage(r)
      BY <2>3, <2>4 DEF GrowPage, At
    <3>3. ~GrowFails(r) /\ ~GrowDone(r)
      BY <2>3, <2>4 DEF GrowFails, GrowDone, At
    <3>. QED BY <3>1, <3>2, <3>3 DEF InGrow
  <2>7. ~InExec(r) /\ ~\E pg \in Pages : Touch(r, pg)
    BY <2>3, <2>4 DEF InExec, ExecPage, ExecFails, ExecStack, ExecDone, Abandon, At, Touch
  <2>8. ~\E n \in Grows : Sbrk(r, n)
    BY <2>3, <2>4 DEF Sbrk, Grow, Shrink, ShrinkWraps, Runs, At
  <2>9. (~\E q \in Procs : Fork(r, q)) /\ ~\E size \in Texts : Exec(r, size)
    BY <2>3 DEF Fork, Exec
  <2>10. ~\E addr \in Addrs, len \in Lens, w \in BOOLEAN :
            Protect(r, addr, len, w) \/ ProtectFails(r, addr, len, w)
    BY <2>3, <2>4 DEF Protect, ProtectFails, Rights, Runs, At
  <2>11. InFork(r)
    BY <2>5, <2>6, <2>7, <2>8, <2>9, <2>10
  <2>12. ForkDone(r)
    BY <2>3, <2>11 DEF InFork, ForkPage, ForkFails, Abandon
  <2>13. op[r].child = c /\ op[r].pc = "fork"
    BY <2>3, <2>4, <2>12 DEF ForkDone, At
  <2>14. r = p
    BY <1>1, <2>1, <2>2, <2>13 DEF IInv, LiveInv
  <2>. QED BY <1>1, <2>12, <2>14, ForkIsComplete
<1>2. IInv /\ [Next]_vars => [Copy]_vars
  BY <1>1
<1>. QED BY <1>2, Inductive, PTL DEF Spec, ChildIsCopy

\* No page of memory is lost or taken twice, whichever call runs out of memory
\* half way, for any number of pages and processes: what allocuvm(), copyuvm()
\* and exec() took before they failed goes back to the free list.
THEOREM FramesAreConserved == Spec => [](IInv /\ FrameInv)
BY InitIsSound, InitConserves, StepKeepsInv, StepConserves, PTL DEF Spec

\* All that the run checks of memory and page tables: the types, that no page is
\* lost, and that what is mapped is what the size says.
THEOREM MemoryIsSound == Spec => []VmInv
<1>1. IInv /\ FrameInv => PagesConserved /\ TypeOK
  BY Typed DEF FrameInv
<1>2. PagesConserved /\ TypeOK /\ MappedIsSize => VmInv
  BY DEF VmInv
<1>. QED BY <1>1, <1>2, FramesAreConserved, SizesMatch, PTL
=============================================================================
