---------------------------------- MODULE Vm ----------------------------------
(***************************************************************************)
(* User memory with project 5's mprotect(): page tables, the allocator of  *)
(* pages, sbrk(), fork(), exec() and the one CPU's translation cache       *)
(* (project-5/src/vm.c, exec.c, kalloc.c, growproc() in proc.c).           *)
(*                                                                         *)
(* Addresses count from 0 in units smaller than a page, and wrap around.   *)
(* A call is interrupted between two pages it allocates.  Changes of a     *)
(* process's own page table that allocate nothing are one step: a process  *)
(* that runs in between sees none of them.                                 *)
(***************************************************************************)
EXTENDS Integers, FiniteSets, Functions

CONSTANTS
  Procs,
  NFrames,   \* pages of physical memory
  PG,        \* units in a page
  KERNBASE,  \* the end of user memory
  NPT,       \* pages one page table maps
  Grows,     \* arguments of sbrk()
  Texts,     \* sizes of the programs that exec() loads
  Addrs, Lens, \* arguments of mprotect()
  First      \* the process there is first

ASSUME VmAssumption ==
  /\ PG \in Nat \ {0} /\ NPT \in Nat \ {0} /\ KERNBASE % PG = 0
  /\ NFrames \in Nat /\ KERNBASE \in Nat \ {0}
  /\ First \in Procs /\ IsFiniteSet(Procs)
  /\ Grows \subseteq -KERNBASE..(KERNBASE - 1) /\ Addrs \subseteq -KERNBASE..(KERNBASE - 1)
  /\ Texts \subseteq Nat \ {0} /\ Lens \subseteq Nat \ {0}

UINT == 2 * KERNBASE
Pages == 0..(KERNBASE \div PG - 1)
Tables == {pg \div NPT : pg \in Pages}

VARIABLES
  free,   \* length of kmem.freelist
  vm,     \* the address space of each process
  new,    \* the one that its fork() or exec() builds
  op,     \* the call it is in
  cur,    \* the process on the CPU
  tlb,    \* a translation the CPU has cached; others would be independent of it
  stale   \* whether a failed call has left translations uncached: see below

vars == <<free, vm, new, op, cur, tlb, stale>>

\* The pages that are mapped, and of them those with PTE_W and with PTE_U; dir
\* tells the page directory of a process from the one its exec() builds.
NoSpace == [dir |-> 0, sz |-> 0, tables |-> {}, mapped |-> {}, w |-> {}, u |-> {}]
NoTlb == [page |-> 0, dir |-> 0, w |-> FALSE]
Idle == [pc |-> "idle", a |-> 0, end |-> 0, child |-> First]

PageOf(a) == a \div PG
RoundUp(a) == ((a + PG - 1) \div PG) * PG

\* The pages of memory an address space takes.
Used(s) == (IF s.dir = 0 THEN 0 ELSE 1) + Cardinality(s.tables) + Cardinality(s.mapped)

-----------------------------------------------------------------------------
(* Page tables *)

\* mappages() of one new page, with its page table if there is none.
Costs(s, pg) == IF pg \div NPT \in s.tables THEN 1 ELSE 2
CanMap(s, pg) == free >= Costs(s, pg)
MapPage(s, pg, w, u) ==
  [s EXCEPT !.mapped = @ \cup {pg}, !.tables = @ \cup {pg \div NPT},
            !.w = IF w THEN @ \cup {pg} ELSE @, !.u = IF u THEN @ \cup {pg} ELSE @]

\* deallocuvm(): the pages from newsz, rounded up, to oldsz.
Between(s, newsz, oldsz) == {pg \in s.mapped : RoundUp(newsz) <= pg * PG /\ pg * PG < oldsz}
Unmap(s, pages) ==
  [s EXCEPT !.mapped = @ \ pages, !.w = @ \ pages, !.u = @ \ pages]
Dealloc(s, newsz, oldsz) == Unmap(s, Between(s, newsz, oldsz))

-----------------------------------------------------------------------------
\* The first program, as exec() leaves it; exec() loads none that does not fit.
Image(size) ==
  LET sz == RoundUp(PG + size) + 2 * PG
      pages == 1..(PageOf(sz) - 1)
  IN [dir |-> 1, sz |-> sz, tables |-> {pg \div NPT : pg \in pages}, mapped |-> pages,
      w |-> pages, u |-> pages \ {PageOf(sz - 2 * PG)}]

\* initcode, which runs before, has page 0 mapped (inituvm()) until its exec() drops it.
Init ==
  /\ \E size \in Texts :
       /\ Image(size).sz < KERNBASE /\ Used(Image(size)) <= NFrames
       /\ vm = [p \in Procs |-> IF p = First THEN Image(size) ELSE NoSpace]
  /\ free = NFrames - Used(vm[First])
  /\ new = [p \in Procs |-> NoSpace]
  /\ op = [p \in Procs |-> Idle]
  /\ cur = First
  /\ tlb = NoTlb
  /\ stale = "no"

-----------------------------------------------------------------------------
\* lcr3() drops what the CPU has cached.
Reload == tlb' = NoTlb /\ stale' = "no"

\* The scheduler, also in the middle of a call (trap.c: yield() at each tick).
Switch(p) ==
  /\ p # cur /\ vm[p] # NoSpace
  /\ cur' = p
  /\ Reload
  /\ UNCHANGED <<free, vm, new, op>>

At(p, place) == cur = p /\ op[p].pc = place

\* p runs its program, whose text starts at the second page (Makefile:151).
Runs(p) == At(p, "idle") /\ (1 \in vm[p].mapped \/ tlb.page = 1)

\* The program uses a page.
Touch(p, pg) ==
  /\ Runs(p)
  /\ pg \in vm[p].u
  /\ tlb' = [page |-> pg, dir |-> vm[p].dir, w |-> pg \in vm[p].w]
  /\ UNCHANGED <<free, vm, new, op, cur, stale>>

-----------------------------------------------------------------------------
(* growproc(); a call refused before it changes anything is not a step *)

Grow(p, n) ==
  /\ Runs(p) /\ n > 0
  /\ (vm[p].sz + n) % UINT < KERNBASE
  /\ op' = [op EXCEPT ![p] = [Idle EXCEPT !.pc = "grow", !.a = RoundUp(vm[p].sz),
                                          !.end = vm[p].sz + n]]
  /\ UNCHANGED <<free, vm, new, cur, tlb, stale>>

GrowPage(p) ==
  /\ At(p, "grow")
  /\ op[p].a < op[p].end
  /\ LET pg == PageOf(op[p].a) IN
       /\ CanMap(vm[p], pg)
       /\ vm' = [vm EXCEPT ![p] = MapPage(@, pg, TRUE, TRUE)]
       /\ free' = free - Costs(vm[p], pg)
       /\ op' = [op EXCEPT ![p].a = @ + PG]
  /\ UNCHANGED <<new, cur, tlb, stale>>

GrowFails(p) ==
  /\ At(p, "grow")
  /\ op[p].a < op[p].end /\ ~CanMap(vm[p], PageOf(op[p].a))
  /\ vm' = [vm EXCEPT ![p] = Dealloc(@, vm[p].sz, op[p].end)]
  /\ free' = free + Cardinality(Between(vm[p], vm[p].sz, op[p].end))
  /\ op' = [op EXCEPT ![p] = Idle]
  /\ UNCHANGED <<new, cur, tlb, stale>>

GrowDone(p) ==
  /\ At(p, "grow")
  /\ op[p].a >= op[p].end
  /\ vm' = [vm EXCEPT ![p].sz = op[p].end]
  /\ op' = [op EXCEPT ![p] = Idle]
  /\ Reload
  /\ UNCHANGED <<free, new, cur>>

\* To nothing, deallocuvm() returns 0, which growproc() takes for a failure.
Shrink(p, n) ==
  /\ Runs(p) /\ n < 0
  /\ LET newsz == (vm[p].sz + n) % UINT   s == vm[p] IN
       /\ newsz < s.sz
       /\ vm' = [vm EXCEPT ![p] = [Dealloc(s, newsz, s.sz) EXCEPT
                   !.sz = IF newsz = 0 THEN @ ELSE newsz]]
       /\ free' = free + Cardinality(Between(s, newsz, s.sz))
       /\ IF newsz = 0 THEN stale' = "freed" /\ UNCHANGED tlb ELSE Reload
  /\ UNCHANGED <<new, op, cur>>

\* Below nothing, the sum wraps around: growproc() succeeds and does nothing.
ShrinkWraps(p, n) ==
  /\ Runs(p) /\ n < 0
  /\ (vm[p].sz + n) % UINT >= vm[p].sz
  /\ Reload
  /\ UNCHANGED <<free, vm, new, op, cur>>

-----------------------------------------------------------------------------
(* fork() and exec() build a new address space.  setupkvm() takes its page   *)
(* directory, which stands for the kernel's page tables too.                 *)

InUse == {q \in Procs : vm[q] # NoSpace} \cup {op[p].child : p \in {x \in Procs : op[x].pc = "fork"}}

\* bad: freevm().
Abandon_KeepsTables(p) ==
  /\ free' = free + Cardinality(new[p].mapped) + 1
  /\ new' = [new EXCEPT ![p] = NoSpace]
  /\ op' = [op EXCEPT ![p] = Idle]
  /\ UNCHANGED <<vm, cur, tlb, stale>>
Abandon(p) ==
  /\ free' = free + Used(new[p])
  /\ new' = [new EXCEPT ![p] = NoSpace]
  /\ op' = [op EXCEPT ![p] = Idle]
  /\ UNCHANGED <<vm, cur, tlb, stale>>

Fork(p, q) ==
  /\ Runs(p)
  /\ q \notin InUse /\ free > 0
  /\ new' = [new EXCEPT ![p] = [NoSpace EXCEPT !.dir = 1]]
  /\ free' = free - 1
  /\ op' = [op EXCEPT ![p] = [pc |-> "fork", a |-> PG, end |-> vm[p].sz, child |-> q]]
  /\ UNCHANGED <<vm, cur, tlb, stale>>

\* copyuvm() of a page, with its flags.
ForkPage_UserFlags(p) ==
  /\ At(p, "fork")
  /\ op[p].a < op[p].end
  /\ LET pg == PageOf(op[p].a) IN
       /\ pg \in vm[p].mapped /\ CanMap(new[p], pg)
       /\ new' = [new EXCEPT ![p] = MapPage(@, pg, TRUE, TRUE)]
       /\ free' = free - Costs(new[p], pg)
  /\ op' = [op EXCEPT ![p].a = @ + PG]
  /\ UNCHANGED <<vm, cur, tlb, stale>>
ForkPage(p) ==
  /\ At(p, "fork")
  /\ op[p].a < op[p].end
  /\ LET pg == PageOf(op[p].a) IN
       /\ pg \in vm[p].mapped /\ CanMap(new[p], pg)
       /\ new' = [new EXCEPT ![p] = MapPage(@, pg, pg \in vm[p].w, pg \in vm[p].u)]
       /\ free' = free - Costs(new[p], pg)
  /\ op' = [op EXCEPT ![p].a = @ + PG]
  /\ UNCHANGED <<vm, cur, tlb, stale>>

ForkFails(p) ==
  /\ At(p, "fork")
  /\ op[p].a < op[p].end
  /\ PageOf(op[p].a) \in vm[p].mapped /\ ~CanMap(new[p], PageOf(op[p].a))
  /\ Abandon(p)

ForkDone(p) ==
  /\ At(p, "fork")
  /\ op[p].a >= op[p].end
  /\ vm' = [vm EXCEPT ![op[p].child] = [new[p] EXCEPT !.sz = vm[p].sz]]
  /\ new' = [new EXCEPT ![p] = NoSpace]
  /\ op' = [op EXCEPT ![p] = Idle]
  /\ UNCHANGED <<free, cur, tlb, stale>>

\* The image starts at the second page.
ExecStart == PG
Exec(p, size) ==
  /\ Runs(p)
  /\ free > 0
  /\ PG + size < KERNBASE
  /\ new' = [new EXCEPT ![p] = [NoSpace EXCEPT !.dir = 3 - vm[p].dir]]
  /\ free' = free - 1
  /\ op' = [op EXCEPT ![p] = [Idle EXCEPT !.pc = "text", !.a = ExecStart, !.end = PG + size]]
  /\ UNCHANGED <<vm, cur, tlb, stale>>

ExecPage(p) ==
  /\ At(p, "text") \/ At(p, "stack")
  /\ op[p].a < op[p].end
  /\ LET pg == PageOf(op[p].a) IN
       /\ CanMap(new[p], pg)
       /\ new' = [new EXCEPT ![p] = MapPage(@, pg, TRUE, TRUE)]
       /\ free' = free - Costs(new[p], pg)
  /\ op' = [op EXCEPT ![p].a = @ + PG]
  /\ UNCHANGED <<vm, cur, tlb, stale>>

\* No memory; a file that cannot be read or is not a program; arguments that do
\* not fit on the stack.
ExecFails(p) ==
  /\ At(p, "text") \/ At(p, "stack")
  /\ op[p].a < op[p].end => ~CanMap(new[p], PageOf(op[p].a))
  /\ Abandon(p)

ExecStack(p) ==
  /\ At(p, "text")
  /\ op[p].a >= op[p].end
  /\ LET sz == RoundUp(op[p].end) IN
       /\ sz + 2 * PG < KERNBASE
       /\ op' = [op EXCEPT ![p] = [@ EXCEPT !.pc = "stack", !.a = sz, !.end = sz + 2 * PG]]
  /\ UNCHANGED <<free, vm, new, cur, tlb, stale>>

\* clearpteu(), then the new image is committed: switchuvm(), freevm().
ExecDone(p) ==
  /\ At(p, "stack")
  /\ op[p].a >= op[p].end
  /\ LET sz == op[p].end IN
       vm' = [vm EXCEPT ![p] = [new[p] EXCEPT !.sz = sz, !.u = @ \ {PageOf(sz - 2 * PG)}]]
  /\ free' = free + Used(vm[p])
  /\ new' = [new EXCEPT ![p] = NoSpace]
  /\ op' = [op EXCEPT ![p] = Idle]
  /\ Reload
  /\ UNCHANGED cur

\* exit(), and wait() in the parent, which frees the memory.  First is init.
Exit(p) ==
  /\ At(p, "idle") /\ p # First
  /\ vm' = [vm EXCEPT ![p] = NoSpace]
  /\ free' = free + Used(vm[p])
  /\ cur' = First
  /\ Reload
  /\ UNCHANGED <<new, op>>

-----------------------------------------------------------------------------
(* mprotect(w = FALSE) and munprotect(w = TRUE) *)

\* The range is checked as int arithmetic compared with an unsigned size.
Accepted(p, addr, len) == (addr + len * PG) % UINT <= vm[p].sz /\ addr % PG = 0

\* The pages of the range up to the first that is not a user page: below
\* address 0 is the kernel's.
Reached(p, addr, len) ==
  {pg \in Pages : /\ addr <= pg * PG /\ pg * PG < addr + len * PG
                  /\ \A x \in (addr \div PG)..pg : x \in vm[p].u}

Rights(p, pages, w) ==
  vm' = [vm EXCEPT ![p].w = IF w THEN @ \cup pages ELSE @ \ pages]

Protect_NoReload(p, addr, len, w) ==
  /\ Runs(p) /\ Accepted(p, addr, len)
  /\ Cardinality(Reached(p, addr, len)) = len
  /\ Rights(p, Reached(p, addr, len), w)
  /\ UNCHANGED <<free, new, op, cur, tlb, stale>>
Protect(p, addr, len, w) ==
  /\ Runs(p) /\ Accepted(p, addr, len)
  /\ Cardinality(Reached(p, addr, len)) = len
  /\ Rights(p, Reached(p, addr, len), w)
  /\ Reload
  /\ UNCHANGED <<free, new, op, cur>>

\* -1, with the pages before changed and the translations not reloaded.
ProtectFails(p, addr, len, w) ==
  /\ Runs(p) /\ Accepted(p, addr, len)
  /\ Cardinality(Reached(p, addr, len)) < len
  /\ Rights(p, Reached(p, addr, len), w)
  /\ stale' = IF Reached(p, addr, len) # {} /\ stale = "no" THEN "rights" ELSE stale
  /\ UNCHANGED <<free, new, op, cur, tlb>>

-----------------------------------------------------------------------------
Sbrk(p, n) == Grow(p, n) \/ Shrink(p, n) \/ ShrinkWraps(p, n)
InGrow(p) == GrowPage(p) \/ GrowFails(p) \/ GrowDone(p)
InFork(p) == ForkPage(p) \/ ForkFails(p) \/ ForkDone(p)
InExec(p) == ExecPage(p) \/ ExecFails(p) \/ ExecStack(p) \/ ExecDone(p)

Next == \E p \in Procs :
  \/ Switch(p) \/ Exit(p) \/ InGrow(p) \/ InFork(p) \/ InExec(p)
  \/ \E pg \in Pages : Touch(p, pg)
  \/ \E n \in Grows : Sbrk(p, n)
  \/ \E q \in Procs : Fork(p, q)
  \/ \E size \in Texts : Exec(p, size)
  \/ \E addr \in Addrs, len \in Lens, w \in BOOLEAN :
       Protect(p, addr, len, w) \/ ProtectFails(p, addr, len, w)

Spec == Init /\ [][Next]_vars

-----------------------------------------------------------------------------
TypeOK ==
  /\ free \in 0..NFrames /\ cur \in Procs
  /\ \A s \in Range(vm) \cup Range(new) :
       /\ s.dir \in 0..2 /\ s.sz \in 0..(KERNBASE - 1)
       /\ s.tables \subseteq Tables /\ s.mapped \subseteq Pages
       /\ s.w \subseteq s.mapped /\ s.u \subseteq s.mapped
  /\ op \in [Procs -> [pc : {"idle", "grow", "fork", "text", "stack"}, a : 0..KERNBASE,
                       end : 0..(KERNBASE - 1), child : Procs]]
  /\ tlb \in [page : Pages, dir : 0..2, w : BOOLEAN]
  /\ stale \in {"no", "rights", "freed"}
  /\ vm[cur] # NoSpace

\* Every page of memory is free or in one page table, whichever call ran out of
\* memory half way: none leaks and none is freed twice.
Total(v, n) == FoldFunction(+, 0, [p \in Procs |-> Used(v[p]) + Used(n[p])])
PagesConserved == NFrames = free + Total(vm, new)

\* From the first exec() on page 0 is mapped in no process, so that a null pointer
\* faults (project 5, part one), and what a process has below its size is what it can use: all
\* pages are there for copyuvm(), which panics otherwise, and a sbrk() that
\* fails leaves none above.  A sbrk() that gives back everything is the
\* exception: it fails, and has freed the pages, the program's text first.
MappedIsSize == \A p \in Procs : vm[p] # NoSpace =>
  /\ 0 \notin vm[p].mapped
  /\ op[p].pc = "idle" /\ 1 \in vm[p].mapped =>
       vm[p].mapped = 1..(PageOf(RoundUp(vm[p].sz)) - 1)

\* What the CPU has cached is what the page table says, through every change of
\* it: after exec(), sbrk() or mprotect() nothing is reachable that was given
\* up.  Two failures break it until the next switch: a mprotect() that stops
\* half way, for the rights, and a sbrk() that gives back everything.
TlbHonest == tlb # NoTlb /\ stale # "freed" =>
  /\ tlb.dir = vm[cur].dir /\ tlb.page \in vm[cur].u
  /\ stale = "no" => (tlb.w <=> tlb.page \in vm[cur].w)

\* A child has its parent's pages with the parent's rights, the guard page and
\* the pages made read-only included.
ChildIsCopy ==
  [][\A p, q \in Procs : op[p].pc = "fork" /\ op[p].child = q /\ vm'[q] # vm[q] =>
       /\ vm'[q].sz = vm[p].sz /\ vm'[q].mapped = vm[p].mapped
       /\ vm'[q].w = vm[p].w /\ vm'[q].u = vm[p].u]_vars

\* Memory and page tables after every call and every failure half way through
\* one: no page lost, none doubled, and what is mapped is what the size says.
VmInv == TypeOK /\ PagesConserved /\ MappedIsSize
=============================================================================
