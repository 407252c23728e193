------------------------------ MODULE Programs ------------------------------
(***************************************************************************)
(* What the repository has that runs alone: the coders and their decoder,  *)
(* the shell, the allocator of xv6's programs, and the register of project *)
(* 4's rand().  One of them runs.                                          *)
(***************************************************************************)
EXTENDS Integers, Sequences

CONSTANTS
  NUL, FF, Inputs, PageSize, NoPage, NumProcs, FirstSize,
  NULL, Bin, Lines, Installed, MaxChildren, MaxDirs,
  Requests, Header, UINT, Chunk, Page, Heap, Limit,
  total_tickets

VARIABLES
  runs,    \* the program that runs
  coder, files, maps, phase, file, k, count, prev, hit, out, over, text,
  line, at, program, i, paths, named,
  ring, freep, used, top, fate,
  lfsr, rand_num, draws

Zip == INSTANCE Zip
Wish == INSTANCE Wish
Umalloc == INSTANCE Umalloc
Rand == INSTANCE Rand

\* The theorems about the shell and the allocator assume this of the constants.
ASSUME WishAssumption == Wish!LinesFit
ASSUME UmallocAssumption == Umalloc!SizesFit

zip == <<coder, files, maps, phase, file, k, count, prev, hit, out, over, text>>
wish == <<line, at, program, i, paths, named>>
umalloc == <<ring, freep, used, top, fate>>
rand == <<lfsr, rand_num, draws>>
vars == <<runs, zip, wish, umalloc, rand>>

Init ==
  /\ runs \in {"zip", "wish", "umalloc", "rand"}
  /\ Zip!Init /\ Wish!Init /\ Umalloc!Init /\ Rand!Init

Next ==
  /\ UNCHANGED runs
  /\ \/ runs = "zip" /\ Zip!Next /\ UNCHANGED <<wish, umalloc, rand>>
     \/ runs = "wish" /\ Wish!Next /\ UNCHANGED <<zip, umalloc, rand>>
     \/ runs = "umalloc" /\ Umalloc!Next /\ UNCHANGED <<zip, wish, rand>>
     \/ runs = "rand" /\ Rand!Next /\ UNCHANGED <<zip, wish, umalloc>>

Spec == Init /\ [][Next]_vars /\ Wish!Fairness

-----------------------------------------------------------------------------
\* What each coder codes faithfully, and where one overruns its buffer: see Zip.
ZipInv == Zip!ZipInv

\* The shell leaves no child behind and searches at most one stale directory,
\* and every line comes to its end: see Wish.
WishInv == Wish!WishInv
LineEnds == Wish!LineEnds

\* malloc() and free() keep the heap tiled and joined: see Umalloc.
UmallocInv == Umalloc!UmallocInv

\* rand() has the longest period: see Rand.
RandInv == Rand!RandInv
=============================================================================
