--------------------------------- MODULE MCVm ---------------------------------
(* Instance of Vm for TLC: pages of two units and user memory of six pages. *)
EXTENDS Vm

\* Part of a page, more than a page, all of it (the program of one page has 8),
\* and more than all of it.
GrowsValue == {3, -3, -8}
\* The text, the guard page's predecessor, unaligned, and below address 0.
AddrsValue == {2, 3, 6, -2}
=============================================================================
