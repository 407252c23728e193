------------------------------- MODULE MCPZip -------------------------------
(* Instances of PZip for TLC. *)
EXTENDS PZip

TwoFiles == <<2, 1>>              \* a file of two pages, then one of one page
WithEmpty == <<2, 0, 1, 2, 0>>    \* an empty file between others, and one after them
Strays == {-1, 0, 1}              \* what malloc() may leave in an entry
=============================================================================
