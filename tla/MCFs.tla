--------------------------------- MODULE MCFs ---------------------------------
(* Instance of Fs for TLC. *)
EXTENDS Fs, TLC

CONSTANTS rc, etc

\* A file or a directory at the root, and a file in the directory.
PathsValue == {<<rc>>, <<etc>>, <<etc, rc>>}

Or(f, none) == [i \in Inums |-> IF i \in DOMAIN f THEN f[i] ELSE none]
Image(type, nlink, dir) ==
  [type |-> Or(type, "none"), nlink |-> Or(nlink, 0), dir |-> Or(dir, NoEntries),
   data |-> [i \in Inums |-> {}], used |-> {}]

\* What mkfs leaves, a root directory without other entries (mkfs.c:110), and
\* what is there after mkdir("etc") and open("etc/rc", O_CREATE).
ImagesValue ==
  {Image(<<"dir">>, <<1>>, <<NoEntries>>),
   Image(<<"dir", "dir", "file">>, <<2, 1, 1>>,
         <<[NoEntries EXCEPT ![etc] = 2], [NoEntries EXCEPT ![rc] = 3]>>)}

Symmetry == Permutations(Procs)
=============================================================================
