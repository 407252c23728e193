--------------------------------- MODULE Zip ---------------------------------
(***************************************************************************)
(* The run-length coders of the repository and their decoder: wzip and     *)
(* wunzip of project 1, the mmap and the static pzip of project 6 (parts 1 *)
(* and 2).  A coder turns its files into records of a count and a byte,    *)
(* wunzip turns the records back.  A step is an iteration of a loop.       *)
(*                                                                         *)
(* The threads of the static pzip share nothing until they are joined:     *)
(* what each computes is a function of its block.                          *)
(***************************************************************************)
EXTENDS Integers, Sequences, FiniteSets, SequencesExt

CONSTANTS
  NUL,       \* '\0'
  FF,        \* the byte 0xff, which a char holds when fgetc() returns EOF
  Inputs,    \* coders with the files they are given, and how a mapping shows them
  PageSize,  \* bytes in a page
  NoPage,    \* no byte: nothing is mapped there
  NumProcs,  \* get_nprocs()
  FirstSize  \* records of a job's first buffer (10)

VARIABLES
  coder,     \* the program that codes
  files,     \* its arguments
  maps,      \* for mmap(): atoi() of a file's name, and the byte after its last page
  phase,     \* "start", "coding", "decoding", "end"
  file, k,   \* the file, and the next byte of it (the thread to join next)
  count, prev, hit,
  out,       \* records written
  over,      \* the blocks whose last record was written past the buffer
  text       \* what wunzip prints

read == <<coder, files, maps>>
vars == <<coder, files, maps, phase, file, k, count, prev, hit, out, over, text>>

Init ==
  /\ coder = "none" /\ files = <<>> /\ maps = <<>>
  /\ phase = "start"
  /\ file = 1 /\ k = 1
  /\ count = 0 /\ prev = NUL /\ hit = 0
  /\ out = <<>> /\ over = {}
  /\ text = <<>>

Start ==
  /\ phase = "start"
  /\ \E input \in Inputs :
       coder' = input.coder /\ files' = input.files /\ maps' = input.maps
  /\ phase' = "coding"
  /\ UNCHANGED <<file, k, count, prev, hit, out, over, text>>

At(program) == phase = "coding" /\ coder = program /\ file <= Len(files)
LastFile == file = Len(files)
Size == Len(files[file])
Byte == IF k <= Size THEN files[file][k] ELSE FF
NextFile == file' = file + 1 /\ k' = 1

\* The coders' loops end after the last file, and then wunzip reads the records.
Finish ==
  /\ phase = "coding" /\ file > Len(files)
  /\ phase' = "decoding" /\ k' = 1
  /\ UNCHANGED <<read, file, count, prev, hit, out, over, text>>

-----------------------------------------------------------------------------
(* wzip.c *)

\* The first character of a file is counted whatever came before.
WzipFirst ==
  /\ At("wzip") /\ k = 1
  /\ count' = count + 1 /\ prev' = Byte
  /\ k' = 2
  /\ UNCHANGED <<read, phase, file, hit, out, over, text>>

WzipNext ==
  /\ At("wzip") /\ k > 1 /\ Byte # FF
  /\ out' = IF Byte = prev THEN out ELSE Append(out, <<count, prev>>)
  /\ count' = IF Byte = prev THEN count + 1 ELSE 1
  /\ prev' = Byte
  /\ k' = k + 1
  /\ UNCHANGED <<read, phase, file, hit, over, text>>

WzipEof ==
  /\ At("wzip") /\ k > 1 /\ Byte = FF
  /\ out' = IF LastFile THEN Append(out, <<count, prev>>) ELSE out
  /\ NextFile
  /\ UNCHANGED <<read, phase, count, prev, hit, over, text>>

-----------------------------------------------------------------------------
(* zip-mmap.c *)

\* The mapping begins at the page of the number that atoi() makes of the name.
Offset == maps[file].atoi
PaOffset == Offset - (Offset % PageSize)

\* What follows a file in its last page is zero; behind a file of whole pages is
\* whatever is mapped next, of which one byte is modelled, or nothing.
WholePages(i) == Len(files[i]) % PageSize = 0
Shown ==
  IF PaOffset + k \in DOMAIN files[file] THEN files[file][PaOffset + k]
  ELSE IF WholePages(file) /\ PaOffset + k = Size + 1 THEN maps[file].behind ELSE NUL

\* offset >= st_size: the program exits.
MmapExits ==
  /\ At("mmap") /\ Offset >= Size
  /\ phase' = "decoding" /\ k' = 1
  /\ UNCHANGED <<read, file, count, prev, hit, out, over, text>>

\* It is killed where nothing is mapped, and where mmap() failed: its offset may
\* not be negative.  The records it wrote are there.
MmapFaults == Offset < 0 \/ Shown = NoPage
MmapKilled ==
  /\ At("mmap") /\ Offset < Size /\ MmapFaults
  /\ phase' = "decoding" /\ k' = 1
  /\ UNCHANGED <<read, file, count, prev, hit, out, over, text>>

MmapNext ==
  /\ At("mmap") /\ Offset < Size /\ ~MmapFaults /\ Shown # NUL
  /\ out' = IF Shown # prev /\ count > 0 THEN Append(out, <<count, prev>>) ELSE out
  /\ count' = IF Shown # prev THEN 1 ELSE count + 1
  /\ prev' = Shown
  /\ k' = k + 1
  /\ UNCHANGED <<read, phase, file, hit, over, text>>

\* The last run is written at the end of the third file on, or of an only file.
MmapWrites == hit + 1 > 2 \/ (Len(files) = 1 /\ hit + 1 = 1)
MmapNul ==
  /\ At("mmap") /\ Offset < Size /\ ~MmapFaults /\ Shown = NUL
  /\ hit' = hit + 1
  /\ out' = IF count > 0 /\ MmapWrites THEN Append(out, <<count, prev>>) ELSE out
  /\ NextFile
  /\ UNCHANGED <<read, phase, count, prev, over, text>>

-----------------------------------------------------------------------------
(* pzip-static.c *)

\* The block of thread t: an equal share, with the remainder to the first.
Share(t, len) == (len \div NumProcs) + (IF t = 1 THEN len % NumProcs ELSE 0)
Before(t, len) == IF t = 1 THEN 0 ELSE (t - 1) * (len \div NumProcs) + (len % NumProcs)
Block(t, f) == SubSeq(f, Before(t, Len(f)) + 1, Before(t, Len(f)) + Share(t, Len(f)))

\* The buffer is doubled when the byte's number i, from 0, is past its size.
Grown(i, size) == IF i > size THEN 2 * size ELSE size

\* process(): a record of the current run, the records before it, and the size
\* of the buffer, after each byte.
Process(block) ==
  LET after[i \in 0..Len(block)] ==
        IF i = 0
        THEN [num |-> 0, ch |-> IF block = <<>> THEN NUL ELSE block[1],
              recs |-> <<>>, size |-> FirstSize]
        ELSE LET st == after[i - 1] IN
             IF block[i] = st.ch THEN [st EXCEPT !.num = @ + 1]
             ELSE [num |-> 1, ch |-> block[i], recs |-> Append(st.recs, <<st.num, st.ch>>),
                   size |-> Grown(i - 1, st.size)]
      end == after[Len(block)]
  IN [recs |-> Append(end.recs, <<end.num, end.ch>>), over |-> Len(end.recs) >= end.size]

\* main() joins the threads in order, and merges runs that meet.
Joined_KeepsBoth(recs) == out \o recs
Joined(recs) ==
  IF out # <<>> /\ out[Len(out)][2] = recs[1][2]
  THEN Front(out) \o [recs EXCEPT ![1][1] = @ + out[Len(out)][1]]
  ELSE out \o recs

StaticEmpty ==
  /\ At("static") /\ files[file] = <<>>
  /\ NextFile
  /\ UNCHANGED <<read, phase, count, prev, hit, out, over, text>>

StaticJoin ==
  /\ At("static") /\ files[file] # <<>>
  /\ LET block == Block(k, files[file])   job == Process(block) IN
       /\ out' = Joined(job.recs)
       /\ over' = IF job.over THEN over \cup {block} ELSE over
  /\ IF k = NumProcs THEN NextFile ELSE k' = k + 1 /\ UNCHANGED file
  /\ UNCHANGED <<read, phase, count, prev, hit, text>>

-----------------------------------------------------------------------------
(* wunzip.c *)

WunzipRecord ==
  /\ phase = "decoding" /\ k <= Len(out)
  /\ text' = text \o [i \in 1..out[k][1] |-> out[k][2]]
  /\ k' = k + 1
  /\ UNCHANGED <<read, phase, file, count, prev, hit, out, over>>

WunzipEnd ==
  /\ phase = "decoding" /\ k > Len(out)
  /\ phase' = "end"
  /\ UNCHANGED <<read, file, k, count, prev, hit, out, over, text>>

-----------------------------------------------------------------------------
Wzip == WzipFirst \/ WzipNext \/ WzipEof
Mmap == MmapExits \/ MmapKilled \/ MmapNext \/ MmapNul
Static == StaticEmpty \/ StaticJoin
Wunzip == WunzipRecord \/ WunzipEnd

Next ==
  \/ Start
  \/ Wzip \/ Mmap \/ Static \/ Finish \/ Wunzip

Spec == Init /\ [][Next]_vars

-----------------------------------------------------------------------------
Content == FlattenSeq(files)
NoEmptyFile == \A i \in DOMAIN files : files[i] # <<>>
Decoded(program) == phase = "end" /\ coder = program

TypeOK ==
  /\ phase \in {"start", "coding", "decoding", "end"}
  /\ file \in 1..(Len(files) + 1) /\ k \in Nat \ {0}
  /\ count \in Nat /\ hit \in 0..Len(files)
  /\ \A i \in DOMAIN out : out[i][1] \in Nat

\* What wzip codes faithfully: it takes a byte 0xff after the first for the end of
\* a file, and the first byte of a file for one more of the run before it.
WzipCodes ==
  /\ \A i \in DOMAIN files : \A j \in 2..Len(files[i]) : files[i][j] # FF
  /\ \A i \in 2..Len(files) : Head(files[i]) = Last(files[i - 1])

\* wunzip gives back what wzip was given exactly when wzip can code it
\* (wzip.c:39-53); of an empty file wzip codes the 0xff it reads at its end.
WzipExact == Decoded("wzip") /\ NoEmptyFile => (text = Content <=> WzipCodes)

\* The mmap pzip ends a file at its first zero byte, and has to find one behind a
\* file of whole pages; it forgets the last run of two files, and writes the last
\* run of the third file twice when a fourth follows.
MmapCodes ==
  /\ \A i \in DOMAIN files :
       /\ maps[i].atoi \in 0..(Len(files[i]) - 1) /\ maps[i].atoi < PageSize
       /\ WholePages(i) => maps[i].behind = NUL
       /\ \A j \in DOMAIN files[i] : files[i][j] # NUL
  /\ Len(files) \in {1, 3}

\* A mapping shows no less than the file, and behind it no byte but a zero.
ShowsTheFile ==
  \A i \in DOMAIN files : /\ maps[i].atoi < PageSize
                          /\ WholePages(i) => maps[i].behind \in {NUL, NoPage}

\* wunzip gives back what the mmap pzip was given when it can code it, whatever the
\* names, and else it does not (zip-mmap.c:85-105), unless the page of a name's
\* number, or stray bytes behind a file, happen to make up for what was lost, or a
\* last file is empty, which ends that program.
MmapExact ==
  Decoded("mmap") =>
    /\ MmapCodes => text = Content
    /\ text = Content /\ NoEmptyFile /\ ShowsTheFile => MmapCodes

\* The static pzip always gives a faithful coding, and however its threads share
\* the files no two records that meet have the same byte (pzip-static.c:104-127).
StaticExact ==
  Decoded("static") => text = Content /\ \A i \in 2..Len(out) : out[i][2] # out[i - 1][2]

\* The runs of a block are as many as its first s + 1 bytes, and one record has no
\* room in a buffer of s.
FillsBuffer(block, s) ==
  /\ Len(block) > s
  /\ \A i \in 2..(s + 1) : block[i] # block[i - 1]
  /\ \A i \in (s + 2)..Len(block) : block[i] = block[s + 1]

\* A thread of the static pzip writes past its buffer for these blocks and no
\* others (pzip-static.c:167 and 178).
OverrunsExactly ==
  Decoded("static") =>
    over = {block \in {Block(t, files[i]) : t \in 1..NumProcs, i \in DOMAIN files} :
              \E j \in 0..Len(block) : FillsBuffer(block, 2^j * FirstSize)}

\* What each coder codes so that wunzip gives it back, and where one writes past
\* its buffer, as equivalences: the code does exactly that, no better, no worse.
ZipInv == TypeOK /\ WzipExact /\ MmapExact /\ StaticExact /\ OverrunsExactly
=============================================================================
