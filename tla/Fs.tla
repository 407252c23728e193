---------------------------------- MODULE Fs ----------------------------------
(***************************************************************************)
(* Inodes, directories and the calls on them (project-2/src/fs.c,          *)
(* sysfile.c, and the open files of file.c).  The calls run between        *)
(* begin_op() and end_op(); below them is the store of AtomicStore, which  *)
(* Log implements: what the last of a group leaves is what a crash finds.  *)
(*                                                                         *)
(* A step is what a process does while it holds the locks it needs without *)
(* waiting for another one; waiting for a sleep lock is a step that is not *)
(* enabled (module Bcache has the hand-over).  A process opens one file.   *)
(***************************************************************************)
EXTENDS Integers, Sequences, FiniteSets, SequencesExt

CONSTANTS
  Procs,
  NInode,    \* inodes on disk; 1 is the root directory (ROOTINO)
  NBlock,    \* data blocks
  MaxBlocks, \* blocks of a file
  Names,     \* names of entries, without "." and ".."
  Paths,     \* the absolute paths the calls use, as sequences of names
  MaxCalls,  \* calls in a behaviour
  Images,    \* the file systems the machine boots with
  Crashes,   \* whether the machine may crash
  Nobody

ASSUME FsAssumption ==
  /\ NInode \in Nat \ {0} /\ NBlock \in Nat \ {0} /\ MaxBlocks \in Nat
  /\ Paths \subseteq Seq(Names) \ {<<>>}
  /\ Nobody \notin Procs
  /\ IsFiniteSet(Procs) /\ IsFiniteSet(Names)

ROOT == 1
None == 0
Inums == 1..NInode
Blocks == 1..NBlock

VARIABLES
  disk,      \* inodes, directories and the bitmap, as the calls see them
  durable,   \* the same after a crash
  active,    \* calls between begin_op() and end_op()
  ic,        \* the inode cache, by inode number
  c,         \* what each process is doing
  file,      \* the inode of its open file
  lost,      \* inodes that nothing leads to any more
  raced,     \* inodes two overlapping iput()s have put
  calls      \* calls made so far

vars == <<disk, durable, active, ic, c, file, lost, raced, calls>>

NoEntries == [n \in Names |-> None]
Unused == [ref |-> 0, valid |-> FALSE, lock |-> Nobody, type |-> "none", nlink |-> 0]
Idle == [pc |-> "idle", call |-> "none", path |-> <<>>, new |-> <<>>,
         cur |-> None, ip |-> None, puts |-> <<>>, then |-> "idle"]

\* The machine boots with a disk that mkfs wrote, or that the calls have used since.
Init ==
  /\ disk \in Images
  /\ durable = disk
  /\ active = {}
  /\ ic = [i \in Inums |-> Unused]
  /\ c = [p \in Procs |-> Idle]
  /\ file = [p \in Procs |-> None]
  /\ lost = {}
  /\ raced = {}
  /\ calls = 0

-----------------------------------------------------------------------------
(* The inode cache.  These operators give the next value of ic. *)

\* iget(): an entry that nobody refers to is set up anew.
Iget(cache, i) ==
  [cache EXCEPT ![i].ref = @ + 1, ![i].valid = IF cache[i].ref > 0 THEN @ ELSE FALSE]
\* What an entry without references holds does not matter to iget().
Unref(cache, i) ==
  [cache EXCEPT ![i] = IF cache[i].ref = 1 THEN Unused
                         ELSE [cache[i] EXCEPT !.ref = cache[i].ref - 1]]

\* ilock(): reads the inode if the entry is not valid.
Ilock(cache, i, p) ==
  IF cache[i].valid THEN [cache EXCEPT ![i].lock = p]
  ELSE [cache EXCEPT ![i].lock = p, ![i].valid = TRUE,
                     ![i].type = disk.type[i], ![i].nlink = disk.nlink[i]]
Iunlock(cache, i) == [cache EXCEPT ![i].lock = Nobody]

CanLock(i) == ic[i].lock = Nobody
NoType(i) == ~ic[i].valid /\ disk.type[i] = "none"     \* panic("ilock: no type")

\* What ilock() finds.
TypeOf(i) == IF ic[i].valid THEN ic[i].type ELSE disk.type[i]
NlinkOf(i) == IF ic[i].valid THEN ic[i].nlink ELSE disk.nlink[i]

\* A change of nlink, and iupdate().
SetNlink(cache, i, n) == [cache EXCEPT ![i].nlink = n]
DiskNlink(d, i, n) == [d EXCEPT !.nlink[i] = n, !.type[i] = TypeOf(i)]

At(p, place) == c[p].pc = place
Become(p, frame) == c' = [c EXCEPT ![p] = frame]
\* iput() of these inodes, one after the other, and then on to a place.
Puts(frame, seq, place) == [frame EXCEPT !.pc = "iput", !.puts = seq, !.then = place]

\* The call only has these inodes left to put.
Ends(p, seq) ==
  c' = [c EXCEPT ![p] = [Idle EXCEPT !.pc = IF seq = <<>> THEN "end" ELSE "iput",
                                     !.puts = seq, !.then = "end"]]

-----------------------------------------------------------------------------
(* begin_op() and end_op() *)

WantsParent(p) == c[p].call \in {"create", "mkdir", "unlink"}

Begins(p) ==
  /\ At(p, "idle")
  /\ calls < MaxCalls
  /\ calls' = calls + 1
  /\ active' = active \cup {p}

\* A call with its path; link() has a second one.  namex() starts at the root.
Call(p, call, path, new) ==
  /\ Begins(p)
  /\ ic' = Iget(ic, ROOT)
  /\ Become(p, [c[p] EXCEPT !.pc = "walk", !.call = call, !.path = path, !.new = new, !.cur = ROOT])
  /\ UNCHANGED <<disk, durable, file, lost, raced>>

\* fileclose(): the file has lost its last reference.
Close(p) ==
  /\ Begins(p)
  /\ file[p] # None
  /\ file' = [file EXCEPT ![p] = None]
  /\ Ends(p, <<file[p]>>)
  /\ UNCHANGED <<disk, durable, ic, lost, raced>>

\* filewrite() of one block at the end of the file.
Write(p) ==
  /\ Begins(p)
  /\ file[p] # None
  /\ Become(p, [c[p] EXCEPT !.pc = "writei", !.ip = file[p]])
  /\ UNCHANGED <<disk, durable, ic, file, lost, raced>>

\* The last of the calls in progress commits them all.
EndOp(p) ==
  /\ At(p, "end")
  /\ active' = active \ {p}
  /\ durable' = IF active = {p} THEN disk ELSE durable
  /\ c' = [c EXCEPT ![p] = Idle]
  /\ UNCHANGED <<disk, ic, file, lost, raced, calls>>

-----------------------------------------------------------------------------
(* iput() *)

Entries(d, i) == {d.dir[i][n] : n \in Names} \ {None}

\* itrunc(), type = 0 and iupdate().
Freed(d, i) ==
  [d EXCEPT !.type[i] = "none", !.dir[i] = NoEntries,
            !.data[i] = {}, !.used = @ \ d.data[i]]

LastUse_Zero(i) == ic[i].valid /\ ic[i].nlink = 0 /\ ic[i].ref = 0
LastUse(i) == ic[i].valid /\ ic[i].nlink = 0 /\ ic[i].ref = 1

\* Another iput() of i has looked at ip->ref and not yet decremented it.
Overlaps(p, i) == \E q \in Procs \ {p} : At(q, "unref") /\ Head(c[q].puts) = i

\* Under the lock: the last reference to an inode without links frees it.
Iput_KeepsValid(p) ==
  /\ At(p, "iput")
  /\ LET i == Head(c[p].puts) IN
       /\ CanLock(i)
       /\ IF LastUse(i)
            THEN /\ disk' = Freed(disk, i)
                 /\ ic' = [ic EXCEPT ![i].type = "none"]
                 /\ lost' = lost \cup Entries(disk, i)
            ELSE UNCHANGED <<disk, ic, lost>>
       /\ raced' = IF Overlaps(p, i) THEN raced \cup {i} ELSE raced
  /\ Become(p, [c[p] EXCEPT !.pc = "unref"])
  /\ UNCHANGED <<durable, active, file, calls>>
Iput(p) ==
  /\ At(p, "iput")
  /\ LET i == Head(c[p].puts) IN
       /\ CanLock(i)
       /\ IF LastUse(i)
            THEN /\ disk' = Freed(disk, i)
                 /\ ic' = [ic EXCEPT ![i].type = "none", ![i].valid = FALSE]
                 /\ lost' = lost \cup Entries(disk, i)
            ELSE UNCHANGED <<disk, ic, lost>>
       /\ raced' = IF Overlaps(p, i) THEN raced \cup {i} ELSE raced
  /\ Become(p, [c[p] EXCEPT !.pc = "unref"])
  /\ UNCHANGED <<durable, active, file, calls>>

\* ip->ref is decremented later, without the sleep lock.
IputUnref(p) ==
  /\ At(p, "unref")
  /\ LET i == Head(c[p].puts) IN
       /\ ic' = Unref(ic, i)
       /\ raced' = IF Overlaps(p, i) \/ (ic[i].ref = 1 /\ disk.nlink[i] = 0)
                   THEN raced ELSE raced \ {i}
  /\ Become(p, [c[p] EXCEPT !.puts = Tail(c[p].puts),
                            !.pc = IF Len(c[p].puts) = 1 THEN c[p].then ELSE "iput"])
  /\ UNCHANGED <<disk, durable, active, file, lost, calls>>

-----------------------------------------------------------------------------
(* namex(): one element of the path *)

\* Where a lookup that fails goes on.
Failed(p) == IF c[p].call = "link2" THEN "link_bad" ELSE "end"

Walk(p) ==
  /\ At(p, "walk")
  /\ c[p].path # <<>>
  /\ LET i == c[p].cur   next == disk.dir[i][Head(c[p].path)] IN
       /\ CanLock(i) /\ ~NoType(i)
       /\ ~((WantsParent(p) \/ c[p].call = "link2") /\ Len(c[p].path) = 1 /\ TypeOf(i) = "dir")
       /\ IF TypeOf(i) = "dir" /\ next # None
            THEN /\ ic' = Iunlock(Iget(Ilock(ic, i, p), next), i)
                 /\ Become(p, Puts([c[p] EXCEPT !.cur = next, !.path = Tail(c[p].path)], <<i>>, "walk"))
            ELSE /\ ic' = Iunlock(Ilock(ic, i, p), i)
                 /\ Become(p, Puts(c[p], <<i>>, Failed(p)))
  /\ UNCHANGED <<disk, durable, active, file, lost, raced, calls>>

\* nameiparent() stops one level early, and namei() at the end.
WalkEnds(p) ==
  /\ At(p, "walk")
  /\ LET i == c[p].cur IN
       \/ /\ c[p].path = <<>>
          /\ Become(p, [c[p] EXCEPT !.pc = "found", !.ip = i])
          /\ UNCHANGED ic
       \/ /\ WantsParent(p) \/ c[p].call = "link2"
          /\ Len(c[p].path) = 1
          /\ CanLock(i) /\ ~NoType(i) /\ TypeOf(i) = "dir"
          /\ ic' = Iunlock(Ilock(ic, i, p), i)
          /\ Become(p, [c[p] EXCEPT !.pc = "parent"])
  /\ UNCHANGED <<disk, durable, active, file, lost, raced, calls>>

-----------------------------------------------------------------------------
(* sys_open() and create() *)

\* Looks at inode i and leaves it unlocked.
Seen(cache, i, p) == Iunlock(Ilock(cache, i, p), i)

\* open() gives the file a descriptor, if it is one and there is one.
Opens(p, i, type) ==
  IF c[p].call = "mkdir" \/ type # "file" \/ file[p] # None
  THEN Ends(p, <<i>>) /\ UNCHANGED file
  ELSE Ends(p, <<>>) /\ file' = [file EXCEPT ![p] = i]

OpenExisting(p) ==
  /\ At(p, "create_have") \/ (At(p, "found") /\ c[p].call = "open")
  /\ CanLock(c[p].ip) /\ ~NoType(c[p].ip)
  /\ ic' = Seen(ic, c[p].ip, p)
  /\ Opens(p, c[p].ip, TypeOf(c[p].ip))
  /\ UNCHANGED <<disk, durable, active, lost, raced, calls>>

AtParent(p, kinds) ==
  At(p, "parent") /\ c[p].call \in kinds /\ CanLock(c[p].cur) /\ ~NoType(c[p].cur)
Name(p) == Head(c[p].path)
Entry(p) == disk.dir[c[p].cur][Name(p)]

CreateFinds(p) ==
  /\ AtParent(p, {"create", "mkdir"})
  /\ Entry(p) # None
  /\ ic' = Iget(Seen(ic, c[p].cur, p), Entry(p))
  /\ Become(p, Puts([c[p] EXCEPT !.ip = Entry(p)], <<c[p].cur>>, "create_have"))
  /\ UNCHANGED <<disk, durable, active, file, lost, raced, calls>>

\* ialloc() takes the first inode that is free on disk.  The new inode stays
\* locked while the parent is put.
CreateNew(p) ==
  /\ AtParent(p, {"create", "mkdir"})
  /\ Entry(p) = None
  /\ \E i \in Inums :
       /\ disk.type[i] = "none"
       /\ \A j \in 1..(i - 1) : disk.type[j] # "none"
       /\ CanLock(i)
       /\ LET dp == c[p].cur
              kind == IF c[p].call = "mkdir" THEN "dir" ELSE "file"
              child == Iget(ic, i)[i]
              dots == IF kind = "dir" THEN NlinkOf(dp) + 1 ELSE NlinkOf(dp)
          IN /\ disk' = [disk EXCEPT
                  !.type[i] = IF child.valid THEN child.type ELSE kind,
                  !.nlink[i] = 1, !.nlink[dp] = dots, !.dir[dp][Name(p)] = i]
             /\ ic' = [SetNlink(Seen(ic, dp, p), dp, dots) EXCEPT
                  ![i] = [child EXCEPT !.valid = TRUE, !.nlink = 1, !.lock = p,
                          !.type = IF child.valid THEN child.type ELSE kind]]
             /\ Become(p, Puts([c[p] EXCEPT !.ip = i], <<dp>>, "created"))
  /\ UNCHANGED <<durable, active, file, lost, raced, calls>>

Created(p) ==
  /\ At(p, "created")
  /\ ic' = Iunlock(ic, c[p].ip)
  /\ Opens(p, c[p].ip, IF c[p].call = "mkdir" THEN "dir" ELSE "file")
  /\ UNCHANGED <<disk, durable, active, lost, raced, calls>>

\* writei() with bmap() and balloc() of the first free block.
Writei(p) ==
  /\ At(p, "writei")
  /\ LET i == c[p].ip IN
       /\ CanLock(i) /\ ~NoType(i)
       /\ ic' = Seen(ic, i, p)
       /\ \/ /\ Cardinality(disk.data[i]) < MaxBlocks
             /\ \E b \in Blocks \ disk.used :
                  /\ 1..(b - 1) \subseteq disk.used
                  /\ disk' = [disk EXCEPT !.data[i] = @ \cup {b}, !.used = @ \cup {b}]
          \/ Cardinality(disk.data[i]) = MaxBlocks /\ UNCHANGED disk
  /\ Ends(p, <<>>)
  /\ UNCHANGED <<durable, active, file, lost, raced, calls>>

-----------------------------------------------------------------------------
(* sys_unlink() holds the directory while it waits for the inode, and the    *)
(* inode while it puts the directory.                                        *)

UnlinkLook(p) ==
  /\ AtParent(p, {"unlink"})
  /\ IF Entry(p) = None
       THEN /\ ic' = Seen(ic, c[p].cur, p)
            /\ Ends(p, <<c[p].cur>>)
       ELSE /\ ic' = Iget(Ilock(ic, c[p].cur, p), Entry(p))
            /\ Become(p, [c[p] EXCEPT !.pc = "unlink_ip", !.ip = Entry(p)])
  /\ UNCHANGED <<disk, durable, active, file, lost, raced, calls>>

UnlinkNotEmpty(p) ==
  /\ At(p, "unlink_ip")
  /\ CanLock(c[p].ip) /\ ~NoType(c[p].ip)
  /\ TypeOf(c[p].ip) = "dir" /\ Entries(disk, c[p].ip) # {}
  /\ ic' = Seen(ic, c[p].ip, p)
  /\ Become(p, Puts(c[p], <<c[p].ip>>, "unlink_bad"))
  /\ UNCHANGED <<disk, durable, active, file, lost, raced, calls>>

UnlinkBad(p) ==
  /\ At(p, "unlink_bad")
  /\ ic' = Iunlock(ic, c[p].cur)
  /\ Ends(p, <<c[p].cur>>)
  /\ UNCHANGED <<disk, durable, active, file, lost, raced, calls>>

UnlinkEntry_NoUpdate(p) ==
  /\ At(p, "unlink_ip")
  /\ CanLock(c[p].ip) /\ ~NoType(c[p].ip)
  /\ TypeOf(c[p].ip) = "dir" => Entries(disk, c[p].ip) = {}
  /\ LET dp == c[p].cur
         dots == IF TypeOf(c[p].ip) = "dir" THEN ic[dp].nlink - 1 ELSE ic[dp].nlink
     IN /\ disk' = [disk EXCEPT !.dir[dp][Name(p)] = None]
        /\ ic' = Iunlock(SetNlink(Ilock(ic, c[p].ip, p), dp, dots), dp)
        /\ Become(p, Puts(c[p], <<dp>>, "unlink_drop"))
  /\ UNCHANGED <<durable, active, file, lost, raced, calls>>
UnlinkEntry(p) ==
  /\ At(p, "unlink_ip")
  /\ CanLock(c[p].ip) /\ ~NoType(c[p].ip)
  /\ TypeOf(c[p].ip) = "dir" => Entries(disk, c[p].ip) = {}
  /\ LET dp == c[p].cur
         dots == IF TypeOf(c[p].ip) = "dir" THEN ic[dp].nlink - 1 ELSE ic[dp].nlink
     IN /\ disk' = [disk EXCEPT !.dir[dp][Name(p)] = None, !.nlink[dp] = dots]
        /\ ic' = Iunlock(SetNlink(Ilock(ic, c[p].ip, p), dp, dots), dp)
        /\ Become(p, Puts(c[p], <<dp>>, "unlink_drop"))
  /\ UNCHANGED <<durable, active, file, lost, raced, calls>>

UnlinkDrop(p) ==
  /\ At(p, "unlink_drop")
  /\ LET i == c[p].ip   n == ic[i].nlink - 1 IN
       /\ disk' = DiskNlink(disk, i, n)
       /\ ic' = Iunlock(SetNlink(ic, i, n), i)
       /\ Ends(p, <<i>>)
  /\ UNCHANGED <<durable, active, file, lost, raced, calls>>

-----------------------------------------------------------------------------
(* sys_link() counts the link first, and takes it back if it fails *)

LinkOld_KeepsLock(p) ==
  /\ At(p, "found") /\ c[p].call = "link"
  /\ CanLock(c[p].ip) /\ ~NoType(c[p].ip)
  /\ LET i == c[p].ip   n == NlinkOf(i) + 1   locked == Ilock(ic, i, p) IN
       IF TypeOf(i) = "dir"
       THEN /\ ic' = Iunlock(locked, i)
            /\ Ends(p, <<i>>)
            /\ UNCHANGED disk
       ELSE /\ disk' = DiskNlink(disk, i, n)
            /\ ic' = Iget(SetNlink(locked, i, n), ROOT)
            /\ Become(p, [c[p] EXCEPT !.pc = "walk", !.call = "link2", !.cur = ROOT, !.path = c[p].new])
  /\ UNCHANGED <<durable, active, file, lost, raced, calls>>
LinkOld(p) ==
  /\ At(p, "found") /\ c[p].call = "link"
  /\ CanLock(c[p].ip) /\ ~NoType(c[p].ip)
  /\ LET i == c[p].ip   n == NlinkOf(i) + 1   seen == Seen(ic, i, p) IN
       IF TypeOf(i) = "dir"
       THEN /\ ic' = seen
            /\ Ends(p, <<i>>)
            /\ UNCHANGED disk
       ELSE /\ disk' = DiskNlink(disk, i, n)
            /\ ic' = Iget(SetNlink(seen, i, n), ROOT)
            /\ Become(p, [c[p] EXCEPT !.pc = "walk", !.call = "link2", !.cur = ROOT, !.path = c[p].new])
  /\ UNCHANGED <<durable, active, file, lost, raced, calls>>

LinkNew(p) ==
  /\ AtParent(p, {"link2"})
  /\ LET dp == c[p].cur IN
       IF Entry(p) = None
       THEN /\ disk' = [disk EXCEPT !.dir[dp][Name(p)] = c[p].ip]
            /\ ic' = Seen(ic, dp, p)
            /\ Ends(p, <<dp, c[p].ip>>)
       ELSE /\ ic' = Iget(Ilock(ic, dp, p), Entry(p))
            /\ Become(p, Puts(c[p], <<Entry(p)>>, "link_exists"))
            /\ UNCHANGED disk
  /\ UNCHANGED <<durable, active, file, lost, raced, calls>>

LinkExists(p) ==
  /\ At(p, "link_exists")
  /\ ic' = Iunlock(ic, c[p].cur)
  /\ Become(p, Puts(c[p], <<c[p].cur>>, "link_bad"))
  /\ UNCHANGED <<disk, durable, active, file, lost, raced, calls>>

LinkBad_Keeps(p) ==
  /\ At(p, "link_bad")
  /\ CanLock(c[p].ip)
  /\ ic' = Seen(ic, c[p].ip, p)
  /\ Ends(p, <<c[p].ip>>)
  /\ UNCHANGED <<disk, durable, active, file, lost, raced, calls>>
LinkBad(p) ==
  /\ At(p, "link_bad")
  /\ CanLock(c[p].ip)
  /\ LET i == c[p].ip   n == ic[i].nlink - 1 IN
       /\ disk' = DiskNlink(disk, i, n)
       /\ ic' = SetNlink(Seen(ic, i, p), i, n)
       /\ Ends(p, <<i>>)
  /\ UNCHANGED <<durable, active, file, lost, raced, calls>>

-----------------------------------------------------------------------------
\* Memory is lost, and with it the references that kept unlinked files alive.
Crash ==
  /\ Crashes
  /\ disk' = durable
  /\ active' = {}
  /\ ic' = [i \in Inums |-> Unused]
  /\ c' = [p \in Procs |-> Idle]
  /\ file' = [p \in Procs |-> None]
  /\ lost' = {i \in Inums : durable.type[i] # "none" /\ (i \in lost \/ durable.nlink[i] = 0)}
  /\ raced' = {}
  /\ UNCHANGED <<durable, calls>>

Open(p) == OpenExisting(p) \/ CreateFinds(p) \/ CreateNew(p) \/ Created(p)
Unlink(p) == UnlinkLook(p) \/ UnlinkNotEmpty(p) \/ UnlinkBad(p) \/ UnlinkEntry(p) \/ UnlinkDrop(p)
Link(p) == LinkOld(p) \/ LinkNew(p) \/ LinkExists(p) \/ LinkBad(p)

Next ==
  \/ \E p \in Procs :
       \/ \E path \in Paths : \/ \E call \in {"open", "create", "mkdir", "unlink"} :
                                   Call(p, call, path, <<>>)
                              \/ \E new \in Paths : Call(p, "link", path, new)
       \/ Walk(p) \/ WalkEnds(p) \/ Iput(p) \/ IputUnref(p) \/ EndOp(p)
       \/ Open(p) \/ Write(p) \/ Writei(p) \/ Close(p) \/ Unlink(p) \/ Link(p)
  \/ Crash

Spec == Init /\ [][Next]_vars

-----------------------------------------------------------------------------
Disks ==
  [type : [Inums -> {"none", "dir", "file"}], nlink : [Inums -> Nat],
   dir : [Inums -> [Names -> Inums \cup {None}]],
   data : [Inums -> SUBSET Blocks], used : SUBSET Blocks]

TypeOK ==
  /\ disk \in Disks /\ durable \in Disks
  /\ active \subseteq Procs /\ lost \subseteq Inums
  /\ ic \in [Inums -> [ref : Nat, valid : BOOLEAN, lock : Procs \cup {Nobody},
                       type : {"none", "dir", "file"}, nlink : Nat]]
  /\ file \in [Procs -> Inums \cup {None}]
  /\ \A p \in Procs : c[p].pc # "idle" <=> p \in active

\* The place p is at, or comes to after its iput()s.
Place(p) == IF c[p].pc \in {"iput", "unref"} THEN c[p].then ELSE c[p].pc
HoldsCur(p) == Place(p) \in {"walk", "parent", "unlink_ip", "unlink_bad", "link_exists"}
HoldsIp(p) ==
  \/ Place(p) \in {"found", "create_have", "created", "unlink_ip", "unlink_drop"}
  \/ c[p].call = "link2" /\ Place(p) # "end"
References(p, i) ==
  Cardinality({x \in 1..Len(c[p].puts) : c[p].puts[x] = i})
  + (IF HoldsCur(p) /\ c[p].cur = i THEN 1 ELSE 0)
  + (IF HoldsIp(p) /\ c[p].ip = i THEN 1 ELSE 0)
  + (IF file[p] = i THEN 1 ELSE 0)

\* ip->ref is the number of pointers to the inode, in open files and in calls
\* that are half way, on every path through the calls and their failures
\* (fs.c:122-127): a cache entry is never recycled under somebody's feet.
RefsExact ==
  \A i \in Inums : ic[i].ref = FoldFunction(+, 0, [p \in Procs |-> References(p, i)])

\* A valid entry of the inode cache agrees with the disk, also when ialloc()
\* writes the inode past the cache (fs.c:129-133, 205).
CacheCoherent ==
  \A i \in Inums : ic[i].ref > 0 /\ ic[i].valid =>
    ic[i].type = disk.type[i] /\ ic[i].nlink = disk.nlink[i]

\* The entries that name an inode, and for a directory the ".." of its children.
Links(d, i) ==
  Cardinality({x \in Inums \X Names : d.dir[x[1]][x[2]] = i})
  + Cardinality({n \in Names : d.dir[i][n] # None /\ d.type[d.dir[i][n]] = "dir"})
  + (IF i = ROOT THEN 1 ELSE 0)

\* Every name leads to an inode in use, the link counts are the numbers of names,
\* and the bitmap marks the blocks of the files, each in one file.
Consistent(d, exempt) ==
  /\ \A i \in Inums, n \in Names :
       d.dir[i][n] # None => d.type[i] = "dir" /\ d.type[d.dir[i][n]] # "none"
  /\ \A i \in Inums \ exempt : d.type[i] # "none" => d.nlink[i] = Links(d, i)
  /\ d.used = UNION {d.data[i] : i \in Inums}
  /\ \A i, j \in Inums : i # j => d.data[i] \cap d.data[j] = {}
  /\ \A i \in Inums : d.data[i] # {} => d.type[i] # "none"

\* Names lead down: every directory is below the one that names it.
IsTree(d) ==
  \E depth \in [Inums -> Inums] :
    \A i \in Inums, n \in Names :
      d.dir[i][n] # None => depth[i] < depth[d.dir[i][n]]

\* What mkfs or a clean run of the kernel has left: a tree below the root, and no
\* inode without a name.
ASSUME ImagesAssumption ==
  \A d \in Images :
    /\ d \in Disks /\ Consistent(d, {}) /\ IsTree(d)
    /\ d.type[ROOT] = "dir"
    /\ \A i \in Inums : d.type[i] # "none" => d.nlink[i] > 0

\* After a crash at any moment the disk is consistent.  Inodes nothing leads to
\* are the exception: those created in a directory that was being removed.
DurableConsistent == Consistent(durable, lost)

\* An open file keeps its inode and content whatever is unlinked (fs.c:328).
OpenFilesExist == \A p \in Procs : file[p] # None => disk.type[file[p]] = "file"

Kept(i) == disk.type[i] # "none" /\ disk.nlink[i] = 0 /\ ic[i].ref = 0

\* "If that was the last reference and the inode has no links to it, free the
\* inode (and its content) on disk." (fs.c:327)  A crash may come before that.
UnlinkedIsFreed == \A i \in Inums : Kept(i) => i \in lost

\* What that leaves: of two iput()s that overlap the first can look at
\* ip->nlink before the last link goes, and the second at ip->ref while the
\* first still counts (fs.c:331-347).  Nothing else keeps an unlinked file.
OnlyRacedIsKept == \A i \in Inums : Kept(i) => i \in lost \cup raced

\* No call meets an inode that is free ("ilock: no type") or has no link left
\* to take away ("unlink: nlink < 1").
NoPanic == \A p \in Procs :
  /\ (At(p, "walk") /\ c[p].path # <<>>) \/ At(p, "parent") => ~NoType(c[p].cur)
  /\ c[p].pc \in {"found", "create_have", "unlink_ip", "writei"} => ~NoType(c[p].ip)
  /\ At(p, "unlink_ip") /\ CanLock(c[p].ip) => NlinkOf(c[p].ip) >= 1

\* The inode whose sleep lock p takes next.
NeedsLock(p) ==
  CASE At(p, "iput") -> {Head(c[p].puts)}
    [] At(p, "parent") \/ (At(p, "walk") /\ c[p].path # <<>>) -> {c[p].cur}
    [] c[p].pc \in {"found", "create_have", "unlink_ip", "writei", "link_bad"} -> {c[p].ip}
    [] OTHER -> {}

\* p waits for its directory and holds the inode it has created or unlinked.
WaitsForParent(p) ==
  At(p, "iput") /\ c[p].then \in {"created", "unlink_drop"} /\ NeedsLock(p) = {c[p].cur}

\* Lookup and locking are separate to avoid deadlock (fs.c:149): calls wait for
\* one another's inodes only when one of them is create() or unlink(), which put
\* the directory with the inode below it locked (sysfile.c:209, 280).
OnlyParentDeadlock ==
  \A S \in (SUBSET Procs) \ {{}} :
    (\A p \in S : \E i \in NeedsLock(p) : ic[i].lock \in S) => \E p \in S : WaitsForParent(p)

\* Pointers, cache and disk agree while calls are half way: counts are the
\* pointers, valid entries are the disk's, open files exist.
FsInv == TypeOK /\ RefsExact /\ CacheCoherent /\ OpenFilesExist
=============================================================================
