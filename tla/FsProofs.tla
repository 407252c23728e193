------------------------------ MODULE FsProofs ------------------------------
(***************************************************************************)
(* Theorems about Fs: the counts of the inode cache are the pointers, the  *)
(* cache agrees with the disk, no call panics, a crash leaves a consistent *)
(* file system, an unlinked file is kept only by overlapping iput()s, and  *)
(* calls deadlock only through a directory put with its inode locked; for  *)
(* any number of processes, inodes, names and blocks.                      *)
(*                                                                         *)
(* The inductive invariant IInv says where a call can be and what it has   *)
(* there (Control), what it relies on while others run (Relies), that its  *)
(* pointers keep inodes in use (HeldIsUsed), and what the link counts are  *)
(* while calls have changed a name and not yet the count (Owed).  Each     *)
(* action has two lemmas: ...Step for what it does to its process and the  *)
(* cache, ...Kept for the names, counts and blocks.                        *)
(***************************************************************************)
EXTENDS Fs, SumProofs, FiniteSetTheorems, TLAPS

-----------------------------------------------------------------------------
(* The inductive invariant *)

Kinds == {"none", "dir", "file"}
CacheEntries ==
  [ref : Nat, valid : BOOLEAN, lock : Procs \cup {Nobody}, type : Kinds, nlink : Nat]

Pcs == {"idle", "walk", "found", "parent", "create_have", "created", "writei", "unlink_ip",
        "unlink_bad", "unlink_drop", "link_exists", "link_bad", "iput", "unref", "end"}
Thens == {"walk", "create_have", "created", "unlink_bad", "unlink_drop", "link_exists",
          "link_bad", "end"}
Calls == {"none", "open", "create", "mkdir", "unlink", "link", "link2"}
Frames ==
  [pc : Pcs, call : Calls, path : Seq(Names), new : Seq(Names),
   cur : Inums \cup {None}, ip : Inums \cup {None}, puts : Seq(Inums), then : Thens \cup {"idle"}]

Types ==
  /\ disk \in Disks /\ durable \in Disks
  /\ active \subseteq Procs /\ lost \subseteq Inums
  /\ ic \in [Inums -> CacheEntries]
  /\ c \in [Procs -> Frames]
  /\ file \in [Procs -> Inums \cup {None}]

\* The inodes a call still has to put.
Putting(p) == c[p].pc \in {"iput", "unref"}
PutsShape(p) ==
  IF Putting(p)
  THEN \/ \E a \in Inums : c[p].puts = <<a>>
       \/ \E a, b \in Inums : c[p].puts = <<a, b>>
  ELSE c[p].puts = <<>>

\* Which call comes to which place, and what it has there.
Control(p) ==
  /\ c[p].pc # "idle" <=> p \in active
  /\ c[p].pc = "idle" => c[p] = Idle
  /\ PutsShape(p)
  /\ Putting(p) => c[p].then \in Thens
  /\ HoldsCur(p) => c[p].cur # None
  /\ HoldsIp(p) => c[p].ip # None
  /\ c[p].pc = "writei" => c[p].ip # None /\ c[p].ip = file[p]
  /\ Place(p) \in {"idle", "writei"} => c[p].call = "none"
  /\ Place(p) = "walk" => c[p].call # "none" /\ (c[p].call = "link2" => c[p].path # <<>>)
  /\ Place(p) = "parent" => c[p].call \in {"create", "mkdir", "unlink", "link2"}
  /\ Place(p) = "found" => c[p].call # "link2"
  /\ c[p].call = "link" => c[p].new # <<>>
  /\ Place(p) \in {"create_have", "created"} => c[p].call \in {"create", "mkdir"}
  /\ Place(p) \in {"unlink_ip", "unlink_bad", "unlink_drop"} => c[p].call = "unlink"
  /\ Place(p) \in {"link_exists", "link_bad"} => c[p].call = "link2"
  /\ Place(p) = "end" => c[p].call # "link2"

\* Where a call has its directory, and where it has it locked.
AtDirectory == {"parent", "unlink_ip", "unlink_bad", "link_exists"}
LocksCur == {"unlink_ip", "unlink_bad", "link_exists"}
LocksIp == {"created", "unlink_drop"}
Locked(p, i) ==
  \/ Place(p) \in LocksCur /\ c[p].cur = i
  \/ Place(p) \in LocksIp /\ c[p].ip = i

\* What a call relies on while others run.
Relies(p) ==
  /\ Place(p) \in AtDirectory => Len(c[p].path) = 1 /\ disk.type[c[p].cur] = "dir"
  /\ Place(p) \in {"unlink_ip", "unlink_bad"} => Entry(p) = c[p].ip
  /\ Place(p) = "created" => disk.type[c[p].ip] = IF c[p].call = "mkdir" THEN "dir" ELSE "file"
  /\ c[p].call = "link2" => disk.type[c[p].ip] = "file" /\ ic[c[p].ip].valid
  /\ file[p] # None => disk.type[file[p]] = "file"
  /\ Putting(p) /\ c[p].then \in LocksIp => c[p].puts = <<c[p].cur>>
  /\ Putting(p) /\ c[p].then = "unlink_bad" => c[p].puts = <<c[p].ip>>
  /\ Putting(p) /\ c[p].then = "link_exists" => c[p].puts = <<Entry(p)>>

LocksExact == \A i \in Inums, p \in Procs : ic[i].lock = p <=> Locked(p, i)

\* A pointer that the call has not begun to put back keeps its inode in use.
Holds(p, i) ==
  \/ HoldsCur(p) /\ c[p].cur = i
  \/ HoldsIp(p) /\ c[p].ip = i
  \/ file[p] = i
  \/ \E x \in 1..Len(c[p].puts) : c[p].puts[x] = i /\ ~(c[p].pc = "unref" /\ x = 1)
HeldIsUsed == \A p \in Procs, i \in Inums : Holds(p, i) => disk.type[i] # "none"

CacheHonest ==
  \A i \in Inums :
    /\ ic[i].ref = 0 => ic[i] = Unused
    /\ ic[i].valid => /\ ic[i].type = disk.type[i] /\ ic[i].nlink = disk.nlink[i]
                      /\ disk.type[i] # "none"
    /\ ic[i].lock # Nobody => ic[i].valid
    /\ ic[i].ref > 0 /\ disk.nlink[i] = 0 /\ disk.type[i] # "none" => ic[i].valid

\* Names and blocks, on disk and in what a crash leaves.
Named(d) ==
  /\ d.type[ROOT] = "dir"
  /\ \A i \in Inums, n \in Names :
       d.dir[i][n] # None => d.type[i] = "dir" /\ d.type[d.dir[i][n]] # "none"
  /\ d.used = UNION {d.data[i] : i \in Inums}
  /\ \A i, j \in Inums : i # j => d.data[i] \cap d.data[j] = {}
  /\ \A i \in Inums : d.data[i] # {} => d.type[i] # "none"
Descends(d) ==
  \E depth \in [Inums -> Nat] :
    \A i \in Inums, n \in Names :
      d.dir[i][n] # None => depth[i] < depth[d.dir[i][n]]

\* A call that has changed a name and not yet the count, or the count first.
Owes(p, i) == c[p].ip = i /\ (Place(p) = "unlink_drop" \/ c[p].call = "link2")
Owed(i) == Cardinality({p \in Procs : Owes(p, i)})
LinksCounted ==
  \A i \in Inums :
    /\ disk.nlink[i] >= Links(disk, i) + Owed(i)
    /\ i \notin lost /\ disk.type[i] # "none" => disk.nlink[i] = Links(disk, i) + Owed(i)
DurableCounted ==
  \A i \in Inums :
    /\ durable.nlink[i] >= Links(durable, i)
    /\ i \notin lost /\ durable.type[i] # "none" => durable.nlink[i] = Links(durable, i)

\* An inode without links, to which only iput()s that have already looked point.
Forgotten(i) ==
  /\ disk.type[i] # "none" /\ disk.nlink[i] = 0
  /\ \A p \in Procs : ~Holds(p, i)
ForgottenIsRaced == \A i \in Inums : Forgotten(i) => i \in lost \cup raced

AllControl == \A p \in Procs : Control(p)
AllRely == \A p \in Procs : Relies(p)

IInv ==
  /\ Types /\ AllControl /\ AllRely
  /\ RefsExact /\ LocksExact /\ HeldIsUsed /\ CacheHonest
  /\ Named(disk) /\ Named(durable) /\ Descends(disk) /\ Descends(durable)
  /\ LinksCounted /\ DurableCounted
  /\ ForgottenIsRaced

-----------------------------------------------------------------------------
(* References *)

\* The constants.
LEMMA Sizes ==
  /\ IsFiniteSet(Procs) /\ IsFiniteSet(Names) /\ IsFiniteSet(Inums)
  /\ ROOT \in Inums /\ None \notin Inums /\ None = 0 /\ ROOT = 1
  /\ \A i \in Inums : i \in Nat /\ i > 0
  /\ NInode \in Nat /\ Nobody \notin Procs /\ Paths \subseteq Seq(Names) \ {<<>>}
<1>1. NInode \in Nat /\ NInode > 0
  BY FsAssumption
<1>2. IsFiniteSet(1..NInode)
  BY <1>1, FS_Interval
<1>. QED BY <1>1, <1>2, FsAssumption DEF Inums, ROOT, None

\* How often an inode stands in a sequence of at most two.
Count(s, i) == Cardinality({x \in 1..Len(s) : s[x] = i})
\* What Count is of a sequence of none, one and two inodes.
LEMMA CountIs ==
  ASSUME NEW i, NEW a, NEW b
  PROVE  /\ Count(<<>>, i) = 0
         /\ Count(<<a>>, i) = IF a = i THEN 1 ELSE 0
         /\ Count(<<a, b>>, i) = (IF a = i THEN 1 ELSE 0) + (IF b = i THEN 1 ELSE 0)
<1>1. Count(<<>>, i) = 0
  <2>1. {x \in 1..Len(<<>>) : <<>>[x] = i} = {}
    OBVIOUS
  <2>. QED BY <2>1, FS_EmptySet DEF Count
<1>2. Count(<<a>>, i) = IF a = i THEN 1 ELSE 0
  <2>1. {x \in 1..Len(<<a>>) : <<a>>[x] = i} = IF a = i THEN {1} ELSE {}
    OBVIOUS
  <2>. QED BY <2>1, FS_EmptySet, FS_Singleton DEF Count
<1>3. Count(<<a, b>>, i) = (IF a = i THEN 1 ELSE 0) + (IF b = i THEN 1 ELSE 0)
  <2> DEFINE S == {x \in 1..Len(<<a, b>>) : <<a, b>>[x] = i}
  <2>1. \A x : x \in S <=> (x = 1 /\ a = i) \/ (x = 2 /\ b = i)
    OBVIOUS
  <2>2. Count(<<a, b>>, i) = Cardinality(S)
    BY DEF Count
  <2> HIDE DEF S
  <2>3. Cardinality({1, 2}) = 2
    <3>1. {1, 2} = {1} \cup {2} /\ 2 \notin {1} /\ IsFiniteSet({1}) /\ Cardinality({1}) = 1
      BY FS_Singleton
    <3>. QED BY <3>1, FS_AddElement
  <2>4. CASE a = i /\ b = i
    <3>1. S = {1, 2}
      BY <2>1, <2>4
    <3>. QED BY <2>2, <2>3, <2>4, <3>1
  <2>5. CASE a = i /\ b # i
    <3>1. S = {1}
      BY <2>1, <2>5
    <3>2. Cardinality(S) = 1
      BY <3>1, FS_Singleton
    <3>. QED BY <2>2, <2>5, <3>2
  <2>6. CASE a # i /\ b = i
    <3>1. S = {2}
      BY <2>1, <2>6
    <3>2. Cardinality(S) = 1
      BY <3>1, FS_Singleton
    <3>. QED BY <2>2, <2>6, <3>2
  <2>7. CASE a # i /\ b # i
    <3>1. S = {}
      BY <2>1, <2>7
    <3>. QED BY <2>2, <2>7, <3>1, FS_EmptySet
  <2>. QED BY <2>4, <2>5, <2>6, <2>7
<1>. QED BY <1>1, <1>2, <1>3

\* The references of a process by their places.
LEMMA ReferencesAre ==
  ASSUME NEW p \in Procs, NEW i \in Inums
  PROVE  References(p, i) = ((Count(c[p].puts, i)
           + (IF HoldsCur(p) /\ c[p].cur = i THEN 1 ELSE 0))
           + (IF HoldsIp(p) /\ c[p].ip = i THEN 1 ELSE 0))
           + (IF file[p] = i THEN 1 ELSE 0)
BY DEF References, Count

\* The first inode of an iput() that has looked at it.
Looked(p, i) == c[p].pc = "unref" /\ Head(c[p].puts) = i

\* A reference is one that keeps the inode, or one an iput() is done with.
LEMMA ReferenceIs ==
  ASSUME NEW p \in Procs, NEW i \in Inums, Control(p)
  PROVE  /\ References(p, i) \in Nat
         /\ References(p, i) > 0 <=> Holds(p, i) \/ Looked(p, i)
         /\ References(p, i) = 1 /\ Looked(p, i) => ~Holds(p, i)
         /\ Looked(p, i) /\ ~Holds(p, i) => References(p, i) = 1
<1> DEFINE s == c[p].puts
           C == Count(s, i)
<1>1. \/ s = <<>> /\ ~Putting(p)
      \/ Putting(p) /\ \E a \in Inums : s = <<a>>
      \/ Putting(p) /\ \E a, b \in Inums : s = <<a, b>>
  BY DEF Control, PutsShape
<1> DEFINE More == \E x \in 1..Len(s) : s[x] = i /\ ~(c[p].pc = "unref" /\ x = 1)
<1>2. /\ C \in Nat
      /\ C > 0 <=> More \/ Looked(p, i)
      /\ C = 1 /\ Looked(p, i) => ~More
      /\ Looked(p, i) => C >= 1
      /\ Looked(p, i) /\ ~More => C = 1
  <2>1. CASE s = <<>> /\ ~Putting(p)
    <3>1. C = 0 /\ ~Looked(p, i)
      BY <2>1, CountIs DEF Looked, Putting
    <3>. QED BY <2>1, <3>1
  <2>2. CASE \E a \in Inums : s = <<a>>
    <3>1. PICK a \in Inums : s = <<a>>
      BY <2>2
    <3>2. C = IF a = i THEN 1 ELSE 0
      BY <3>1, CountIs
    <3>3. Looked(p, i) <=> c[p].pc = "unref" /\ a = i
      BY <3>1 DEF Looked
    <3>4. More <=> a = i /\ c[p].pc # "unref"
      BY <3>1
    <3> HIDE DEF More, C
    <3>. QED BY <3>2, <3>3, <3>4
  <2>3. CASE \E a, b \in Inums : s = <<a, b>>
    <3>1. PICK a \in Inums, b \in Inums : s = <<a, b>>
      BY <2>3
    <3>2. C = (IF a = i THEN 1 ELSE 0) + (IF b = i THEN 1 ELSE 0)
      <4>1. Count(<<a, b>>, i) = (IF a = i THEN 1 ELSE 0) + (IF b = i THEN 1 ELSE 0)
        BY CountIs
      <4>. QED BY <3>1, <4>1
    <3>3. Looked(p, i) <=> c[p].pc = "unref" /\ a = i
      BY <3>1 DEF Looked
    <3>4. More <=> b = i \/ (a = i /\ c[p].pc # "unref")
      BY <3>1
    <3> HIDE DEF More, C
    <3>. QED BY <3>2, <3>3, <3>4
  <2>. QED BY <1>1, <2>1, <2>2, <2>3
<1>3. Holds(p, i) <=> \/ HoldsCur(p) /\ c[p].cur = i
                      \/ HoldsIp(p) /\ c[p].ip = i
                      \/ file[p] = i
                      \/ More
  BY DEF Holds
<1>4. References(p, i) = ((C + (IF HoldsCur(p) /\ c[p].cur = i THEN 1 ELSE 0))
           + (IF HoldsIp(p) /\ c[p].ip = i THEN 1 ELSE 0))
           + (IF file[p] = i THEN 1 ELSE 0)
  BY ReferencesAre
<1> HIDE DEF More, C
<1>. QED BY <1>2, <1>3, <1>4

\* Their numbers, also in the next state.
RefsAreNat == \A p \in Procs, i \in Inums : References(p, i) \in Nat
\* The references a process has to an inode are a number.
LEMMA ReferencesAreNat == AllControl => RefsAreNat
BY ReferenceIs DEF AllControl, RefsAreNat

\* The sum of RefsExact.
Everybody(i) == [p \in Procs |-> References(p, i)]
\* RefsExact says that the count is the sum of what everybody refers to.
LEMMA RefsAre ==
  RefsExact <=> \A i \in Inums : ic[i].ref = SumFunctionOnSet(Everybody(i), Procs)
<1>1. \A i : DOMAIN Everybody(i) = Procs
  BY DEF Everybody
<1>. QED BY <1>1 DEF RefsExact, SumFunctionOnSet, FoldFunction, Everybody

\* Whose references they are: nobody's, or the only one's.
LEMMA WhoRefers ==
  ASSUME RefsExact, AllControl, NEW i \in Inums, NEW p \in Procs
  PROVE  /\ ic[i].ref \in Nat
         /\ References(p, i) <= ic[i].ref
         /\ ic[i].ref = 1 /\ References(p, i) > 0 =>
              References(p, i) = 1 /\ \A q \in Procs \ {p} : References(q, i) = 0
<1> DEFINE f == Everybody(i)
<1>1. \A q \in Procs : f[q] = References(q, i) /\ f[q] \in Nat
  BY ReferenceIs DEF Everybody, AllControl
<1>2. ic[i].ref = SumFunctionOnSet(f, Procs)
  BY RefsAre
<1> HIDE DEF f
<1>3. IsFiniteSet(Procs) /\ IsFiniteSet(Procs \ {p})
  BY Sizes, FS_Subset
<1>4. /\ SumFunctionOnSet(f, Procs) = f[p] + SumFunctionOnSet(f, Procs \ {p})
      /\ SumFunctionOnSet(f, Procs \ {p}) \in Nat
  BY <1>1, <1>3, SumWithout, SumIsNat
<1>5. ASSUME NEW q \in Procs \ {p}
      PROVE  f[q] <= SumFunctionOnSet(f, Procs \ {p})
  <2>1. IsFiniteSet((Procs \ {p}) \ {q})
    BY <1>3, FS_Subset
  <2>2. /\ SumFunctionOnSet(f, Procs \ {p}) = f[q] + SumFunctionOnSet(f, (Procs \ {p}) \ {q})
        /\ SumFunctionOnSet(f, (Procs \ {p}) \ {q}) \in Nat
    BY <1>1, <1>3, <2>1, SumWithout, SumIsNat
  <2>. QED BY <1>1, <2>2
<1>. QED BY <1>1, <1>2, <1>4, <1>5

\* A step that gives and takes references where it changes the counts.
Accounts(p) ==
  \A i \in Inums : References(p, i)' + ic[i].ref = References(p, i) + ic'[i].ref
\* A step of one process, with the counts it changes by its own references, keeps
\* RefsExact.
LEMMA RefsKept ==
  ASSUME RefsExact, AllControl, AllControl', NEW p \in Procs, Accounts(p),
         \A q \in Procs \ {p} : c'[q] = c[q] /\ file'[q] = file[q],
         \A i \in Inums : ic'[i].ref \in Nat
  PROVE  RefsExact'
<1>1. ASSUME NEW i \in Inums
      PROVE  ic'[i].ref = SumFunctionOnSet(Everybody(i)', Procs)
  <2> DEFINE f == Everybody(i)
             g == Everybody(i)'
  <2>1. \A q \in Procs : f[q] = References(q, i) /\ f[q] \in Nat
    BY ReferenceIs DEF Everybody, AllControl
  <2>2. \A q \in Procs : g[q] = References(q, i)' /\ g[q] \in Nat
    <3>1. AllControl' => RefsAreNat'
      BY ReferencesAreNat, PTL
    <3>2. RefsAreNat'
      BY <3>1
    <3>. QED BY <3>2 DEF Everybody, RefsAreNat
  <2>3. ASSUME NEW q \in Procs \ {p} PROVE References(q, i)' = References(q, i)
    <3>1. c'[q] = c[q] /\ file'[q] = file[q]
      OBVIOUS
    <3>2. Place(q)' = Place(q)
      BY <3>1 DEF Place
    <3>3. (HoldsCur(q)' <=> HoldsCur(q)) /\ (HoldsIp(q)' <=> HoldsIp(q))
      BY <3>1, <3>2 DEF HoldsCur, HoldsIp
    <3>. QED BY <3>1, <3>3 DEF References
  <2>4. ic[i].ref = SumFunctionOnSet(f, Procs) /\ ic[i].ref \in Nat
    BY RefsAre, WhoRefers
  <2>5. f[p] \in Nat /\ g[p] \in Nat /\ g[p] + ic[i].ref = f[p] + ic'[i].ref
    BY <2>1, <2>2 DEF Accounts
  <2>6. \A q \in Procs \ {p} : g[q] = f[q]
    BY <2>1, <2>2, <2>3
  <2> HIDE DEF f, g
  <2>7. SumFunctionOnSet(g, Procs) = (SumFunctionOnSet(f, Procs) - f[p]) + g[p]
    BY <2>1, <2>2, <2>6, Sizes, SumUpdate
  <2>8. ic'[i].ref = SumFunctionOnSet(g, Procs)
    BY <2>4, <2>5, <2>7
  <2>. QED BY <2>8 DEF g
<1>2. (RefsExact <=> \A i \in Inums : ic[i].ref = SumFunctionOnSet(Everybody(i), Procs))'
  BY RefsAre, PTL
<1>. QED BY <1>1, <1>2

\* What is neither held nor looked at has no reference.
NoneHeld ==
  \A p \in Procs, i \in Inums : ~Holds(p, i) /\ ~Looked(p, i) => References(p, i) = 0
\* What a process neither holds nor is done with, it does not refer to.
LEMMA NothingHeld == AllControl => NoneHeld
BY ReferenceIs DEF AllControl, NoneHeld

-----------------------------------------------------------------------------
(* What the operators on the inode cache do to its fields *)

\* iget() takes a reference; the entry stays valid if somebody had one.
LEMMA IgetIs ==
  ASSUME NEW cache \in [Inums -> CacheEntries], NEW i \in Inums
  PROVE  /\ Iget(cache, i) \in [Inums -> CacheEntries]
         /\ \A j \in Inums : j # i => Iget(cache, i)[j] = cache[j]
         /\ Iget(cache, i)[i].ref = cache[i].ref + 1
         /\ Iget(cache, i)[i].valid <=> cache[i].valid /\ cache[i].ref > 0
         /\ Iget(cache, i)[i].lock = cache[i].lock
         /\ Iget(cache, i)[i].type = cache[i].type
         /\ Iget(cache, i)[i].nlink = cache[i].nlink
<1>1. cache[i] \in CacheEntries /\ cache[i].ref \in Nat /\ cache[i].ref + 1 \in Nat
  BY DEF CacheEntries
<1>2. CASE cache[i].ref > 0
  <2>1. Iget(cache, i) = [cache EXCEPT ![i] = [cache[i] EXCEPT !.ref = cache[i].ref + 1]]
    BY <1>1, <1>2 DEF Iget, CacheEntries
  <2>2. [cache[i] EXCEPT !.ref = cache[i].ref + 1] \in CacheEntries
    BY <1>1 DEF CacheEntries
  <2>. QED BY <1>1, <1>2, <2>1, <2>2 DEF CacheEntries
<1>3. CASE ~(cache[i].ref > 0)
  <2>1. Iget(cache, i) =
          [cache EXCEPT ![i] = [cache[i] EXCEPT !.ref = cache[i].ref + 1, !.valid = FALSE]]
    BY <1>1, <1>3 DEF Iget, CacheEntries
  <2>2. [cache[i] EXCEPT !.ref = cache[i].ref + 1, !.valid = FALSE] \in CacheEntries
    BY <1>1 DEF CacheEntries
  <2>. QED BY <1>1, <1>3, <2>1, <2>2 DEF CacheEntries
<1>. QED BY <1>2, <1>3

\* iunlock() only gives the lock back.
LEMMA IunlockIs ==
  ASSUME NEW cache \in [Inums -> CacheEntries], NEW i \in Inums
  PROVE  /\ Iunlock(cache, i) \in [Inums -> CacheEntries]
         /\ \A j \in Inums : j # i => Iunlock(cache, i)[j] = cache[j]
         /\ Iunlock(cache, i)[i] = [cache[i] EXCEPT !.lock = Nobody]
         /\ Iunlock(cache, i)[i].ref = cache[i].ref
         /\ Iunlock(cache, i)[i].valid = cache[i].valid
         /\ Iunlock(cache, i)[i].lock = Nobody
         /\ Iunlock(cache, i)[i].type = cache[i].type
         /\ Iunlock(cache, i)[i].nlink = cache[i].nlink
BY DEF Iunlock, CacheEntries

\* A change of nlink changes only that.
LEMMA SetNlinkIs ==
  ASSUME NEW cache \in [Inums -> CacheEntries], NEW i \in Inums, NEW n \in Nat
  PROVE  /\ SetNlink(cache, i, n) \in [Inums -> CacheEntries]
         /\ \A j \in Inums : j # i => SetNlink(cache, i, n)[j] = cache[j]
         /\ SetNlink(cache, i, n)[i].ref = cache[i].ref
         /\ SetNlink(cache, i, n)[i].valid = cache[i].valid
         /\ SetNlink(cache, i, n)[i].lock = cache[i].lock
         /\ SetNlink(cache, i, n)[i].type = cache[i].type
         /\ SetNlink(cache, i, n)[i].nlink = n
BY DEF SetNlink, CacheEntries

\* ilock() locks the entry and reads the inode from disk if it was not valid.
LEMMA IlockIs ==
  ASSUME NEW cache \in [Inums -> CacheEntries], NEW i \in Inums, NEW p \in Procs, disk \in Disks
  PROVE  /\ Ilock(cache, i, p) \in [Inums -> CacheEntries]
         /\ \A j \in Inums : j # i => Ilock(cache, i, p)[j] = cache[j]
         /\ Ilock(cache, i, p)[i].ref = cache[i].ref
         /\ Ilock(cache, i, p)[i].valid
         /\ Ilock(cache, i, p)[i].lock = p
         /\ Ilock(cache, i, p)[i].type = IF cache[i].valid THEN cache[i].type ELSE disk.type[i]
         /\ Ilock(cache, i, p)[i].nlink = IF cache[i].valid THEN cache[i].nlink ELSE disk.nlink[i]
<1>1. disk.type[i] \in Kinds /\ disk.nlink[i] \in Nat
  BY DEF Disks, Kinds
<1>2. CASE cache[i].valid
  BY <1>2 DEF Ilock, CacheEntries
<1>3. CASE ~cache[i].valid
  BY <1>1, <1>3 DEF Ilock, CacheEntries
<1>. QED BY <1>2, <1>3

\* ilock() and iunlock() leave a valid entry.
LEMMA SeenIs ==
  ASSUME NEW cache \in [Inums -> CacheEntries], NEW i \in Inums, NEW p \in Procs, disk \in Disks
  PROVE  /\ Seen(cache, i, p) \in [Inums -> CacheEntries]
         /\ \A j \in Inums : j # i => Seen(cache, i, p)[j] = cache[j]
         /\ Seen(cache, i, p)[i].ref = cache[i].ref
         /\ Seen(cache, i, p)[i].valid
         /\ Seen(cache, i, p)[i].lock = Nobody
         /\ Seen(cache, i, p)[i].type = IF cache[i].valid THEN cache[i].type ELSE disk.type[i]
         /\ Seen(cache, i, p)[i].nlink = IF cache[i].valid THEN cache[i].nlink ELSE disk.nlink[i]
<1> DEFINE k == Ilock(cache, i, p)
<1>1. /\ k \in [Inums -> CacheEntries] /\ \A j \in Inums : j # i => k[j] = cache[j]
      /\ k[i].ref = cache[i].ref /\ k[i].valid
      /\ k[i].type = IF cache[i].valid THEN cache[i].type ELSE disk.type[i]
      /\ k[i].nlink = IF cache[i].valid THEN cache[i].nlink ELSE disk.nlink[i]
  BY IlockIs
<1>2. Seen(cache, i, p) = Iunlock(k, i)
  BY DEF Seen
<1> HIDE DEF k
<1>3. /\ Iunlock(k, i) \in [Inums -> CacheEntries]
      /\ \A j \in Inums : j # i => Iunlock(k, i)[j] = k[j]
      /\ Iunlock(k, i)[i].ref = k[i].ref /\ Iunlock(k, i)[i].valid = k[i].valid
      /\ Iunlock(k, i)[i].lock = Nobody /\ Iunlock(k, i)[i].type = k[i].type
      /\ Iunlock(k, i)[i].nlink = k[i].nlink
  <2>1. k \in [Inums -> CacheEntries]
    BY <1>1
  <2>. QED BY <2>1, IunlockIs
<1> DEFINE s == Iunlock(k, i)
<1> HIDE DEF s
<1>4. Seen(cache, i, p) = s
  BY <1>2 DEF s
<1>5. /\ s \in [Inums -> CacheEntries] /\ \A j \in Inums : j # i => s[j] = cache[j]
      /\ s[i].ref = cache[i].ref /\ s[i].valid /\ s[i].lock = Nobody
      /\ s[i].type = IF cache[i].valid THEN cache[i].type ELSE disk.type[i]
      /\ s[i].nlink = IF cache[i].valid THEN cache[i].nlink ELSE disk.nlink[i]
  BY <1>1, <1>3 DEF s
<1>. QED BY <1>4, <1>5

\* The last reference to go leaves an unused entry, another one only counts down.
LEMMA UnrefIs ==
  ASSUME NEW cache \in [Inums -> CacheEntries], NEW i \in Inums, cache[i].ref > 0
  PROVE  /\ Unref(cache, i) \in [Inums -> CacheEntries]
         /\ \A j \in Inums : j # i => Unref(cache, i)[j] = cache[j]
         /\ Unref(cache, i)[i].ref = cache[i].ref - 1
         /\ cache[i].ref = 1 => Unref(cache, i)[i] = Unused
         /\ cache[i].ref # 1 => /\ Unref(cache, i)[i].valid = cache[i].valid
                                /\ Unref(cache, i)[i].lock = cache[i].lock
                                /\ Unref(cache, i)[i].type = cache[i].type
                                /\ Unref(cache, i)[i].nlink = cache[i].nlink
<1>1. CASE cache[i].ref = 1
  BY <1>1 DEF Unref, CacheEntries, Unused, Kinds
<1>2. CASE cache[i].ref # 1
  <2>1. cache[i].ref - 1 \in Nat
    BY DEF CacheEntries
  <2>2. Unref(cache, i) = [cache EXCEPT ![i] = [cache[i] EXCEPT !.ref = cache[i].ref - 1]]
    BY <1>2 DEF Unref
  <2>3. [cache[i] EXCEPT !.ref = cache[i].ref - 1] \in CacheEntries
    BY <2>1 DEF CacheEntries
  <2>. QED BY <1>2, <2>1, <2>2, <2>3 DEF CacheEntries
<1>. QED BY <1>1, <1>2

-----------------------------------------------------------------------------
(* What a step of one process leaves to the others *)

\* Nothing of another process changes.
Aside(p) ==
  \A q \in Procs \ {p} : c'[q] = c[q] /\ file'[q] = file[q] /\ (q \in active' <=> q \in active)

\* What another process relies on stays.
Trusted(p) ==
  \A q \in Procs \ {p}, i \in Inums :
    /\ Holds(q, i) => disk'.type[i] = disk.type[i] /\ (ic[i].valid => ic'[i].valid)
    /\ Locked(q, i) => disk'.dir[i] = disk.dir[i]

\* Locks are taken when free and given back by who has them.
LockMoves(p) ==
  \A i \in Inums :
    /\ ic'[i].lock = IF Locked(p, i)' THEN p ELSE IF Locked(p, i) THEN Nobody ELSE ic[i].lock
    /\ Locked(p, i)' => Locked(p, i) \/ ic[i].lock = Nobody

HeldUsed(p) == \A i \in Inums : Holds(p, i) => disk.type[i] # "none"

\* A step of p leaves the others where they are.
LEMMA ControlKept ==
  ASSUME AllControl, NEW p \in Procs, Aside(p), Control(p)'
  PROVE  AllControl'
<1>1. ASSUME NEW q \in Procs, q # p PROVE Control(q)'
  <2>1. c'[q] = c[q] /\ file'[q] = file[q] /\ (q \in active' <=> q \in active)
    BY <1>1 DEF Aside
  <2>2. Control(q)
    BY DEF AllControl
  <2>. QED BY <2>1, <2>2 DEF Control, PutsShape, Putting, HoldsCur, HoldsIp, Place
<1>. QED BY <1>1 DEF AllControl

\* The others can still rely on what they did, if the step of p keeps what they trust.
LEMMA RelyKept ==
  ASSUME Types, AllControl, AllRely, NEW p \in Procs, Aside(p), Trusted(p), Relies(p)'
  PROVE  AllRely'
<1>1. ASSUME NEW q \in Procs, q # p PROVE Relies(q)'
  <2>1. c'[q] = c[q] /\ file'[q] = file[q]
    BY <1>1 DEF Aside
  <2>2. Control(q) /\ Relies(q)
    BY DEF AllControl, AllRely
  <2>3. c[q].cur \in Inums \cup {None} /\ c[q].ip \in Inums \cup {None}
        /\ file[q] \in Inums \cup {None}
    BY DEF Types, Frames
  <2>4. ASSUME NEW i \in Inums, Holds(q, i)
        PROVE  disk'.type[i] = disk.type[i] /\ (ic[i].valid => ic'[i].valid)
    BY <1>1, <2>4 DEF Trusted
  <2>5. ASSUME NEW i \in Inums, Locked(q, i) PROVE disk'.dir[i] = disk.dir[i]
    BY <1>1, <2>5 DEF Trusted
  <2>6. Place(q) \in AtDirectory => c[q].cur \in Inums /\ disk'.type[c[q].cur] = disk.type[c[q].cur]
    <3>1. Place(q) \in AtDirectory => c[q].cur \in Inums /\ Holds(q, c[q].cur)
      BY <2>2, <2>3 DEF Control, HoldsCur, AtDirectory, Holds
    <3>. QED BY <2>4, <3>1
  <2>7. Place(q) \in LocksCur => disk'.dir[c[q].cur] = disk.dir[c[q].cur]
    <3>1. Place(q) \in LocksCur => c[q].cur \in Inums /\ Locked(q, c[q].cur)
      BY <2>2, <2>3 DEF Control, HoldsCur, LocksCur, Locked
    <3>. QED BY <2>5, <3>1
  <2>8. Place(q) = "created" \/ c[q].call = "link2" =>
          /\ disk'.type[c[q].ip] = disk.type[c[q].ip]
          /\ ic[c[q].ip].valid => ic'[c[q].ip].valid
    <3>1. Place(q) = "created" \/ c[q].call = "link2" => c[q].ip \in Inums /\ Holds(q, c[q].ip)
      BY <2>2, <2>3 DEF Control, HoldsIp, Holds
    <3>. QED BY <2>4, <3>1
  <2>9. file[q] # None => disk'.type[file[q]] = disk.type[file[q]]
    BY <2>3, <2>4 DEF Holds
  <2>10. /\ Place(q)' = Place(q) /\ (Putting(q)' <=> Putting(q))
         /\ Place(q) \in LocksCur => Entry(q)' = Entry(q)
    BY <2>1, <2>7 DEF Place, Putting, Entry, Name
  <2>11. Putting(q) => Place(q) = c[q].then
    BY DEF Putting, Place
  <2>. QED BY <2>1, <2>2, <2>6, <2>8, <2>9, <2>10, <2>11 DEF Relies, AtDirectory, LocksCur, LocksIp
<1>. QED BY <1>1 DEF AllRely

\* What the others hold stays in use.
LEMMA HeldKept ==
  ASSUME HeldIsUsed, NEW p \in Procs, Aside(p), Trusted(p), HeldUsed(p)'
  PROVE  HeldIsUsed'
<1>1. ASSUME NEW q \in Procs, q # p, NEW i \in Inums, Holds(q, i)' PROVE disk'.type[i] # "none"
  <2>1. Holds(q, i)
    BY <1>1 DEF Aside, Holds, HoldsCur, HoldsIp, Place
  <2>. QED BY <1>1, <2>1 DEF Trusted, HeldIsUsed
<1>2. ASSUME NEW i \in Inums, Holds(p, i)' PROVE disk'.type[i] # "none"
  BY <1>2 DEF HeldUsed
<1>. QED BY <1>1, <1>2 DEF HeldIsUsed

\* Locks are held by those whose place says so.
LEMMA LocksKept ==
  ASSUME LocksExact, NEW p \in Procs, Aside(p), LockMoves(p)
  PROVE  LocksExact'
<1>1. ASSUME NEW q \in Procs, q # p, NEW i \in Inums PROVE ic'[i].lock = q <=> Locked(q, i)'
  <2>1. Locked(q, i)' <=> Locked(q, i)
    BY <1>1 DEF Aside, Locked, Place
  <2>2. (ic[i].lock = q <=> Locked(q, i)) /\ (ic[i].lock = p <=> Locked(p, i))
    BY DEF LocksExact
  <2>3. q # Nobody
    BY Sizes
  <2>. QED BY <1>1, <2>1, <2>2, <2>3 DEF LockMoves
<1>2. ASSUME NEW i \in Inums PROVE ic'[i].lock = p <=> Locked(p, i)'
  <2>1. (ic[i].lock = p <=> Locked(p, i)) /\ p # Nobody
    BY Sizes DEF LocksExact
  <2>. QED BY <2>1 DEF LockMoves
<1>. QED BY <1>1, <1>2 DEF LocksExact

\* What there is to show of a step, but for the disk.
Step(p) ==
  /\ Aside(p) /\ Accounts(p) /\ LockMoves(p) /\ Trusted(p)
  /\ Types' /\ Control(p)' /\ Relies(p)' /\ HeldUsed(p)' /\ CacheHonest'
Running == Types /\ AllControl /\ AllRely /\ RefsExact /\ LocksExact /\ HeldIsUsed /\ CacheHonest
\* What one step of p must do for the part of the invariant about running calls.
LEMMA RunningKept ==
  ASSUME Running, NEW p \in Procs, Step(p)
  PROVE  Running'
<1>1. AllControl'
  BY ControlKept DEF Running, Step
<1>2. AllRely' /\ HeldIsUsed' /\ LocksExact'
  BY RelyKept, HeldKept, LocksKept DEF Running, Step
<1>3. \A i \in Inums : ic'[i].ref \in Nat
  BY DEF Step, Types, CacheEntries
<1>4. RefsExact'
  BY <1>1, <1>3, RefsKept DEF Running, Step, Aside
<1>. QED BY <1>1, <1>2, <1>4 DEF Running, Step

\* A step that looks at no inode and forgets none.
LEMMA ForgottenKept ==
  ASSUME Running, ForgottenIsRaced, NEW p \in Procs, Step(p), c'[p].pc # "unref",
         raced' = raced, lost \subseteq lost',
         \A i \in Inums :
           /\ ic'[i].ref >= ic[i].ref
           /\ disk'.type[i] # "none" /\ disk'.nlink[i] = 0 /\ ~Holds(p, i)' =>
                disk.type[i] # "none" /\ disk.nlink[i] = 0
  PROVE  ForgottenIsRaced'
<1>1. ASSUME NEW i \in Inums, Forgotten(i)' PROVE Forgotten(i)
  <2>1. \A q \in Procs : ~Holds(q, i)'
    BY <1>1 DEF Forgotten
  <2>2. ASSUME NEW q \in Procs, q # p PROVE ~Holds(q, i)
    BY <2>1, <2>2 DEF Step, Aside, Holds, HoldsCur, HoldsIp, Place
  <2>3. References(p, i)' = 0
    <3>1. AllControl' => NoneHeld'
      BY NothingHeld, PTL
    <3>2. AllControl'
      BY ControlKept DEF Running, Step
    <3>. QED BY <2>1, <3>1, <3>2 DEF NoneHeld, Looked
  <2>4. References(p, i) \in Nat /\ (References(p, i) > 0 <=> Holds(p, i) \/ Looked(p, i))
    BY ReferenceIs DEF Running, AllControl
  <2>5. ic[i].ref \in Nat /\ ic'[i].ref \in Nat
    BY DEF Running, Step, Types, CacheEntries
  <2>6. ~Holds(p, i)
    BY <2>3, <2>4, <2>5 DEF Step, Accounts
  <2>. QED BY <1>1, <2>1, <2>2, <2>6 DEF Forgotten
<1>. QED BY <1>1 DEF ForgottenIsRaced

-----------------------------------------------------------------------------
(* The cache against the disk *)

HonestIn(cache, d) ==
  \A i \in Inums :
    /\ cache[i].ref = 0 => cache[i] = Unused
    /\ cache[i].valid => /\ cache[i].type = d.type[i] /\ cache[i].nlink = d.nlink[i]
                         /\ d.type[i] # "none"
    /\ cache[i].lock # Nobody => cache[i].valid
    /\ cache[i].ref > 0 /\ d.nlink[i] = 0 /\ d.type[i] # "none" => cache[i].valid

\* iget() of an inode with links keeps the cache honest.
LEMMA HonestIget ==
  ASSUME NEW d, NEW cache \in [Inums -> CacheEntries], HonestIn(cache, d), NEW i \in Inums,
         d.nlink[i] # 0
  PROVE  HonestIn(Iget(cache, i), d)
<1> DEFINE k == Iget(cache, i)
<1>1. /\ \A j \in Inums : j # i => k[j] = cache[j]
      /\ k[i].ref = cache[i].ref + 1
      /\ k[i].valid <=> cache[i].valid /\ cache[i].ref > 0
      /\ k[i].lock = cache[i].lock /\ k[i].type = cache[i].type /\ k[i].nlink = cache[i].nlink
  BY IgetIs
<1>2. cache[i].ref \in Nat
  BY DEF CacheEntries
<1> HIDE DEF k
<1>3. k[i].lock # Nobody => k[i].valid
  <2>1. cache[i].ref = 0 => cache[i].lock = Nobody
    BY DEF HonestIn, Unused
  <2>. QED BY <1>1, <1>2, <2>1 DEF HonestIn
<1>4. HonestIn(k, d)
  BY <1>1, <1>2, <1>3 DEF HonestIn
<1>. QED BY <1>4 DEF k

\* ilock() of an inode in use keeps the cache honest.
LEMMA HonestIlock ==
  ASSUME NEW cache \in [Inums -> CacheEntries], HonestIn(cache, disk), NEW i \in Inums,
         disk \in Disks, NEW p \in Procs, disk.type[i] # "none", cache[i].ref > 0
  PROVE  HonestIn(Ilock(cache, i, p), disk)
<1> DEFINE k == Ilock(cache, i, p)
<1>1. /\ \A j \in Inums : j # i => k[j] = cache[j]
      /\ k[i].ref = cache[i].ref /\ k[i].valid
      /\ k[i].type = IF cache[i].valid THEN cache[i].type ELSE disk.type[i]
      /\ k[i].nlink = IF cache[i].valid THEN cache[i].nlink ELSE disk.nlink[i]
  BY IlockIs
<1>2. cache[i].ref \in Nat
  BY DEF CacheEntries
<1> HIDE DEF k
<1>3. HonestIn(k, disk)
  BY <1>1, <1>2 DEF HonestIn
<1>. QED BY <1>3 DEF k

\* iunlock() keeps the cache honest.
LEMMA HonestIunlock ==
  ASSUME NEW d, NEW cache \in [Inums -> CacheEntries], HonestIn(cache, d), NEW i \in Inums,
         cache[i].ref > 0
  PROVE  HonestIn(Iunlock(cache, i), d)
<1> DEFINE k == Iunlock(cache, i)
<1>1. /\ \A j \in Inums : j # i => k[j] = cache[j]
      /\ k[i].ref = cache[i].ref /\ k[i].valid = cache[i].valid /\ k[i].lock = Nobody
      /\ k[i].type = cache[i].type /\ k[i].nlink = cache[i].nlink
  BY IunlockIs
<1> HIDE DEF k
<1>2. HonestIn(k, d)
  BY <1>1 DEF HonestIn
<1>. QED BY <1>2 DEF k

\* A change of nlink in a valid entry and on disk keeps the cache honest.
LEMMA HonestSetNlink ==
  ASSUME NEW d, NEW e, NEW cache \in [Inums -> CacheEntries], HonestIn(cache, d), NEW i \in Inums,
         NEW n \in Nat, cache[i].valid, e.type = d.type, e.nlink[i] = n,
         \A j \in Inums \ {i} : e.nlink[j] = d.nlink[j]
  PROVE  HonestIn(SetNlink(cache, i, n), e)
<1> DEFINE k == SetNlink(cache, i, n)
<1>1. /\ \A j \in Inums : j # i => k[j] = cache[j]
      /\ k[i].ref = cache[i].ref /\ k[i].valid /\ k[i].lock = cache[i].lock
      /\ k[i].type = cache[i].type /\ k[i].nlink = n
  BY SetNlinkIs
<1>2. cache[i].ref # 0
  BY DEF HonestIn, Unused
<1> HIDE DEF k
<1>3. HonestIn(k, e)
  BY <1>1, <1>2 DEF HonestIn
<1>. QED BY <1>3 DEF k

\* ilock() and iunlock() of an inode in use keep the cache honest.
LEMMA HonestSeen ==
  ASSUME NEW cache \in [Inums -> CacheEntries], HonestIn(cache, disk), NEW i \in Inums,
         disk \in Disks, NEW p \in Procs, disk.type[i] # "none", cache[i].ref > 0
  PROVE  HonestIn(Seen(cache, i, p), disk)
<1> DEFINE k == Ilock(cache, i, p)
<1>1. HonestIn(k, disk) /\ k \in [Inums -> CacheEntries] /\ k[i].ref > 0
  BY HonestIlock, IlockIs
<1>2. Seen(cache, i, p) = Iunlock(k, i)
  BY DEF Seen
<1> HIDE DEF k
<1>. QED BY <1>1, <1>2, HonestIunlock

\* The process that moves.
LEMMA FrameIs ==
  ASSUME c \in [Procs -> Frames], NEW p \in Procs, NEW f \in Frames, Become(p, f)
  PROVE  c' \in [Procs -> Frames] /\ c'[p] = f /\ \A q \in Procs \ {p} : c'[q] = c[q]
BY DEF Become

\* The references of a process by their places, also in the next state.
RefSum(p, i) ==
  ((Count(c[p].puts, i) + (IF HoldsCur(p) /\ c[p].cur = i THEN 1 ELSE 0))
   + (IF HoldsIp(p) /\ c[p].ip = i THEN 1 ELSE 0)) + (IF file[p] = i THEN 1 ELSE 0)
RefSums == \A p \in Procs, i \in Inums : References(p, i) = RefSum(p, i)
\* The references of a process are the sum of those of its places.
LEMMA RefSumsHold == RefSums
BY ReferencesAre DEF RefSums, RefSum

\* A path of more than one element has a rest.
LEMMA TailLeft ==
  ASSUME NEW s \in Seq(Names), s # <<>>, Len(s) # 1
  PROVE  Tail(s) # <<>>
<1>1. Len(s) \in Nat /\ Len(s) # 0
  OBVIOUS
<1>2. Len(Tail(s)) = Len(s) - 1
  BY <1>1
<1>3. Len(Tail(s)) # 0 /\ Len(<<>>) = 0
  BY <1>1, <1>2
<1>. QED BY <1>3

\* One or two inodes to put.
LEMMA CountOne ==
  /\ \A a, j : Count(<<a>>, j) = IF a = j THEN 1 ELSE 0
  /\ \A a, b, j : Count(<<a, b>>, j) = (IF a = j THEN 1 ELSE 0) + (IF b = j THEN 1 ELSE 0)
  /\ \A j : Count(<<>>, j) = 0
BY CountIs

-----------------------------------------------------------------------------
(* One lemma for each action: what it does to its process and to the cache *)

\* The one reference of an iput() that has looked keeps nothing.
OneLook ==
  \A p \in Procs, i \in Inums : References(p, i) = 1 /\ Looked(p, i) => ~Holds(p, i)
\* A process with one reference that its iput() is done with holds nothing.
LEMMA OneLookHolds == AllControl => OneLook
BY ReferenceIs DEF AllControl, OneLook

\* What a name leads to has a link, and so has a directory with another below it, the
\* root, and what a call owes one to.
Reached ==
  /\ disk.nlink[ROOT] # 0
  /\ \A i \in Inums, n \in Names :
       disk.dir[i][n] # None =>
         /\ disk.nlink[disk.dir[i][n]] # 0
         /\ disk.type[disk.dir[i][n]] = "dir" => disk.nlink[i] # 0
  /\ \A p \in Procs, i \in Inums : Owes(p, i) => disk.nlink[i] # 0
\* What is held is counted, and what is counted is held or looked at.
HeldCounts ==
  \A p \in Procs, i \in Inums :
    /\ Holds(p, i) => References(p, i) > 0
    /\ c[p].pc # "unref" /\ References(p, i) > 0 => Holds(p, i)
\* A process refers to what it holds, and outside unref to nothing else.
LEMMA HeldIsCounted == AllControl => HeldCounts
BY ReferenceIs DEF AllControl, HeldCounts, Looked

Settled == Running /\ Named(disk) /\ Reached

\* What p knows before it moves.
LEMMA Before ==
  ASSUME Settled, NEW p \in Procs
  PROVE  /\ c[p] \in Frames /\ Control(p) /\ Relies(p) /\ file[p] \in Inums \cup {None}
         /\ c \in [Procs -> Frames] /\ ic \in [Inums -> CacheEntries] /\ disk \in Disks
         /\ HonestIn(ic, disk) /\ p # Nobody
         /\ ~Putting(p) => c[p].puts = <<>> /\ Place(p) = c[p].pc /\ \A j : Count(c[p].puts, j) = 0
<1>1. HonestIn(ic, disk)
  BY DEF Settled, Running, CacheHonest, HonestIn
<1>2. Control(p)
  BY DEF Settled, Running, AllControl
<1>3. ~Putting(p) => c[p].puts = <<>> /\ Place(p) = c[p].pc /\ \A j : Count(c[p].puts, j) = 0
  BY <1>2, CountIs DEF Control, PutsShape, Putting, Place
<1>. QED BY <1>1, <1>2, <1>3, Sizes DEF Settled, Running, Types, AllControl, AllRely

\* What p knows of an inode.
LEMMA Knows ==
  ASSUME Settled, NEW p \in Procs, NEW i \in Inums
  PROVE  /\ Holds(p, i) => ic[i].ref > 0 /\ disk.type[i] # "none"
         /\ TypeOf(i) = disk.type[i] /\ NlinkOf(i) = disk.nlink[i]
         /\ ic[i].ref \in Nat /\ (ic[i].ref = 0 => ~ic[i].valid)
         /\ ic[i].lock = p <=> Locked(p, i)
         /\ disk.type[i] \in Kinds /\ disk.nlink[i] \in Nat
<1>1. ASSUME Holds(p, i) PROVE ic[i].ref > 0 /\ disk.type[i] # "none"
  <2>1. References(p, i) \in Nat /\ References(p, i) > 0
    BY <1>1, ReferenceIs DEF Settled, Running, AllControl
  <2>2. References(p, i) <= ic[i].ref /\ ic[i].ref \in Nat
    BY WhoRefers DEF Settled, Running
  <2>. QED BY <1>1, <2>1, <2>2 DEF Settled, Running, HeldIsUsed
<1>2. HonestIn(ic, disk) /\ ic[i] \in CacheEntries /\ disk \in Disks
  BY Before DEF CacheEntries
<1>3. TypeOf(i) = disk.type[i] /\ NlinkOf(i) = disk.nlink[i]
  BY <1>2 DEF HonestIn, TypeOf, NlinkOf
<1>. QED BY <1>1, <1>2, <1>3
          DEF Settled, Running, LocksExact, HonestIn, Unused, CacheEntries, Disks, Kinds

\* An entry that does not name an inode that does not exist.
LEMMA EntryIs ==
  ASSUME Settled, NEW i \in Inums, NEW n \in Names
  PROVE  /\ disk.dir[i][n] \in Inums \cup {None}
         /\ disk.dir[i][n] # None =>
              /\ disk.dir[i][n] \in Inums /\ disk.nlink[disk.dir[i][n]] # 0
              /\ disk.type[disk.dir[i][n]] # "none" /\ disk.type[i] = "dir"
<1>1. disk \in Disks
  BY DEF Settled, Running, Types
<1>. QED BY <1>1 DEF Settled, Named, Reached, Disks

\* A cache that differs from ic by one iget() and one lock, the disk being the same.
Moved(cache, got, at, who) ==
  /\ cache \in [Inums -> CacheEntries] /\ HonestIn(cache, disk)
  /\ \A j \in Inums :
       /\ cache[j].ref = ic[j].ref + (IF j = got THEN 1 ELSE 0)
       /\ ic[j].valid => cache[j].valid
       /\ cache[j].lock = IF j = at THEN who ELSE ic[j].lock

\* A cache that stays has moved by nothing.
LEMMA MovesNot ==
  ASSUME Settled
  PROVE  Moved(ic, None, None, Nobody)
<1>1. ic \in [Inums -> CacheEntries] /\ HonestIn(ic, disk)
  BY DEF Settled, Running, Types, CacheHonest, HonestIn
<1>2. \A j \in Inums : ic[j].ref \in Nat
  BY <1>1 DEF CacheEntries
<1>. QED BY <1>1, <1>2, Sizes DEF Moved

\* iget() of a linked inode moves its count.
LEMMA MovesIget ==
  ASSUME Settled, NEW cache, NEW at, NEW who, Moved(cache, None, at, who),
         NEW i \in Inums, disk.nlink[i] # 0
  PROVE  Moved(Iget(cache, i), i, at, who)
<1>1. cache \in [Inums -> CacheEntries] /\ HonestIn(cache, disk)
  BY DEF Moved
<1>2. ic \in [Inums -> CacheEntries] /\ HonestIn(ic, disk)
  BY DEF Settled, Running, Types, CacheHonest, HonestIn
<1> DEFINE l == Iget(cache, i)
<1>3. /\ l \in [Inums -> CacheEntries] /\ HonestIn(l, disk)
      /\ \A j \in Inums : j # i => l[j] = cache[j]
      /\ l[i].ref = cache[i].ref + 1 /\ l[i].lock = cache[i].lock
      /\ l[i].valid <=> cache[i].valid /\ cache[i].ref > 0
  BY <1>1, IgetIs, HonestIget
<1>4. \A j \in Inums : ic[j].ref \in Nat /\ (ic[j].valid => ic[j].ref > 0)
  BY <1>2 DEF CacheEntries, HonestIn, Unused
<1> HIDE DEF l
<1>5. Moved(l, i, at, who)
  BY <1>1, <1>3, <1>4, Sizes DEF Moved
<1>. QED BY <1>5 DEF l

\* ilock() moves the lock to p.
LEMMA MovesIlock ==
  ASSUME Settled, NEW p \in Procs, NEW i \in Inums, ic[i].ref > 0, disk.type[i] # "none"
  PROVE  Moved(Ilock(ic, i, p), None, i, p)
<1>1. ic \in [Inums -> CacheEntries] /\ HonestIn(ic, disk) /\ disk \in Disks
  BY DEF Settled, Running, Types, CacheHonest, HonestIn
<1> DEFINE l == Ilock(ic, i, p)
<1>2. /\ l \in [Inums -> CacheEntries] /\ HonestIn(l, disk)
      /\ \A j \in Inums : j # i => l[j] = ic[j]
      /\ l[i].ref = ic[i].ref /\ l[i].lock = p /\ l[i].valid
  BY <1>1, IlockIs, HonestIlock
<1>3. \A j \in Inums : ic[j].ref \in Nat
  BY <1>1 DEF CacheEntries
<1> HIDE DEF l
<1>4. Moved(l, None, i, p)
  BY <1>2, <1>3, Sizes DEF Moved
<1>. QED BY <1>4 DEF l

\* iunlock() moves the lock to nobody.
LEMMA MovesIunlock ==
  ASSUME Settled, NEW i \in Inums, ic[i].ref > 0
  PROVE  Moved(Iunlock(ic, i), None, i, Nobody)
<1>1. ic \in [Inums -> CacheEntries] /\ HonestIn(ic, disk)
  BY DEF Settled, Running, Types, CacheHonest, HonestIn
<1> DEFINE l == Iunlock(ic, i)
<1>2. /\ l \in [Inums -> CacheEntries] /\ HonestIn(l, disk)
      /\ \A j \in Inums : j # i => l[j] = ic[j]
      /\ l[i].ref = ic[i].ref /\ l[i].lock = Nobody /\ l[i].valid = ic[i].valid
  BY <1>1, IunlockIs, HonestIunlock
<1>3. \A j \in Inums : ic[j].ref \in Nat
  BY <1>1 DEF CacheEntries
<1> HIDE DEF l
<1>4. Moved(l, None, i, Nobody)
  BY <1>2, <1>3, Sizes DEF Moved
<1>. QED BY <1>4 DEF l

\* A look at an inode nobody has locked leaves the locks as they are.
LEMMA MovesSeen ==
  ASSUME Settled, NEW p \in Procs, NEW i \in Inums, ic[i].ref > 0, disk.type[i] # "none", CanLock(i)
  PROVE  Moved(Seen(ic, i, p), None, None, Nobody) /\ Seen(ic, i, p)[i].valid
<1>1. ic \in [Inums -> CacheEntries] /\ HonestIn(ic, disk) /\ disk \in Disks
  BY DEF Settled, Running, Types, CacheHonest, HonestIn
<1> DEFINE l == Seen(ic, i, p)
<1>2. /\ l \in [Inums -> CacheEntries] /\ HonestIn(l, disk)
      /\ \A j \in Inums : j # i => l[j] = ic[j]
      /\ l[i].ref = ic[i].ref /\ l[i].lock = Nobody /\ l[i].valid
  BY <1>1, SeenIs, HonestSeen
<1>3. \A j \in Inums : ic[j].ref \in Nat
  BY <1>1 DEF CacheEntries
<1> HIDE DEF l
<1>4. Moved(l, None, None, Nobody)
  BY <1>2, <1>3, Sizes DEF Moved, CanLock
<1>. QED BY <1>2, <1>4 DEF l

\* iunlock() of what was free before.
LEMMA MovesBack ==
  ASSUME Settled, NEW i \in Inums, NEW cache, NEW got, NEW who, Moved(cache, got, i, who),
         CanLock(i), cache[i].ref > 0
  PROVE  Moved(Iunlock(cache, i), got, None, Nobody)
<1>1. cache \in [Inums -> CacheEntries] /\ HonestIn(cache, disk)
  BY DEF Moved
<1> DEFINE l == Iunlock(cache, i)
<1>2. /\ l \in [Inums -> CacheEntries] /\ HonestIn(l, disk)
      /\ \A j \in Inums : j # i => l[j] = cache[j]
      /\ l[i].ref = cache[i].ref /\ l[i].lock = Nobody /\ l[i].valid = cache[i].valid
  BY <1>1, IunlockIs, HonestIunlock
<1> HIDE DEF l
<1>3. Moved(l, got, None, Nobody)
  BY <1>2, Sizes DEF Moved, CanLock
<1>. QED BY <1>3 DEF l

\* A step that is not an iput() gives no reference back.
Gains(p) == c'[p].pc # "unref" /\ \A i \in Inums : ic'[i].ref >= ic[i].ref
Move(p) == Step(p) /\ Gains(p)

\* A step that leaves the disk alone.
LEMMA QuietStep ==
  ASSUME Settled, NEW p \in Procs, NEW got \in Inums \cup {None}, NEW at, NEW who,
         UNCHANGED <<disk, durable, lost>>, active' \subseteq Procs, c' \in [Procs -> Frames],
         file' \in [Procs -> Inums \cup {None}],
         \A q \in Procs \ {p} : c'[q] = c[q] /\ file'[q] = file[q]
         /\ (q \in active' <=> q \in active),
         Moved(ic', got, at, who), got # None => disk.type[got] # "none",
         c[p].pc # "unref", c'[p].pc # "unref",
         Control(p)', Relies(p)',
         \A i \in Inums : RefSum(p, i)' = RefSum(p, i) + (IF i = got THEN 1 ELSE 0),
         \A i \in Inums :
           /\ Locked(p, i)' <=> IF i = at THEN who = p ELSE Locked(p, i)
           /\ i = at => IF who = p THEN Locked(p, i) \/ CanLock(i) ELSE who = Nobody /\ Locked(p, i)
  PROVE  Move(p)
<1>1. /\ Running /\ HonestIn(ic', disk) /\ ic' \in [Inums -> CacheEntries] /\ Control(p)
      /\ ic \in [Inums -> CacheEntries] /\ p # Nobody
  BY Before DEF Moved, Settled
<1>2. Aside(p) /\ Trusted(p)
  BY DEF Aside, Trusted, Moved
<1>3. Types'
  BY <1>1 DEF Running, Types
<1>4. CacheHonest'
  BY <1>1 DEF HonestIn, CacheHonest
<1>5. \A i \in Inums : References(p, i) = RefSum(p, i) /\ References(p, i)' = RefSum(p, i)'
  <2>1. RefSums /\ RefSums'
    BY RefSumsHold, PTL
  <2>. QED BY <2>1 DEF RefSums
<1>6. AllControl'
  BY <1>1, <1>2, ControlKept DEF Running
<1>7. \A i \in Inums : References(p, i) \in Nat /\ References(p, i)' \in Nat
  <2>1. RefsAreNat /\ (AllControl' => RefsAreNat')
    BY <1>1, ReferencesAreNat, PTL DEF Running
  <2>. QED BY <1>6, <2>1 DEF RefsAreNat
<1>8. Accounts(p)
  <2>1. \A i \in Inums : ic[i].ref \in Nat /\ ic'[i].ref = ic[i].ref + (IF i = got THEN 1 ELSE 0)
    BY <1>1 DEF Moved, CacheEntries
  <2>. QED BY <1>5, <1>7, <2>1 DEF Accounts
<1>9. HeldUsed(p)'
  <2>1. ASSUME NEW i \in Inums, Holds(p, i)' PROVE disk.type[i] # "none"
    <3>1. HeldCounts /\ HeldCounts'
      BY <1>1, <1>6, HeldIsCounted, PTL DEF Running
    <3>2. References(p, i)' > 0
      BY <2>1, <3>1 DEF HeldCounts
    <3>3. References(p, i) > 0 \/ i = got
      BY <1>5, <1>7, <3>2
    <3>4. Holds(p, i) \/ i = got
      BY <3>1, <3>3 DEF HeldCounts
    <3>. QED BY <1>1, <3>4, Sizes DEF Running, HeldIsUsed
  <2>. QED BY <2>1 DEF HeldUsed
<1>10. LockMoves(p)
  <2>1. \A i \in Inums : ic[i].lock = p <=> Locked(p, i)
    BY <1>1 DEF Running, LocksExact
  <2>2. \A i \in Inums : ic'[i].lock = IF i = at THEN who ELSE ic[i].lock
    BY DEF Moved
  <2>. QED BY <1>1, <2>1, <2>2 DEF LockMoves, CanLock
<1>11. Gains(p)
  <2>1. \A i \in Inums : ic[i].ref \in Nat /\ ic'[i].ref = ic[i].ref + (IF i = got THEN 1 ELSE 0)
    BY <1>1 DEF Moved, CacheEntries
  <2>. QED BY <2>1 DEF Gains
<1>. QED BY <1>1, <1>2, <1>3, <1>4, <1>8, <1>9, <1>10, <1>11 DEF Move, Step

\* Namex() of one element moves only its own process.
LEMMA WalkStep ==
  ASSUME Settled, NEW p \in Procs, Walk(p)
  PROVE  Move(p)
<1> DEFINE i == c[p].cur
           next == disk.dir[i][Head(c[p].path)]
           moves == TypeOf(i) = "dir" /\ next # None
           got == IF moves THEN next ELSE None
           f == c'[p]
<1>1. /\ c[p] \in Frames /\ Control(p) /\ Relies(p) /\ c \in [Procs -> Frames]
      /\ c[p].pc = "walk" /\ c[p].path # <<>> /\ ~Putting(p) /\ Place(p) = "walk"
      /\ \A j : Count(c[p].puts, j) = 0
  BY Before DEF Walk, At, Putting
<1>2. i \in Inums /\ HoldsCur(p) /\ Holds(p, i)
  BY <1>1 DEF Control, HoldsCur, Frames, Holds
<1>3. ic[i].ref > 0 /\ disk.type[i] # "none" /\ TypeOf(i) = disk.type[i] /\ CanLock(i)
  BY <1>2, Knows DEF Walk
<1>4. Head(c[p].path) \in Names /\ Tail(c[p].path) \in Seq(Names) /\ <<i>> \in Seq(Inums)
  BY <1>1, <1>2 DEF Frames
<1>5. next \in Inums \cup {None}
      /\ (next # None => next \in Inums /\ disk.nlink[next] # 0 /\ disk.type[next] # "none")
  BY <1>2, <1>4, EntryIs
<1>6. /\ f \in Frames /\ c' \in [Procs -> Frames] /\ \A q \in Procs \ {p} : c'[q] = c[q]
      /\ f.pc = "iput" /\ f.puts = <<i>> /\ f.call = c[p].call /\ f.new = c[p].new /\ f.ip = c[p].ip
      /\ moves => f.cur = next /\ f.path = Tail(c[p].path) /\ f.then = "walk"
      /\ ~moves => f.cur = i /\ f.path = c[p].path /\ f.then = Failed(p)
  <2> HIDE DEF i, next
  <2>1. CASE moves
    <3> DEFINE g == Puts([c[p] EXCEPT !.cur = next, !.path = Tail(c[p].path)], <<i>>, "walk")
    <3>1. g \in Frames
      BY <1>1, <1>4, <1>5, <2>1 DEF Frames, Pcs, Thens, Puts
    <3>2. Become(p, g)
      BY <2>1 DEF Walk, i, next
    <3>3. f = g /\ c' \in [Procs -> Frames] /\ \A q \in Procs \ {p} : c'[q] = c[q]
      BY <1>1, <3>1, <3>2, FrameIs
    <3>. QED BY <1>1, <2>1, <3>1, <3>3 DEF Frames, Puts
  <2>2. CASE ~moves
    <3> DEFINE g == Puts(c[p], <<i>>, Failed(p))
    <3>1. g \in Frames
      BY <1>1, <1>4, <2>2 DEF Frames, Pcs, Thens, Failed, Puts
    <3>2. Become(p, g)
      BY <2>2 DEF Walk, i, next
    <3>3. f = g /\ c' \in [Procs -> Frames] /\ \A q \in Procs \ {p} : c'[q] = c[q]
      BY <1>1, <3>1, <3>2, FrameIs
    <3>. QED BY <1>1, <1>2, <2>2, <3>1, <3>3 DEF Frames, Puts, i
  <2>. QED BY <2>1, <2>2
<1>7. Moved(ic', got, None, Nobody) /\ (moves => TypeOf(i) = "dir")
  <2>1. CASE moves
    <3> DEFINE l == Iget(Ilock(ic, i, p), next)
    <3>1. Moved(Ilock(ic, i, p), None, i, p)
      BY <1>2, <1>3, MovesIlock
    <3>2. Moved(l, next, i, p)
      BY <1>5, <2>1, <3>1, MovesIget
    <3>3. ic' = Iunlock(l, i)
      BY <2>1 DEF Walk
    <3> HIDE DEF l
    <3>4. l[i].ref > 0
      BY <1>2, <1>3, <3>2, Knows DEF Moved
    <3>. QED BY <1>2, <1>3, <2>1, <3>2, <3>3, <3>4, MovesBack
  <2>2. CASE ~moves
    <3>1. ic' = Seen(ic, i, p)
      BY <2>2 DEF Walk, Seen
    <3>. QED BY <1>2, <1>3, <2>2, <3>1, MovesSeen
  <2>. QED BY <2>1, <2>2
<1>8. UNCHANGED <<disk, durable, active, file, lost>>
  BY DEF Walk
<1>9. got \in Inums \cup {None} /\ (got # None => disk.type[got] # "none") /\ None \notin Inums
  BY <1>5, Sizes
<1>10. \A j : Count(f.puts, j) = IF i = j THEN 1 ELSE 0
  BY <1>6, CountOne
<1> HIDE DEF next, f
<1>11. /\ Putting(p)' /\ Place(p)' = IF moves THEN "walk" ELSE Failed(p)
       /\ HoldsCur(p)' <=> moves
       /\ HoldsIp(p)' <=> HoldsIp(p)
  BY <1>1, <1>6 DEF Putting, Place, HoldsCur, HoldsIp, Failed, f
<1>12. \A j \in Inums : RefSum(p, j)' = RefSum(p, j) + (IF j = got THEN 1 ELSE 0)
  BY <1>1, <1>2, <1>5, <1>6, <1>8, <1>9, <1>10, <1>11 DEF RefSum, f
<1>13. \A j \in Inums : ~Locked(p, j) /\ ~Locked(p, j)'
  BY <1>1, <1>11 DEF Locked, LocksCur, LocksIp, Failed
<1>14. Control(p)'
  <2>1. moves /\ c[p].call = "link2" => Tail(c[p].path) # <<>>
    <3>1. moves /\ c[p].call = "link2" => Len(c[p].path) # 1
      BY <1>7 DEF Walk
    <3>2. c[p].path \in Seq(Names) /\ c[p].path # <<>>
      BY <1>1 DEF Frames
    <3>. QED BY <3>1, <3>2, TailLeft
  <2>2. PutsShape(p)'
    BY <1>2, <1>6, <1>11 DEF PutsShape, f
  <2>3. CASE moves
    BY <1>1, <1>2, <1>5, <1>6, <1>8, <1>9, <1>11, <2>1, <2>2, <2>3 DEF Control, f, Thens
  <2>4. CASE ~moves
    BY <1>1, <1>2, <1>5, <1>6, <1>8, <1>9, <1>11, <2>1, <2>2, <2>4 DEF Control, f, Failed, Thens
  <2>. QED BY <2>3, <2>4
<1>15. Relies(p)'
  <2>1. c[p].call = "link2" => ic'[c[p].ip].valid
    BY <1>1, <1>7 DEF Relies, Moved, Control, HoldsIp, Frames
  <2>. QED BY <1>1, <1>6, <1>8, <1>11, <2>1 DEF Relies, f, Failed, AtDirectory, LocksIp
<1>16. active' \subseteq Procs /\ file' \in [Procs -> Inums \cup {None}]
  BY <1>8 DEF Settled, Running, Types
<1>. QED BY <1>1, <1>6, <1>7, <1>8, <1>9, <1>12, <1>13, <1>14, <1>15, <1>16, QuietStep DEF f

\* A call that only has these inodes left to put.
LEMMA EndsIs ==
  ASSUME Settled, NEW p \in Procs, NEW seq \in Seq(Inums), Ends(p, seq), p \in active',
         seq = <<>> \/ (\E a \in Inums : seq = <<a>>) \/ (\E a, b \in Inums : seq = <<a, b>>)
  PROVE  /\ c' \in [Procs -> Frames] /\ \A q \in Procs \ {p} : c'[q] = c[q]
         /\ c'[p].pc # "unref" /\ c'[p].call = "none" /\ c'[p].cur = None /\ c'[p].ip = None
         /\ c'[p].puts = seq /\ Place(p)' = "end"
         /\ Control(p)' /\ \A j : ~Locked(p, j)'
         /\ \A j : RefSum(p, j)' = Count(seq, j) + (IF file'[p] = j THEN 1 ELSE 0)
         /\ (file'[p] # None => disk'.type[file'[p]] = "file") => Relies(p)'
<1> DEFINE w == IF seq = <<>> THEN "end" ELSE "iput"
           g == [Idle EXCEPT !.pc = w, !.puts = seq, !.then = "end"]
           f == c'[p]
<1>1. g \in Frames
  <2>1. <<>> \in Seq(Names) /\ <<>> \in Seq(Inums)
    OBVIOUS
  <2>2. w \in Pcs
    BY DEF Pcs
  <2> HIDE DEF w
  <2>3. None \in Inums \cup {None} /\ "none" \in Calls /\ "end" \in Thens
    BY DEF Calls, Thens
  <2>. QED BY <2>1, <2>2, <2>3 DEF Frames, Idle
<1>2. Become(p, g)
  BY DEF Ends, Become
<1>3. f = g /\ c' \in [Procs -> Frames] /\ \A q \in Procs \ {p} : c'[q] = c[q]
  BY <1>1, <1>2, FrameIs, Before
<1>4. /\ f.pc = IF seq = <<>> THEN "end" ELSE "iput"
      /\ f.puts = seq /\ f.then = "end" /\ f.call = "none" /\ f.cur = None /\ f.ip = None
  BY <1>3 DEF Idle
<1> HIDE DEF g, f
<1>5. Place(p)' = "end" /\ ~HoldsCur(p)' /\ ~HoldsIp(p)' /\ (Putting(p)' <=> seq # <<>>)
  BY <1>4 DEF f, Place, HoldsCur, HoldsIp, Putting
<1>6. PutsShape(p)'
  BY <1>4, <1>5 DEF f, PutsShape
<1>7. Control(p)'
  BY <1>4, <1>5, <1>6 DEF f, Control, Thens
<1>8. \A j : ~Locked(p, j)'
  BY <1>5 DEF Locked, LocksCur, LocksIp
<1>9. \A j : RefSum(p, j)' = Count(seq, j) + (IF file'[p] = j THEN 1 ELSE 0)
  <2>1. \A j : Count(seq, j) \in Nat
    BY CountOne
  <2>. QED BY <1>4, <1>5, <2>1 DEF f, RefSum
<1>10. (file'[p] # None => disk'.type[file'[p]] = "file") => Relies(p)'
  BY <1>4, <1>5 DEF f, Relies, AtDirectory, LocksIp
<1>. QED BY <1>3, <1>4, <1>5, <1>7, <1>8, <1>9, <1>10 DEF f

\* The start of a call moves only its own process.
LEMMA CallStep ==
  ASSUME Settled, NEW p \in Procs, NEW call \in Calls \ {"none", "link2"}, NEW path \in Paths, NEW new,
         IF call = "link" THEN new \in Paths ELSE new = <<>>,
         Call(p, call, path, new)
  PROVE  Move(p)
<1> DEFINE f == c'[p]
           g == [c[p] EXCEPT !.pc = "walk", !.call = call, !.path = path, !.new = new, !.cur = ROOT]
<1>1. /\ c[p] \in Frames /\ Control(p) /\ Relies(p) /\ c \in [Procs -> Frames]
      /\ c[p].pc = "idle" /\ c[p] = Idle /\ ~Putting(p) /\ Place(p) = "idle"
      /\ \A j : Count(c[p].puts, j) = 0
  BY Before DEF Call, Begins, At, Putting, Control
<1>2. path \in Seq(Names) /\ path # <<>> /\ new \in Seq(Names) /\ (call = "link" => new # <<>>)
      /\ ROOT \in Inums
  <2>1. <<>> \in Seq(Names)
    OBVIOUS
  <2>. QED BY <2>1, Sizes
<1>3. g \in Frames /\ Become(p, g)
  BY <1>1, <1>2 DEF Frames, Pcs, Call
<1>4. f = g /\ c' \in [Procs -> Frames] /\ \A q \in Procs \ {p} : c'[q] = c[q]
  BY <1>1, <1>3, FrameIs
<1>5. /\ f.pc = "walk" /\ f.call = call /\ f.path = path /\ f.new = new /\ f.cur = ROOT
      /\ f.ip = None /\ f.puts = <<>>
  BY <1>1, <1>3, <1>4 DEF Frames, Idle
<1>6. Moved(ic', ROOT, None, Nobody)
  BY <1>2, MovesNot, MovesIget DEF Call, Settled, Reached
<1>7. UNCHANGED <<disk, durable, file, lost>> /\ active' = active \cup {p}
  BY DEF Call, Begins
<1>8. disk.type[ROOT] # "none" /\ None \notin Inums
  BY Sizes DEF Settled, Named
<1> HIDE DEF f, g
<1>9. ~Putting(p)' /\ Place(p)' = "walk" /\ HoldsCur(p)' /\ ~HoldsIp(p)' /\ ~HoldsCur(p)
      /\ ~HoldsIp(p)
  BY <1>1, <1>5 DEF Putting, Place, HoldsCur, HoldsIp, f, Idle
<1>10. \A j \in Inums : RefSum(p, j)' = RefSum(p, j) + (IF j = ROOT THEN 1 ELSE 0)
  BY <1>1, <1>2, <1>5, <1>7, <1>9, CountOne DEF RefSum, f
<1>11. \A j \in Inums : ~Locked(p, j) /\ ~Locked(p, j)'
  BY <1>1, <1>9 DEF Locked, LocksCur, LocksIp
<1>12. Control(p)'
  BY <1>1, <1>2, <1>5, <1>7, <1>8, <1>9 DEF Control, PutsShape, f
<1>13. Relies(p)'
  BY <1>1, <1>5, <1>7, <1>9 DEF Relies, f, AtDirectory
<1>14. active' \subseteq Procs /\ file' \in [Procs -> Inums \cup {None}]
  BY <1>7 DEF Settled, Running, Types
<1>. QED BY <1>1, <1>2, <1>4, <1>5, <1>6, <1>7, <1>8, <1>10, <1>11, <1>12, <1>13, <1>14, QuietStep DEF f

\* Fileclose() moves only its own process.
LEMMA CloseStep ==
  ASSUME Settled, NEW p \in Procs, Close(p)
  PROVE  Move(p)
<1>1. /\ c[p] \in Frames /\ Control(p) /\ Relies(p) /\ c \in [Procs -> Frames]
      /\ c[p].pc = "idle" /\ c[p] = Idle /\ ~Putting(p) /\ Place(p) = "idle"
      /\ \A j : Count(c[p].puts, j) = 0
  BY Before DEF Close, Begins, At, Putting, Control
<1>2. file[p] \in Inums /\ file \in [Procs -> Inums \cup {None}] /\ active \subseteq Procs
      /\ None \notin Inums
  BY Sizes DEF Close, Settled, Running, Types
<1>3. /\ UNCHANGED <<disk, durable, ic, lost>> /\ active' = active \cup {p}
      /\ file' = [file EXCEPT ![p] = None] /\ Ends(p, <<file[p]>>)
  BY DEF Close, Begins
<1>4. /\ file'[p] = None /\ file' \in [Procs -> Inums \cup {None}]
      /\ \A q \in Procs \ {p} : file'[q] = file[q]
  BY <1>2, <1>3
<1>5. /\ c' \in [Procs -> Frames] /\ \A q \in Procs \ {p} : c'[q] = c[q]
      /\ c'[p].pc # "unref" /\ Control(p)' /\ Relies(p)' /\ \A j : ~Locked(p, j)'
      /\ \A j : RefSum(p, j)' = Count(<<file[p]>>, j) + (IF file'[p] = j THEN 1 ELSE 0)
  <2>1. <<file[p]>> \in Seq(Inums) /\ p \in active'
    BY <1>2, <1>3
  <2>. QED BY <1>2, <1>3, <1>4, <2>1, EndsIs
<1>6. Moved(ic', None, None, Nobody)
  BY <1>3, MovesNot
<1>7. ~HoldsCur(p) /\ ~HoldsIp(p) /\ \A j : ~Locked(p, j)
  BY <1>1 DEF HoldsCur, HoldsIp, Idle, Locked, LocksCur, LocksIp
<1>8. \A j \in Inums : RefSum(p, j)' = RefSum(p, j) + (IF j = None THEN 1 ELSE 0)
  BY <1>1, <1>2, <1>4, <1>5, <1>7, CountOne DEF RefSum
<1>9. active' \subseteq Procs /\ \A q \in Procs \ {p} : q \in active' <=> q \in active
  BY <1>2, <1>3
<1>. QED BY <1>1, <1>2, <1>3, <1>4, <1>5, <1>6, <1>7, <1>8, <1>9, QuietStep

\* The start of filewrite() moves only its own process.
LEMMA WriteStep ==
  ASSUME Settled, NEW p \in Procs, Write(p)
  PROVE  Move(p)
<1> DEFINE f == c'[p]
           g == [c[p] EXCEPT !.pc = "writei", !.ip = file[p]]
<1>1. /\ c[p] \in Frames /\ Control(p) /\ Relies(p) /\ c \in [Procs -> Frames]
      /\ c[p].pc = "idle" /\ c[p] = Idle /\ ~Putting(p) /\ Place(p) = "idle"
      /\ \A j : Count(c[p].puts, j) = 0
  BY Before DEF Write, Begins, At, Putting, Control
<1>2. file[p] \in Inums /\ file \in [Procs -> Inums \cup {None}] /\ active \subseteq Procs
      /\ None \notin Inums
  BY Sizes DEF Write, Settled, Running, Types
<1>3. g \in Frames /\ Become(p, g)
  BY <1>1, <1>2 DEF Frames, Pcs, Write
<1>4. f = g /\ c' \in [Procs -> Frames] /\ \A q \in Procs \ {p} : c'[q] = c[q]
  BY <1>1, <1>3, FrameIs
<1>5. /\ f.pc = "writei" /\ f.call = "none" /\ f.path = <<>> /\ f.new = <<>> /\ f.cur = None
      /\ f.ip = file[p] /\ f.puts = <<>>
  BY <1>1, <1>3, <1>4 DEF Frames, Idle
<1>6. UNCHANGED <<disk, durable, ic, file, lost>> /\ active' = active \cup {p}
  BY DEF Write, Begins
<1>7. Moved(ic', None, None, Nobody)
  BY <1>6, MovesNot
<1> HIDE DEF f, g
<1>8. ~Putting(p)' /\ Place(p)' = "writei" /\ ~HoldsCur(p)' /\ ~HoldsIp(p)' /\ ~HoldsCur(p)
      /\ ~HoldsIp(p)
  BY <1>1, <1>5 DEF Putting, Place, HoldsCur, HoldsIp, f, Idle
<1>9. \A j \in Inums : RefSum(p, j)' = RefSum(p, j) + (IF j = None THEN 1 ELSE 0)
  BY <1>1, <1>2, <1>5, <1>6, <1>8, CountOne DEF RefSum, f
<1>10. \A j \in Inums : ~Locked(p, j) /\ ~Locked(p, j)'
  BY <1>1, <1>8 DEF Locked, LocksCur, LocksIp
<1>11. Control(p)'
  BY <1>1, <1>2, <1>5, <1>6, <1>8 DEF Control, PutsShape, f
<1>12. Relies(p)'
  BY <1>1, <1>5, <1>6, <1>8 DEF Relies, f, AtDirectory
<1>13. active' \subseteq Procs
  BY <1>2, <1>6
<1>. QED BY <1>1, <1>2, <1>4, <1>5, <1>6, <1>7, <1>9, <1>10, <1>11, <1>12, <1>13, QuietStep DEF f

\* End_op() moves only its own process.
LEMMA EndOpStep ==
  ASSUME Settled, NEW p \in Procs, EndOp(p)
  PROVE  Move(p)
<1>1. /\ c[p] \in Frames /\ Control(p) /\ Relies(p) /\ c \in [Procs -> Frames]
      /\ c[p].pc = "end" /\ ~Putting(p) /\ Place(p) = "end"
      /\ \A j : Count(c[p].puts, j) = 0
  BY Before DEF EndOp, At, Putting
<1>2. Idle \in Frames /\ Become(p, Idle)
  BY DEF EndOp, Become, Idle, Frames, Pcs, Calls, Thens
<1>3. c'[p] = Idle /\ c' \in [Procs -> Frames] /\ \A q \in Procs \ {p} : c'[q] = c[q]
  BY <1>1, <1>2, FrameIs
<1>4. /\ c'[p].pc = "idle" /\ c'[p].call = "none" /\ c'[p].cur = None /\ c'[p].ip = None
         /\ c'[p].puts = <<>>
  BY <1>3 DEF Idle
<1>5. UNCHANGED <<disk, ic, file, lost>> /\ active' = active \ {p}
  BY DEF EndOp
<1>6. Types /\ None \notin Inums
  BY Sizes DEF Settled, Running
<1>7. ~Putting(p)' /\ Place(p)' = "idle" /\ ~HoldsCur(p)' /\ ~HoldsIp(p)' /\ ~HoldsCur(p)
      /\ ~HoldsIp(p)
  BY <1>1, <1>4 DEF Putting, Place, HoldsCur, HoldsIp, Control
<1>8. \A j \in Inums : ~Locked(p, j) /\ ~Locked(p, j)'
  BY <1>1, <1>7 DEF Locked, LocksCur, LocksIp
<1>9. Control(p)'
  BY <1>1, <1>3, <1>4, <1>5, <1>7 DEF Control, PutsShape
<1>10. Relies(p)'
  BY <1>1, <1>4, <1>5, <1>7 DEF Relies, AtDirectory
<1>11. Aside(p)
  BY <1>3, <1>5 DEF Aside
<1>12. Trusted(p)
  BY <1>5 DEF Trusted
<1>13. Types'
  BY <1>3, <1>5, <1>6 DEF Types, EndOp
<1>14. CacheHonest'
  BY <1>5 DEF CacheHonest, Settled, Running
<1>15. \A j \in Inums : References(p, j) = RefSum(p, j) /\ References(p, j)' = RefSum(p, j)'
  <2>1. RefSums /\ RefSums'
    BY RefSumsHold, PTL
  <2>. QED BY <2>1 DEF RefSums
<1>16. Accounts(p)
  <2>1. \A j \in Inums : RefSum(p, j)' = RefSum(p, j)
    BY <1>1, <1>4, <1>5, <1>7, CountOne DEF RefSum
  <2>. QED BY <1>5, <1>15, <2>1 DEF Accounts
<1>17. HeldUsed(p)'
  <2>1. \A j \in Inums : Holds(p, j)' => Holds(p, j)
    BY <1>4, <1>5, <1>7 DEF Holds
  <2>. QED BY <1>5, <2>1 DEF HeldUsed, Settled, Running, HeldIsUsed
<1>18. LockMoves(p)
  BY <1>5, <1>8 DEF LockMoves
<1>19. Gains(p)
  <2>1. \A j \in Inums : ic[j].ref \in Nat
    BY Knows
  <2>. QED BY <1>4, <1>5, <2>1 DEF Gains
<1>. QED BY <1>9, <1>10, <1>11, <1>12, <1>13, <1>14, <1>16, <1>17, <1>18, <1>19 DEF Move, Step

\* The end of namex() or nameiparent() moves only its own process.
LEMMA WalkEndsStep ==
  ASSUME Settled, NEW p \in Procs, WalkEnds(p)
  PROVE  Move(p)
<1> DEFINE i == c[p].cur
           here == c'[p].pc = "found"
           f == c'[p]
<1>1. /\ c[p] \in Frames /\ Control(p) /\ Relies(p) /\ c \in [Procs -> Frames]
      /\ c[p].pc = "walk" /\ c[p].puts = <<>> /\ ~Putting(p) /\ Place(p) = "walk"
      /\ \A j : Count(c[p].puts, j) = 0
  BY Before DEF WalkEnds, At, Putting
<1>2. i \in Inums /\ HoldsCur(p) /\ Holds(p, i)
  BY <1>1 DEF Control, HoldsCur, Frames, Holds
<1>3. ic[i].ref > 0 /\ disk.type[i] # "none" /\ TypeOf(i) = disk.type[i]
  BY <1>2, Knows
<1>4. /\ f \in Frames /\ c' \in [Procs -> Frames] /\ \A q \in Procs \ {p} : c'[q] = c[q]
      /\ f.puts = <<>> /\ f.call = c[p].call /\ f.new = c[p].new /\ f.cur = i /\ f.path = c[p].path
      /\ \/ f.pc = "found" /\ f.ip = i /\ c[p].path = <<>>
         \/ /\ f.pc = "parent" /\ f.ip = c[p].ip /\ (WantsParent(p) \/ c[p].call = "link2")
            /\ Len(c[p].path) = 1 /\ disk.type[i] = "dir"
      /\ Moved(ic', None, None, Nobody)
  <2> HIDE DEF i
  <2>1. CASE c[p].path = <<>> /\ Become(p, [c[p] EXCEPT !.pc = "found", !.ip = i]) /\ UNCHANGED ic
    <3> DEFINE g == [c[p] EXCEPT !.pc = "found", !.ip = i]
    <3>1. g \in Frames
      BY <1>1, <1>2 DEF Frames, Pcs
    <3>2. f = g /\ c' \in [Procs -> Frames] /\ \A q \in Procs \ {p} : c'[q] = c[q]
      BY <1>1, <2>1, <3>1, FrameIs
    <3>3. Moved(ic', None, None, Nobody)
      BY <2>1, MovesNot
    <3>. QED BY <1>1, <2>1, <3>1, <3>2, <3>3 DEF Frames, i
  <2>2. CASE /\ WantsParent(p) \/ c[p].call = "link2"
             /\ Len(c[p].path) = 1
             /\ CanLock(i) /\ ~NoType(i) /\ TypeOf(i) = "dir"
             /\ ic' = Iunlock(Ilock(ic, i, p), i)
             /\ Become(p, [c[p] EXCEPT !.pc = "parent"])
    <3> DEFINE g == [c[p] EXCEPT !.pc = "parent"]
    <3>1. g \in Frames
      BY <1>1 DEF Frames, Pcs
    <3>2. f = g /\ c' \in [Procs -> Frames] /\ \A q \in Procs \ {p} : c'[q] = c[q]
      BY <1>1, <2>2, <3>1, FrameIs
    <3>3. ic' = Seen(ic, i, p)
      BY <2>2 DEF Seen
    <3>4. Moved(ic', None, None, Nobody)
      BY <1>2, <1>3, <2>2, <3>3, MovesSeen DEF i
    <3>. QED BY <1>1, <1>3, <2>2, <3>1, <3>2, <3>4 DEF Frames, i
  <2>. QED BY <2>1, <2>2 DEF WalkEnds, i
<1>5. UNCHANGED <<disk, durable, active, file, lost>> /\ None \notin Inums
  BY Sizes DEF WalkEnds
<1>6. c[p].call # "none" /\ (c[p].path = <<>> => c[p].call # "link2")
  BY <1>1 DEF Control
<1> HIDE DEF f
<1>7. /\ ~Putting(p)' /\ Place(p)' = f.pc
      /\ HoldsCur(p)' <=> f.pc = "parent"
      /\ HoldsIp(p)' <=> f.pc = "found" \/ c[p].call = "link2"
      /\ HoldsIp(p) <=> c[p].call = "link2"
  BY <1>1, <1>4, <1>6 DEF Putting, Place, HoldsCur, HoldsIp, f
<1>8. \A j \in Inums : RefSum(p, j)' = RefSum(p, j) + (IF j = None THEN 1 ELSE 0)
  BY <1>1, <1>2, <1>4, <1>5, <1>6, <1>7, CountOne DEF RefSum, f
<1>9. \A j \in Inums : ~Locked(p, j) /\ ~Locked(p, j)'
  BY <1>1, <1>4, <1>7 DEF Locked, LocksCur, LocksIp
<1>10. Control(p)'
  <2>1. PutsShape(p)'
    BY <1>4, <1>7 DEF PutsShape, f
  <2>. QED BY <1>1, <1>2, <1>4, <1>5, <1>6, <1>7, <2>1 DEF Control, f, WantsParent
<1>11. Relies(p)'
  <2>1. c[p].call = "link2" => ic'[c[p].ip].valid
    BY <1>1, <1>4 DEF Relies, Moved, Control, HoldsIp, Frames
  <2>. QED BY <1>1, <1>4, <1>5, <1>6, <1>7, <2>1 DEF Relies, f, AtDirectory
<1>12. active' \subseteq Procs /\ file' \in [Procs -> Inums \cup {None}]
  BY <1>5 DEF Settled, Running, Types
<1>13. c[p].pc # "unref" /\ f.pc # "unref"
  BY <1>1, <1>4
<1>. QED BY <1>4, <1>5, <1>8, <1>9, <1>10, <1>11, <1>12, <1>13, QuietStep DEF f

\* open() has the inode that is left.
LEMMA OpensIs ==
  ASSUME Settled, NEW p \in Procs, NEW i \in Inums, Opens(p, i, disk.type[i]),
         UNCHANGED <<disk, active>>, p \in active
  PROVE  /\ c' \in [Procs -> Frames] /\ \A q \in Procs \ {p} : c'[q] = c[q]
         /\ c'[p].pc # "unref" /\ Control(p)' /\ Relies(p)' /\ \A j : ~Locked(p, j)'
         /\ \A j \in Inums : RefSum(p, j)' =
              (IF i = j THEN 1 ELSE 0) + (IF file[p] = j THEN 1 ELSE 0)
         /\ file' \in [Procs -> Inums \cup {None}] /\ \A q \in Procs \ {p} : file'[q] = file[q]
<1>1. file \in [Procs -> Inums \cup {None}] /\ Relies(p) /\ None \notin Inums
  BY Before, Sizes DEF Settled, Running, Types
<1>2. CASE Ends(p, <<i>>) /\ UNCHANGED file
  <2>1. <<i>> \in Seq(Inums) /\ p \in active'
    OBVIOUS
  <2>2. file'[p] # None => disk'.type[file'[p]] = "file"
    BY <1>1, <1>2 DEF Relies
  <2>3. /\ c' \in [Procs -> Frames] /\ \A q \in Procs \ {p} : c'[q] = c[q]
        /\ c'[p].pc # "unref" /\ Control(p)' /\ Relies(p)' /\ \A j : ~Locked(p, j)'
        /\ \A j : RefSum(p, j)' = Count(<<i>>, j) + (IF file'[p] = j THEN 1 ELSE 0)
    BY <1>2, <2>1, <2>2, EndsIs
  <2>. QED BY <1>1, <1>2, <2>3, CountOne
<1>3. CASE /\ Ends(p, <<>>) /\ file' = [file EXCEPT ![p] = i]
           /\ disk.type[i] = "file" /\ file[p] = None
  <2>1. <<>> \in Seq(Inums) /\ p \in active'
    OBVIOUS
  <2>2. file'[p] = i
    BY <1>1, <1>3
  <2>3. file'[p] # None => disk'.type[file'[p]] = "file"
    BY <1>3, <2>2
  <2>4. /\ c' \in [Procs -> Frames] /\ \A q \in Procs \ {p} : c'[q] = c[q]
        /\ c'[p].pc # "unref" /\ Control(p)' /\ Relies(p)' /\ \A j : ~Locked(p, j)'
        /\ \A j : RefSum(p, j)' = Count(<<>>, j) + (IF file'[p] = j THEN 1 ELSE 0)
    BY <1>3, <2>1, <2>3, EndsIs
  <2>5. \A j \in Inums : RefSum(p, j)' = (IF i = j THEN 1 ELSE 0) + (IF file[p] = j THEN 1 ELSE 0)
    <3>1. \A j : Count(<<>>, j) = 0
      BY CountOne
    <3>2. \A j \in Inums : file[p] # j
      BY <1>1, <1>3
    <3>. QED BY <2>2, <2>4, <3>1, <3>2
  <2>6. file' \in [Procs -> Inums \cup {None}] /\ \A q \in Procs \ {p} : file'[q] = file[q]
    BY <1>1, <1>3
  <2>. QED BY <2>4, <2>5, <2>6
<1>. QED BY <1>2, <1>3 DEF Opens

\* Open() of an existing inode moves only its own process.
LEMMA OpenExistingStep ==
  ASSUME Settled, NEW p \in Procs, OpenExisting(p)
  PROVE  Move(p)
<1> DEFINE i == c[p].ip
<1>1. /\ c[p] \in Frames /\ Control(p) /\ Relies(p) /\ c \in [Procs -> Frames] /\ p # Nobody
      /\ c[p].pc \in {"create_have", "found"} /\ ~Putting(p) /\ Place(p) = c[p].pc
      /\ \A j : Count(c[p].puts, j) = 0
  BY Before DEF OpenExisting, At, Putting
<1>2. i \in Inums /\ HoldsIp(p) /\ Holds(p, i) /\ ~HoldsCur(p)
  BY <1>1 DEF Control, HoldsIp, HoldsCur, Frames, Holds
<1>3. ic[i].ref > 0 /\ disk.type[i] # "none" /\ TypeOf(i) = disk.type[i] /\ CanLock(i)
  BY <1>2, Knows DEF OpenExisting
<1>4. UNCHANGED <<disk, durable, active, lost>> /\ None \notin Inums /\ p \in active
      /\ active \subseteq Procs
  BY <1>1, Sizes DEF OpenExisting, Control, Settled, Running, Types
<1>5. Moved(ic', None, None, Nobody)
  BY <1>2, <1>3, MovesSeen DEF OpenExisting
<1>6. Opens(p, i, disk.type[i])
  BY <1>3 DEF OpenExisting
<1>7. \A j \in Inums : ~Locked(p, j)
  BY <1>1 DEF Locked, LocksCur, LocksIp
<1>8. \A j \in Inums : RefSum(p, j) = (IF i = j THEN 1 ELSE 0) + (IF file[p] = j THEN 1 ELSE 0)
  BY <1>1, <1>2 DEF RefSum
<1> HIDE DEF i
<1>9. /\ c' \in [Procs -> Frames] /\ \A q \in Procs \ {p} : c'[q] = c[q]
      /\ c'[p].pc # "unref" /\ Control(p)' /\ Relies(p)' /\ \A j : ~Locked(p, j)'
      /\ \A j \in Inums : RefSum(p, j)' = RefSum(p, j) + (IF j = None THEN 1 ELSE 0)
      /\ file' \in [Procs -> Inums \cup {None}] /\ \A q \in Procs \ {p} : file'[q] = file[q]
  BY <1>2, <1>4, <1>6, <1>8, OpensIs
<1>. QED BY <1>1, <1>4, <1>5, <1>7, <1>9, QuietStep

\* The end of create() moves only its own process.
LEMMA CreatedStep ==
  ASSUME Settled, NEW p \in Procs, Created(p)
  PROVE  Move(p)
<1> DEFINE i == c[p].ip
<1>1. /\ c[p] \in Frames /\ Control(p) /\ Relies(p) /\ c \in [Procs -> Frames] /\ p # Nobody
      /\ c[p].pc = "created" /\ ~Putting(p) /\ Place(p) = "created"
      /\ \A j : Count(c[p].puts, j) = 0
  BY Before DEF Created, At, Putting
<1>2. i \in Inums /\ HoldsIp(p) /\ Holds(p, i) /\ ~HoldsCur(p)
  BY <1>1 DEF Control, HoldsIp, HoldsCur, Frames, Holds
<1>3. ic[i].ref > 0
  BY <1>2, Knows
<1>4. UNCHANGED <<disk, durable, active, lost>> /\ None \notin Inums /\ p \in active
      /\ active \subseteq Procs
  BY <1>1, Sizes DEF Created, Control, Settled, Running, Types
<1>5. Moved(ic', None, i, Nobody)
  BY <1>2, <1>3, MovesIunlock DEF Created
<1>6. Opens(p, i, disk.type[i])
  BY <1>1 DEF Created, Relies
<1>7. \A j \in Inums : Locked(p, j) <=> j = i
  BY <1>1 DEF Locked, LocksCur, LocksIp
<1>8. \A j \in Inums : RefSum(p, j) = (IF i = j THEN 1 ELSE 0) + (IF file[p] = j THEN 1 ELSE 0)
  BY <1>1, <1>2 DEF RefSum
<1> HIDE DEF i
<1>9. /\ c' \in [Procs -> Frames] /\ \A q \in Procs \ {p} : c'[q] = c[q]
      /\ c'[p].pc # "unref" /\ Control(p)' /\ Relies(p)' /\ \A j : ~Locked(p, j)'
      /\ \A j \in Inums : RefSum(p, j)' = RefSum(p, j) + (IF j = None THEN 1 ELSE 0)
      /\ file' \in [Procs -> Inums \cup {None}] /\ \A q \in Procs \ {p} : file'[q] = file[q]
  BY <1>2, <1>4, <1>6, <1>8, OpensIs
<1>. QED BY <1>1, <1>4, <1>5, <1>7, <1>9, QuietStep

\* The directory a call has come to.
LEMMA AtParentIs ==
  ASSUME Settled, NEW p \in Procs, NEW kinds, AtParent(p, kinds)
  PROVE  /\ c[p].pc = "parent" /\ c[p].call \in kinds /\ ~Putting(p) /\ Place(p) = "parent"
         /\ c[p].cur \in Inums /\ HoldsCur(p) /\ Holds(p, c[p].cur) /\ CanLock(c[p].cur)
         /\ ic[c[p].cur].ref > 0 /\ disk.type[c[p].cur] = "dir"
         /\ c[p].puts = <<>> /\ \A j : Count(c[p].puts, j) = 0
         /\ HoldsIp(p) <=> c[p].call = "link2"
         /\ Len(c[p].path) = 1 /\ Name(p) \in Names /\ Entry(p) \in Inums \cup {None}
         /\ Entry(p) # None => /\ Entry(p) \in Inums /\ disk.nlink[Entry(p)] # 0
                               /\ disk.type[Entry(p)] # "none"
         /\ \A j \in Inums : ~Locked(p, j)
<1>1. /\ c[p] \in Frames /\ Control(p) /\ Relies(p)
      /\ c[p].pc = "parent" /\ c[p].call \in kinds /\ c[p].puts = <<>> /\ ~Putting(p)
         /\ Place(p) = "parent"
      /\ \A j : Count(c[p].puts, j) = 0 /\ CanLock(c[p].cur)
  BY Before DEF AtParent, At, Putting
<1>2. c[p].cur \in Inums /\ HoldsCur(p) /\ Holds(p, c[p].cur)
      /\ (HoldsIp(p) <=> c[p].call = "link2")
  BY <1>1 DEF Control, HoldsCur, HoldsIp, Frames, Holds
<1>3. Len(c[p].path) = 1 /\ disk.type[c[p].cur] = "dir"
  BY <1>1 DEF Relies, AtDirectory
<1>4. Name(p) \in Names
  BY <1>1, <1>3 DEF Name, Frames
<1>5. ic[c[p].cur].ref > 0
  BY <1>2, Knows
<1>6. \A j \in Inums : ~Locked(p, j)
  BY <1>1 DEF Locked, LocksCur, LocksIp
<1>. QED BY <1>1, <1>2, <1>3, <1>4, <1>5, <1>6, EntryIs DEF Entry

\* Create() of a name that exists moves only its own process.
LEMMA CreateFindsStep ==
  ASSUME Settled, NEW p \in Procs, CreateFinds(p)
  PROVE  Move(p)
<1> DEFINE dp == c[p].cur
           e == Entry(p)
           f == c'[p]
           g == Puts([c[p] EXCEPT !.ip = e], <<dp>>, "create_have")
<1>1. AtParent(p, {"create", "mkdir"}) /\ Entry(p) # None /\ Become(p, g)
  BY DEF CreateFinds
<1>2. c[p] \in Frames /\ Control(p) /\ Relies(p) /\ c \in [Procs -> Frames]
  BY Before
<1>3. /\ c[p].pc = "parent" /\ c[p].call \in {"create", "mkdir"} /\ ~Putting(p)
         /\ Place(p) = "parent"
      /\ dp \in Inums /\ HoldsCur(p) /\ CanLock(dp) /\ ic[dp].ref > 0 /\ disk.type[dp] = "dir"
      /\ ~HoldsIp(p) /\ \A j : Count(c[p].puts, j) = 0
      /\ e \in Inums /\ disk.nlink[e] # 0 /\ disk.type[e] # "none" /\ \A j \in Inums : ~Locked(p, j)
  BY <1>1, AtParentIs
<1>4. UNCHANGED <<disk, durable, active, file, lost>> /\ None \notin Inums
  BY Sizes DEF CreateFinds
<1>5. Moved(ic', e, None, Nobody)
  <2>1. Moved(Seen(ic, dp, p), None, None, Nobody)
    BY <1>3, MovesSeen
  <2>2. Moved(Iget(Seen(ic, dp, p), e), e, None, Nobody)
    BY <1>3, <2>1, MovesIget
  <2>. QED BY <2>2 DEF CreateFinds
<1> HIDE DEF e, dp
<1>6. g \in Frames
  <2>1. <<dp>> \in Seq(Inums)
    BY <1>3
  <2>. QED BY <1>2, <1>3, <2>1 DEF Frames, Pcs, Thens, Puts
<1>7. f = g /\ c' \in [Procs -> Frames] /\ \A q \in Procs \ {p} : c'[q] = c[q]
  BY <1>1, <1>2, <1>6, FrameIs
<1>8. f.pc = "iput" /\ f.puts = <<dp>> /\ f.then = "create_have" /\ f.call = c[p].call
      /\ f.ip = e /\ f.new = c[p].new
  BY <1>2, <1>7 DEF Frames, Puts
<1> HIDE DEF f, g
<1>9. /\ Putting(p)' /\ Place(p)' = "create_have" /\ ~HoldsCur(p)' /\ HoldsIp(p)'
  BY <1>8 DEF Putting, Place, HoldsCur, HoldsIp, f
<1>10. \A j \in Inums : RefSum(p, j)' = RefSum(p, j) + (IF j = e THEN 1 ELSE 0)
  BY <1>3, <1>4, <1>8, <1>9, CountOne DEF RefSum, f, dp
<1>11. \A j \in Inums : ~Locked(p, j)'
  BY <1>9 DEF Locked, LocksCur, LocksIp
<1>12. Control(p)'
  <2>1. PutsShape(p)'
    BY <1>3, <1>8, <1>9 DEF PutsShape, f
  <2>. QED BY <1>2, <1>3, <1>4, <1>8, <1>9, <2>1 DEF Control, f, Thens
<1>13. Relies(p)'
  BY <1>2, <1>3, <1>4, <1>8, <1>9 DEF Relies, f, AtDirectory, LocksIp
<1>14. active' \subseteq Procs /\ file' \in [Procs -> Inums \cup {None}]
  BY <1>4 DEF Settled, Running, Types
<1>15. c[p].pc # "unref" /\ c'[p].pc # "unref"
  BY <1>3, <1>8 DEF f
<1>. QED BY <1>3, <1>4, <1>5, <1>7, <1>10, <1>11, <1>12, <1>13, <1>14, <1>15, QuietStep

\* Unlink()'s lookup moves only its own process.
LEMMA UnlinkLookStep ==
  ASSUME Settled, NEW p \in Procs, UnlinkLook(p)
  PROVE  Move(p)
<1> DEFINE dp == c[p].cur
           e == Entry(p)
           f == c'[p]
           g == [c[p] EXCEPT !.pc = "unlink_ip", !.ip = e]
<1>1. AtParent(p, {"unlink"})
  BY DEF UnlinkLook
<1>2. c[p] \in Frames /\ Control(p) /\ Relies(p) /\ c \in [Procs -> Frames] /\ p # Nobody
  BY Before
<1>3. /\ c[p].pc = "parent" /\ c[p].call = "unlink" /\ ~Putting(p) /\ Place(p) = "parent"
      /\ c[p].puts = <<>>
      /\ dp \in Inums /\ HoldsCur(p) /\ CanLock(dp) /\ ic[dp].ref > 0 /\ disk.type[dp] = "dir"
      /\ ~HoldsIp(p) /\ (\A j : Count(c[p].puts, j) = 0) /\ Len(c[p].path) = 1
      /\ e # None => e \in Inums /\ disk.nlink[e] # 0 /\ disk.type[e] # "none"
      /\ \A j \in Inums : ~Locked(p, j)
  BY <1>1, AtParentIs
<1>4. UNCHANGED <<disk, durable, active, file, lost>> /\ None \notin Inums
  BY Sizes DEF UnlinkLook
<1>5. active' \subseteq Procs /\ file' \in [Procs -> Inums \cup {None}] /\ p \in active
  BY <1>2, <1>3, <1>4 DEF Settled, Running, Types, Control
<1>6. CASE e = None
  <2>1. Moved(ic', None, None, Nobody)
    BY <1>3, <1>6, MovesSeen DEF UnlinkLook
  <2>2. Ends(p, <<dp>>)
    BY <1>6 DEF UnlinkLook
  <2>3. \A j \in Inums : RefSum(p, j) = (IF dp = j THEN 1 ELSE 0) + (IF file[p] = j THEN 1 ELSE 0)
    BY <1>3 DEF RefSum
  <2> HIDE DEF dp
  <2>4. /\ c' \in [Procs -> Frames] /\ \A q \in Procs \ {p} : c'[q] = c[q]
        /\ c'[p].pc # "unref" /\ Control(p)' /\ Relies(p)' /\ \A j : ~Locked(p, j)'
        /\ \A j : RefSum(p, j)' = Count(<<dp>>, j) + (IF file'[p] = j THEN 1 ELSE 0)
    <3>1. <<dp>> \in Seq(Inums) /\ p \in active'
          /\ (file'[p] # None => disk'.type[file'[p]] = "file")
      BY <1>2, <1>3, <1>4, <1>5 DEF Relies
    <3>. QED BY <1>3, <2>2, <3>1, EndsIs
  <2>5. \A j \in Inums : RefSum(p, j)' = RefSum(p, j) + (IF j = None THEN 1 ELSE 0)
    BY <1>4, <2>3, <2>4, CountOne
  <2>. QED BY <1>3, <1>4, <1>5, <2>1, <2>4, <2>5, QuietStep
<1>7. CASE e # None
  <2>1. Moved(ic', e, dp, p)
    <3>1. Moved(Ilock(ic, dp, p), None, dp, p)
      BY <1>3, MovesIlock
    <3>2. Moved(Iget(Ilock(ic, dp, p), e), e, dp, p)
      BY <1>3, <1>7, <3>1, MovesIget
    <3>. QED BY <1>7, <3>2 DEF UnlinkLook
  <2>2. Become(p, g)
    BY <1>7 DEF UnlinkLook
  <2> HIDE DEF e, dp
  <2>3. g \in Frames
    BY <1>2, <1>3, <1>7 DEF Frames, Pcs
  <2>4. f = g /\ c' \in [Procs -> Frames] /\ \A q \in Procs \ {p} : c'[q] = c[q]
    BY <1>2, <2>2, <2>3, FrameIs
  <2>5. /\ f.pc = "unlink_ip" /\ f.puts = <<>> /\ f.call = "unlink" /\ f.ip = e /\ f.cur = dp
        /\ f.path = c[p].path /\ f.new = c[p].new
    BY <1>2, <1>3, <2>4 DEF Frames, dp
  <2> HIDE DEF f, g
  <2>6. ~Putting(p)' /\ Place(p)' = "unlink_ip" /\ HoldsCur(p)' /\ HoldsIp(p)'
    BY <2>5 DEF Putting, Place, HoldsCur, HoldsIp, f
  <2>7. \A j \in Inums : RefSum(p, j)' = RefSum(p, j) + (IF j = e THEN 1 ELSE 0)
    BY <1>3, <1>4, <2>5, <2>6, CountOne DEF RefSum, f, dp
  <2>8. \A j \in Inums : Locked(p, j)' <=> j = dp
    BY <2>5, <2>6 DEF Locked, LocksCur, LocksIp, f
  <2>9. Control(p)'
    <3>1. PutsShape(p)'
      BY <2>5, <2>6 DEF PutsShape, f
    <3>. QED BY <1>2, <1>3, <1>4, <1>5, <1>7, <2>5, <2>6, <3>1 DEF Control, f
  <2>10. Relies(p)'
    <3>1. Entry(p)' = e
      BY <1>4, <2>5 DEF Entry, Name, f, e, dp
    <3>. QED BY <1>2, <1>3, <1>4, <2>5, <2>6, <3>1 DEF Relies, f, AtDirectory
  <2>11. c[p].pc # "unref" /\ c'[p].pc # "unref"
    BY <1>3, <2>5 DEF f
  <2>. QED BY <1>3, <1>4, <1>5, <1>7, <2>1, <2>4, <2>7, <2>8, <2>9, <2>10, <2>11, QuietStep
<1>. QED BY <1>6, <1>7

\* The call at unlink_ip.
LEMMA AtUnlinkIs ==
  ASSUME Settled, NEW p \in Procs, At(p, "unlink_ip")
  PROVE  /\ c[p].call = "unlink" /\ ~Putting(p) /\ Place(p) = "unlink_ip"
         /\ c[p].puts = <<>> /\ \A j : Count(c[p].puts, j) = 0
         /\ c[p].cur \in Inums /\ HoldsCur(p) /\ Holds(p, c[p].cur) /\ ic[c[p].cur].ref > 0
         /\ c[p].ip \in Inums /\ HoldsIp(p) /\ Holds(p, c[p].ip) /\ ic[c[p].ip].ref > 0
         /\ disk.type[c[p].cur] = "dir" /\ disk.type[c[p].ip] # "none"
         /\ Len(c[p].path) = 1 /\ Name(p) \in Names /\ Entry(p) = c[p].ip
         /\ \A j : Locked(p, j) <=> j = c[p].cur
<1>1. /\ c[p] \in Frames /\ Control(p) /\ Relies(p)
      /\ c[p].pc = "unlink_ip" /\ ~Putting(p) /\ Place(p) = "unlink_ip"
      /\ c[p].puts = <<>> /\ \A j : Count(c[p].puts, j) = 0
  BY Before DEF At, Putting
<1>2. /\ c[p].cur \in Inums /\ HoldsCur(p) /\ Holds(p, c[p].cur)
      /\ c[p].ip \in Inums /\ HoldsIp(p) /\ Holds(p, c[p].ip) /\ c[p].call = "unlink"
  BY <1>1 DEF Control, HoldsCur, HoldsIp, Frames, Holds
<1>3. Len(c[p].path) = 1 /\ disk.type[c[p].cur] = "dir" /\ Entry(p) = c[p].ip
  BY <1>1 DEF Relies, AtDirectory
<1>4. Name(p) \in Names
  BY <1>1, <1>3 DEF Name, Frames
<1>5. ic[c[p].cur].ref > 0 /\ ic[c[p].ip].ref > 0 /\ disk.type[c[p].ip] # "none"
  BY <1>2, Knows
<1>6. \A j : Locked(p, j) <=> j = c[p].cur
  BY <1>1 DEF Locked, LocksCur, LocksIp
<1>. QED BY <1>1, <1>2, <1>3, <1>4, <1>5, <1>6

\* Unlink() of a directory with entries moves only its own process.
LEMMA UnlinkNotEmptyStep ==
  ASSUME Settled, NEW p \in Procs, UnlinkNotEmpty(p)
  PROVE  Move(p)
<1> DEFINE i == c[p].ip
           f == c'[p]
           g == Puts(c[p], <<i>>, "unlink_bad")
<1>1. At(p, "unlink_ip") /\ CanLock(i) /\ Become(p, g) /\ ic' = Seen(ic, i, p)
  BY DEF UnlinkNotEmpty
<1>2. c[p] \in Frames /\ Control(p) /\ Relies(p) /\ c \in [Procs -> Frames] /\ p # Nobody
      /\ c[p].pc = "unlink_ip"
  BY <1>1, Before DEF At
<1>3. /\ c[p].call = "unlink" /\ Place(p) = "unlink_ip" /\ \A j : Count(c[p].puts, j) = 0
      /\ c[p].cur \in Inums /\ HoldsCur(p) /\ i \in Inums /\ HoldsIp(p) /\ ic[i].ref > 0
      /\ disk.type[c[p].cur] = "dir" /\ disk.type[i] # "none"
      /\ Len(c[p].path) = 1 /\ Entry(p) = i /\ \A j : Locked(p, j) <=> j = c[p].cur
  BY <1>1, AtUnlinkIs
<1>4. UNCHANGED <<disk, durable, active, file, lost>> /\ None \notin Inums
  BY Sizes DEF UnlinkNotEmpty
<1>5. active' \subseteq Procs /\ file' \in [Procs -> Inums \cup {None}] /\ p \in active
  BY <1>2, <1>3, <1>4 DEF Settled, Running, Types, Control
<1>6. Moved(ic', None, None, Nobody)
  BY <1>1, <1>3, MovesSeen
<1> HIDE DEF i
<1>7. g \in Frames
  <2>1. <<i>> \in Seq(Inums)
    BY <1>3
  <2>. QED BY <1>2, <2>1 DEF Frames, Pcs, Thens, Puts
<1>8. f = g /\ c' \in [Procs -> Frames] /\ \A q \in Procs \ {p} : c'[q] = c[q]
  BY <1>1, <1>2, <1>7, FrameIs
<1>9. /\ f.pc = "iput" /\ f.puts = <<i>> /\ f.then = "unlink_bad" /\ f.call = "unlink" /\ f.ip = i
      /\ f.cur = c[p].cur /\ f.path = c[p].path /\ f.new = c[p].new
  BY <1>2, <1>3, <1>8 DEF Frames, Puts, i
<1> HIDE DEF f, g
<1>10. Putting(p)' /\ Place(p)' = "unlink_bad" /\ HoldsCur(p)' /\ ~HoldsIp(p)'
  BY <1>9 DEF Putting, Place, HoldsCur, HoldsIp, f
<1>11. \A j \in Inums : RefSum(p, j)' = RefSum(p, j) + (IF j = None THEN 1 ELSE 0)
  BY <1>3, <1>4, <1>9, <1>10, CountOne DEF RefSum, f, i
<1>12. \A j \in Inums : Locked(p, j)' <=> j = c[p].cur
  BY <1>9, <1>10 DEF Locked, LocksCur, LocksIp, f
<1>13. Control(p)'
  <2>1. PutsShape(p)'
    BY <1>3, <1>9, <1>10 DEF PutsShape, f
  <2>. QED BY <1>2, <1>3, <1>4, <1>5, <1>9, <1>10, <2>1 DEF Control, f, Thens
<1>14. Relies(p)'
  <2>1. Entry(p)' = i
    BY <1>3, <1>4, <1>9 DEF Entry, Name, f
  <2>. QED BY <1>2, <1>3, <1>4, <1>9, <1>10, <2>1 DEF Relies, f, AtDirectory, LocksIp
<1>15. c[p].pc # "unref" /\ c'[p].pc # "unref"
  BY <1>2, <1>9 DEF f
<1>. QED BY <1>3, <1>4, <1>5, <1>6, <1>8, <1>11, <1>12, <1>13, <1>14, <1>15, QuietStep

\* Unlink()'s failure moves only its own process.
LEMMA UnlinkBadStep ==
  ASSUME Settled, NEW p \in Procs, UnlinkBad(p)
  PROVE  Move(p)
<1> DEFINE dp == c[p].cur
<1>1. /\ c[p] \in Frames /\ Control(p) /\ Relies(p) /\ c \in [Procs -> Frames] /\ p # Nobody
      /\ c[p].pc = "unlink_bad" /\ ~Putting(p) /\ Place(p) = "unlink_bad"
      /\ \A j : Count(c[p].puts, j) = 0
  BY Before DEF UnlinkBad, At, Putting
<1>2. dp \in Inums /\ HoldsCur(p) /\ Holds(p, dp) /\ ~HoldsIp(p)
  BY <1>1 DEF Control, HoldsCur, HoldsIp, Frames, Holds
<1>3. ic[dp].ref > 0
  BY <1>2, Knows
<1>4. UNCHANGED <<disk, durable, active, file, lost>> /\ None \notin Inums
  BY Sizes DEF UnlinkBad
<1>5. active' \subseteq Procs /\ file' \in [Procs -> Inums \cup {None}] /\ p \in active
  BY <1>1, <1>4 DEF Settled, Running, Types, Control
<1>6. Moved(ic', None, dp, Nobody)
  BY <1>2, <1>3, MovesIunlock DEF UnlinkBad
<1>7. \A j \in Inums : Locked(p, j) <=> j = dp
  BY <1>1 DEF Locked, LocksCur, LocksIp
<1>8. \A j \in Inums : RefSum(p, j) = (IF dp = j THEN 1 ELSE 0) + (IF file[p] = j THEN 1 ELSE 0)
  BY <1>1, <1>2 DEF RefSum
<1>9. Ends(p, <<dp>>)
  BY DEF UnlinkBad
<1> HIDE DEF dp
<1>10. /\ c' \in [Procs -> Frames] /\ \A q \in Procs \ {p} : c'[q] = c[q]
       /\ c'[p].pc # "unref" /\ Control(p)' /\ Relies(p)' /\ \A j : ~Locked(p, j)'
       /\ \A j : RefSum(p, j)' = Count(<<dp>>, j) + (IF file'[p] = j THEN 1 ELSE 0)
  <2>1. <<dp>> \in Seq(Inums) /\ p \in active' /\ (file'[p] # None => disk'.type[file'[p]] = "file")
    BY <1>1, <1>2, <1>4, <1>5 DEF Relies
  <2>. QED BY <1>2, <1>9, <2>1, EndsIs
<1>11. \A j \in Inums : RefSum(p, j)' = RefSum(p, j) + (IF j = None THEN 1 ELSE 0)
  BY <1>4, <1>8, <1>10, CountOne
<1>. QED BY <1>1, <1>4, <1>5, <1>6, <1>7, <1>10, <1>11, QuietStep

\* Link() to a name that exists moves only its own process.
LEMMA LinkExistsStep ==
  ASSUME Settled, NEW p \in Procs, LinkExists(p)
  PROVE  Move(p)
<1> DEFINE dp == c[p].cur
           f == c'[p]
           g == Puts(c[p], <<dp>>, "link_bad")
<1>1. /\ c[p] \in Frames /\ Control(p) /\ Relies(p) /\ c \in [Procs -> Frames] /\ p # Nobody
      /\ c[p].pc = "link_exists" /\ ~Putting(p) /\ Place(p) = "link_exists"
      /\ \A j : Count(c[p].puts, j) = 0
  BY Before DEF LinkExists, At, Putting
<1>2. dp \in Inums /\ HoldsCur(p) /\ Holds(p, dp) /\ HoldsIp(p) /\ c[p].call = "link2"
      /\ c[p].ip \in Inums
  BY <1>1 DEF Control, HoldsCur, HoldsIp, Frames, Holds
<1>3. ic[dp].ref > 0 /\ disk.type[c[p].ip] = "file" /\ ic[c[p].ip].valid
  BY <1>1, <1>2, Knows DEF Relies
<1>4. UNCHANGED <<disk, durable, active, file, lost>> /\ None \notin Inums
  BY Sizes DEF LinkExists
<1>5. active' \subseteq Procs /\ file' \in [Procs -> Inums \cup {None}] /\ p \in active
  BY <1>1, <1>4 DEF Settled, Running, Types, Control
<1>6. Moved(ic', None, dp, Nobody)
  BY <1>2, <1>3, MovesIunlock DEF LinkExists
<1>7. \A j \in Inums : Locked(p, j) <=> j = dp
  BY <1>1 DEF Locked, LocksCur, LocksIp
<1> HIDE DEF dp
<1>8. g \in Frames /\ Become(p, g)
  <2>1. <<dp>> \in Seq(Inums)
    BY <1>2
  <2>. QED BY <1>1, <2>1 DEF Frames, Pcs, Thens, Puts, LinkExists, dp
<1>9. f = g /\ c' \in [Procs -> Frames] /\ \A q \in Procs \ {p} : c'[q] = c[q]
  BY <1>1, <1>8, FrameIs
<1>10. /\ f.pc = "iput" /\ f.puts = <<dp>> /\ f.then = "link_bad" /\ f.call = "link2"
          /\ f.ip = c[p].ip
       /\ f.cur = dp /\ f.path = c[p].path /\ f.new = c[p].new
  BY <1>1, <1>2, <1>9 DEF Frames, Puts, dp
<1> HIDE DEF f, g
<1>11. Putting(p)' /\ Place(p)' = "link_bad" /\ ~HoldsCur(p)' /\ HoldsIp(p)'
  BY <1>10 DEF Putting, Place, HoldsCur, HoldsIp, f
<1>12. \A j \in Inums : RefSum(p, j)' = RefSum(p, j) + (IF j = None THEN 1 ELSE 0)
  BY <1>1, <1>2, <1>4, <1>10, <1>11, CountOne DEF RefSum, f, dp
<1>13. \A j \in Inums : ~Locked(p, j)'
  BY <1>11 DEF Locked, LocksCur, LocksIp
<1>14. Control(p)'
  <2>1. PutsShape(p)'
    BY <1>2, <1>10, <1>11 DEF PutsShape, f
  <2>. QED BY <1>1, <1>2, <1>4, <1>5, <1>10, <1>11, <2>1 DEF Control, f, Thens
<1>15. Relies(p)'
  <2>1. ic'[c[p].ip].valid
    BY <1>2, <1>3, <1>6 DEF Moved
  <2>. QED BY <1>1, <1>3, <1>4, <1>10, <1>11, <2>1 DEF Relies, f, AtDirectory, LocksIp
<1>16. c[p].pc # "unref" /\ c'[p].pc # "unref"
  BY <1>1, <1>10 DEF f
<1>. QED BY <1>1, <1>2, <1>4, <1>5, <1>6, <1>7, <1>9, <1>12, <1>13, <1>14, <1>15, <1>16, QuietStep

\* link() finds that the new name exists.
LEMMA LinkNewExistsStep ==
  ASSUME Settled, NEW p \in Procs, LinkNew(p), Entry(p) # None
  PROVE  Move(p)
<1> DEFINE dp == c[p].cur
           e == Entry(p)
           f == c'[p]
           g == Puts(c[p], <<e>>, "link_exists")
<1>1. AtParent(p, {"link2"}) /\ Become(p, g) /\ ic' = Iget(Ilock(ic, dp, p), e)
  BY DEF LinkNew
<1>2. c[p] \in Frames /\ Control(p) /\ Relies(p) /\ c \in [Procs -> Frames] /\ p # Nobody
  BY Before
<1>3. /\ c[p].pc = "parent" /\ c[p].call = "link2" /\ ~Putting(p) /\ Place(p) = "parent"
      /\ dp \in Inums /\ HoldsCur(p) /\ CanLock(dp) /\ ic[dp].ref > 0 /\ disk.type[dp] = "dir"
      /\ HoldsIp(p) /\ (\A j : Count(c[p].puts, j) = 0) /\ Len(c[p].path) = 1
      /\ e \in Inums /\ disk.nlink[e] # 0 /\ disk.type[e] # "none" /\ \A j \in Inums : ~Locked(p, j)
  BY <1>1, AtParentIs
<1>4. UNCHANGED <<disk, durable, active, file, lost>> /\ None \notin Inums
  BY Sizes DEF LinkNew
<1>5. active' \subseteq Procs /\ file' \in [Procs -> Inums \cup {None}] /\ p \in active
  BY <1>2, <1>3, <1>4 DEF Settled, Running, Types, Control
<1>6. c[p].ip \in Inums /\ disk.type[c[p].ip] = "file" /\ ic[c[p].ip].valid
  BY <1>2, <1>3 DEF Control, Frames, Relies
<1>7. Moved(ic', e, dp, p)
  <2>1. Moved(Ilock(ic, dp, p), None, dp, p)
    BY <1>3, MovesIlock
  <2>2. Moved(Iget(Ilock(ic, dp, p), e), e, dp, p)
    BY <1>3, <2>1, MovesIget
  <2>. QED BY <1>1, <2>2
<1> HIDE DEF e, dp
<1>8. g \in Frames
  <2>1. <<e>> \in Seq(Inums)
    BY <1>3
  <2>. QED BY <1>2, <2>1 DEF Frames, Pcs, Thens, Puts
<1>9. f = g /\ c' \in [Procs -> Frames] /\ \A q \in Procs \ {p} : c'[q] = c[q]
  BY <1>1, <1>2, <1>8, FrameIs
<1>10. /\ f.pc = "iput" /\ f.puts = <<e>> /\ f.then = "link_exists" /\ f.call = "link2"
          /\ f.ip = c[p].ip
       /\ f.cur = dp /\ f.path = c[p].path /\ f.new = c[p].new
  BY <1>2, <1>3, <1>9 DEF Frames, Puts, dp
<1> HIDE DEF f, g
<1>11. Putting(p)' /\ Place(p)' = "link_exists" /\ HoldsCur(p)' /\ HoldsIp(p)'
  BY <1>10 DEF Putting, Place, HoldsCur, HoldsIp, f
<1>12. \A j \in Inums : RefSum(p, j)' = RefSum(p, j) + (IF j = e THEN 1 ELSE 0)
  BY <1>3, <1>4, <1>10, <1>11, CountOne DEF RefSum, f, dp
<1>13. \A j \in Inums : Locked(p, j)' <=> j = dp
  BY <1>10, <1>11 DEF Locked, LocksCur, LocksIp, f
<1>14. Control(p)'
  <2>1. PutsShape(p)'
    BY <1>3, <1>10, <1>11 DEF PutsShape, f
  <2>. QED BY <1>2, <1>3, <1>4, <1>5, <1>10, <1>11, <2>1 DEF Control, f, Thens
<1>15. Relies(p)'
  <2>1. Entry(p)' = e /\ ic'[c[p].ip].valid
    BY <1>4, <1>6, <1>7, <1>10 DEF Entry, Name, f, e, dp, Moved
  <2>. QED BY <1>2, <1>3, <1>4, <1>6, <1>10, <1>11, <2>1 DEF Relies, f, AtDirectory, LocksIp
<1>16. c[p].pc # "unref" /\ c'[p].pc # "unref"
  BY <1>3, <1>10 DEF f
<1>. QED BY <1>3, <1>4, <1>5, <1>7, <1>9, <1>12, <1>13, <1>14, <1>15, <1>16, QuietStep

\* link() of a directory.
LEMMA LinkOldDirStep ==
  ASSUME Settled, NEW p \in Procs, LinkOld(p), disk.type[c[p].ip] = "dir"
  PROVE  Move(p)
<1> DEFINE i == c[p].ip
<1>1. /\ c[p] \in Frames /\ Control(p) /\ Relies(p) /\ c \in [Procs -> Frames] /\ p # Nobody
      /\ c[p].pc = "found" /\ ~Putting(p) /\ Place(p) = "found"
      /\ \A j : Count(c[p].puts, j) = 0
  BY Before DEF LinkOld, At, Putting
<1>2. i \in Inums /\ HoldsIp(p) /\ Holds(p, i) /\ ~HoldsCur(p)
  BY <1>1 DEF Control, HoldsIp, HoldsCur, Frames, Holds
<1>3. ic[i].ref > 0 /\ TypeOf(i) = "dir" /\ CanLock(i)
  BY <1>2, Knows DEF LinkOld
<1>4. UNCHANGED <<disk, durable, active, file, lost>> /\ None \notin Inums
  BY <1>3, Sizes DEF LinkOld
<1>5. active' \subseteq Procs /\ file' \in [Procs -> Inums \cup {None}] /\ p \in active
  BY <1>1, <1>4 DEF Settled, Running, Types, Control
<1>6. Moved(ic', None, None, Nobody)
  BY <1>2, <1>3, MovesSeen DEF LinkOld
<1>7. \A j \in Inums : ~Locked(p, j)
  BY <1>1 DEF Locked, LocksCur, LocksIp
<1>8. \A j \in Inums : RefSum(p, j) = (IF i = j THEN 1 ELSE 0) + (IF file[p] = j THEN 1 ELSE 0)
  BY <1>1, <1>2 DEF RefSum
<1>9. Ends(p, <<i>>)
  BY <1>3 DEF LinkOld
<1> HIDE DEF i
<1>10. /\ c' \in [Procs -> Frames] /\ \A q \in Procs \ {p} : c'[q] = c[q]
       /\ c'[p].pc # "unref" /\ Control(p)' /\ Relies(p)' /\ \A j : ~Locked(p, j)'
       /\ \A j : RefSum(p, j)' = Count(<<i>>, j) + (IF file'[p] = j THEN 1 ELSE 0)
  <2>1. <<i>> \in Seq(Inums) /\ p \in active' /\ (file'[p] # None => disk'.type[file'[p]] = "file")
    BY <1>1, <1>2, <1>4, <1>5 DEF Relies
  <2>. QED BY <1>2, <1>9, <2>1, EndsIs
<1>11. \A j \in Inums : RefSum(p, j)' = RefSum(p, j) + (IF j = None THEN 1 ELSE 0)
  BY <1>4, <1>8, <1>10, CountOne
<1>. QED BY <1>1, <1>4, <1>5, <1>6, <1>7, <1>10, <1>11, QuietStep

\* A step that changes the disk.
LEMMA DiskStep ==
  ASSUME Settled, NEW p \in Procs, NEW got \in Inums \cup {None},
         UNCHANGED <<durable, lost, active, file>>, disk' \in Disks, c' \in [Procs -> Frames],
         \A q \in Procs \ {p} : c'[q] = c[q],
         ic' \in [Inums -> CacheEntries], HonestIn(ic', disk'),
         \A i \in Inums : ic'[i].ref = ic[i].ref + (IF i = got THEN 1 ELSE 0),
         \A i \in Inums : Holds(p, i) \/ i = got => disk'.type[i] # "none",
         c[p].pc # "unref", c'[p].pc # "unref",
         Trusted(p), LockMoves(p), Control(p)', Relies(p)',
         \A i \in Inums : RefSum(p, i)' = RefSum(p, i) + (IF i = got THEN 1 ELSE 0)
  PROVE  Move(p)
<1>1. Running /\ Control(p) /\ ic \in [Inums -> CacheEntries]
  BY Before DEF Settled
<1>2. Aside(p)
  BY DEF Aside
<1>3. Types'
  BY <1>1 DEF Running, Types
<1>4. CacheHonest'
  BY DEF HonestIn, CacheHonest
<1>5. \A i \in Inums : References(p, i) = RefSum(p, i) /\ References(p, i)' = RefSum(p, i)'
  <2>1. RefSums /\ RefSums'
    BY RefSumsHold, PTL
  <2>. QED BY <2>1 DEF RefSums
<1>6. AllControl'
  BY <1>1, <1>2, ControlKept DEF Running
<1>7. \A i \in Inums : References(p, i) \in Nat /\ References(p, i)' \in Nat
  <2>1. RefsAreNat /\ (AllControl' => RefsAreNat')
    BY <1>1, ReferencesAreNat, PTL DEF Running
  <2>. QED BY <1>6, <2>1 DEF RefsAreNat
<1>8. Accounts(p)
  <2>1. \A i \in Inums : ic[i].ref \in Nat
    BY <1>1 DEF CacheEntries
  <2>. QED BY <1>5, <1>7, <2>1 DEF Accounts
<1>9. HeldUsed(p)'
  <2>1. ASSUME NEW i \in Inums, Holds(p, i)' PROVE disk'.type[i] # "none"
    <3>1. HeldCounts /\ HeldCounts'
      BY <1>1, <1>6, HeldIsCounted, PTL DEF Running
    <3>2. References(p, i)' > 0
      BY <2>1, <3>1 DEF HeldCounts
    <3>3. References(p, i) > 0 \/ i = got
      BY <1>5, <1>7, <3>2
    <3>4. Holds(p, i) \/ i = got
      BY <3>1, <3>3 DEF HeldCounts
    <3>. QED BY <3>4
  <2>. QED BY <2>1 DEF HeldUsed
<1>10. Gains(p)
  <2>1. \A i \in Inums : ic[i].ref \in Nat
    BY <1>1 DEF CacheEntries
  <2>. QED BY <2>1 DEF Gains
<1>. QED BY <1>2, <1>3, <1>4, <1>8, <1>9, <1>10 DEF Move, Step

\* iupdate() of a link count.
LEMMA DiskNlinkIs ==
  ASSUME Settled, NEW i \in Inums, NEW n \in Nat
  PROVE  /\ DiskNlink(disk, i, n) \in Disks
         /\ DiskNlink(disk, i, n).type = disk.type /\ DiskNlink(disk, i, n).dir = disk.dir
         /\ DiskNlink(disk, i, n).nlink = [disk.nlink EXCEPT ![i] = n]
         /\ DiskNlink(disk, i, n).data = disk.data /\ DiskNlink(disk, i, n).used = disk.used
<1>1. disk \in Disks /\ TypeOf(i) = disk.type[i]
  BY DEF Settled, Running, Types, CacheHonest, TypeOf
<1>2. [disk.type EXCEPT ![i] = disk.type[i]] = disk.type
  BY <1>1 DEF Disks
<1> DEFINE N == [disk.nlink EXCEPT ![i] = n]
<1>3. DiskNlink(disk, i, n) = [disk EXCEPT !.nlink = N, !.type = disk.type]
  BY <1>1, <1>2 DEF DiskNlink, Disks
<1>4. N \in [Inums -> Nat]
  BY <1>1 DEF Disks
<1> HIDE DEF N
<1>5. /\ DiskNlink(disk, i, n) \in Disks /\ DiskNlink(disk, i, n).nlink = N
      /\ DiskNlink(disk, i, n).type = disk.type /\ DiskNlink(disk, i, n).dir = disk.dir
      /\ DiskNlink(disk, i, n).data = disk.data /\ DiskNlink(disk, i, n).used = disk.used
  BY <1>1, <1>3, <1>4 DEF Disks
<1>. QED BY <1>5 DEF N

\* The count of links an entry of the cache has.
LEMMA ValidIs ==
  ASSUME Settled, NEW i \in Inums, ic[i].valid
  PROVE  ic[i].type = disk.type[i] /\ ic[i].nlink = disk.nlink[i] /\ disk.type[i] # "none"
BY DEF Settled, Running, CacheHonest

\* Writei() is a step of its process, and adds at most a free block.
LEMMA WriteiStep ==
  ASSUME Settled, NEW p \in Procs, Writei(p)
  PROVE  /\ Move(p)
         /\ disk'.type = disk.type /\ disk'.nlink = disk.nlink /\ disk'.dir = disk.dir
         /\ \/ UNCHANGED disk
            \/ \E b \in Blocks \ disk.used :
                 /\ disk'.data = [disk.data EXCEPT ![c[p].ip] = @ \cup {b}]
                 /\ disk'.used = disk.used \cup {b}
<1> DEFINE i == c[p].ip
<1>1. /\ c[p] \in Frames /\ Control(p) /\ Relies(p) /\ c \in [Procs -> Frames] /\ p # Nobody
      /\ c[p].pc = "writei" /\ ~Putting(p) /\ Place(p) = "writei"
      /\ \A j : Count(c[p].puts, j) = 0
  BY Before DEF Writei, At, Putting
<1>2. i \in Inums /\ Holds(p, i) /\ ~HoldsCur(p) /\ ~HoldsIp(p) /\ file[p] = i
  BY <1>1 DEF Control, HoldsIp, HoldsCur, Frames, Holds
<1>3. ic[i].ref > 0 /\ disk.type[i] # "none" /\ CanLock(i)
  BY <1>2, Knows DEF Writei
<1>4. UNCHANGED <<durable, active, file, lost>> /\ None \notin Inums
  BY Sizes DEF Writei
<1>5. Ends(p, <<>>) /\ ic' = Seen(ic, i, p) /\ disk \in Disks
  BY Before DEF Writei
<1>6. /\ disk' \in Disks /\ disk'.type = disk.type /\ disk'.nlink = disk.nlink
         /\ disk'.dir = disk.dir
      /\ \/ UNCHANGED disk
         \/ \E b \in Blocks \ disk.used :
              /\ disk'.data = [disk.data EXCEPT ![i] = @ \cup {b}]
              /\ disk'.used = disk.used \cup {b}
  <2>1. CASE UNCHANGED disk
    BY <1>5, <2>1
  <2>2. CASE \E b \in Blocks \ disk.used :
               disk' = [disk EXCEPT !.data[i] = @ \cup {b}, !.used = @ \cup {b}]
    <3>1. PICK b \in Blocks \ disk.used :
               disk' = [disk EXCEPT !.data[i] = @ \cup {b}, !.used = @ \cup {b}]
      BY <2>2
    <3> HIDE DEF i
    <3> DEFINE D == [disk.data EXCEPT ![i] = @ \cup {b}]
               U == disk.used \cup {b}
    <3>2. D \in [Inums -> SUBSET Blocks] /\ U \in SUBSET Blocks
      BY <1>2, <1>5 DEF Disks
    <3>3. disk' = [disk EXCEPT !.data = D, !.used = U]
      BY <3>1
    <3> HIDE DEF D, U
    <3>4. /\ disk' \in Disks /\ disk'.type = disk.type /\ disk'.nlink = disk.nlink
             /\ disk'.dir = disk.dir
          /\ disk'.data = D /\ disk'.used = U
      BY <1>5, <3>2, <3>3 DEF Disks
    <3>. QED BY <3>1, <3>4 DEF D, U
  <2>. QED BY <2>1, <2>2 DEF Writei
<1>7. Moved(ic', None, None, Nobody)
  BY <1>2, <1>3, <1>5, MovesSeen
<1>8. HonestIn(ic', disk') /\ ic' \in [Inums -> CacheEntries]
  BY <1>6, <1>7 DEF Moved, HonestIn
<1>9. \A j \in Inums : ~Locked(p, j)
  BY <1>1 DEF Locked, LocksCur, LocksIp
<1>10. /\ c' \in [Procs -> Frames] /\ \A q \in Procs \ {p} : c'[q] = c[q]
       /\ c'[p].pc # "unref" /\ Control(p)' /\ Relies(p)' /\ \A j : ~Locked(p, j)'
       /\ \A j : RefSum(p, j)' = Count(<<>>, j) + (IF file'[p] = j THEN 1 ELSE 0)
  <2>1. <<>> \in Seq(Inums) /\ p \in active' /\ (file'[p] # None => disk'.type[file'[p]] = "file")
    BY <1>1, <1>2, <1>4, <1>6 DEF Relies, Control
  <2>. QED BY <1>2, <1>5, <2>1, EndsIs
<1>11. \A j \in Inums : RefSum(p, j)' = RefSum(p, j) + (IF j = None THEN 1 ELSE 0)
  BY <1>1, <1>2, <1>4, <1>10, CountOne DEF RefSum
<1>12. Trusted(p)
  BY <1>6, <1>7 DEF Trusted, Moved
<1>13. LockMoves(p)
  BY <1>4, <1>7, <1>9, <1>10 DEF LockMoves, Moved
<1>14. \A j \in Inums : Holds(p, j) \/ j = None => disk'.type[j] # "none"
  BY <1>4, <1>6, Knows
<1>15. \A j \in Inums : ic'[j].ref = ic[j].ref + (IF j = None THEN 1 ELSE 0)
  BY <1>7 DEF Moved
<1>16. Move(p)
  BY <1>1, <1>4, <1>6, <1>8, <1>10, <1>11, <1>12, <1>13, <1>14, <1>15, DiskStep
<1>. QED BY <1>6, <1>16

\* Unlink()'s decrement is a step of its process, and pays the link it owes.
LEMMA UnlinkDropStep ==
  ASSUME Settled, NEW p \in Procs, UnlinkDrop(p)
  PROVE  /\ Move(p) /\ Owes(p, c[p].ip) /\ c[p].ip \in Inums /\ \A j : ~Owes(p, j)'
         /\ disk'.type = disk.type /\ disk'.dir = disk.dir
         /\ disk'.nlink = [disk.nlink EXCEPT ![c[p].ip] = disk.nlink[c[p].ip] - 1]
         /\ disk'.data = disk.data /\ disk'.used = disk.used
<1> DEFINE i == c[p].ip
           n == disk.nlink[i] - 1
           k == SetNlink(ic, i, n)
<1>1. /\ c[p] \in Frames /\ Control(p) /\ Relies(p) /\ c \in [Procs -> Frames] /\ p # Nobody
      /\ c[p].pc = "unlink_drop" /\ ~Putting(p) /\ Place(p) = "unlink_drop"
      /\ \A j : Count(c[p].puts, j) = 0
      /\ ic \in [Inums -> CacheEntries] /\ HonestIn(ic, disk)
  BY Before DEF UnlinkDrop, At, Putting
<1>2. i \in Inums /\ HoldsIp(p) /\ Holds(p, i) /\ ~HoldsCur(p) /\ Owes(p, i)
  BY <1>1 DEF Control, HoldsIp, HoldsCur, Frames, Holds, Owes
<1>3. \A j \in Inums : Locked(p, j) <=> j = i
  BY <1>1 DEF Locked, LocksCur, LocksIp
<1>4. ic[i].lock = p /\ ic[i].ref > 0 /\ disk.nlink[i] \in Nat /\ disk.nlink[i] # 0
  BY <1>2, <1>3, Knows DEF Settled, Reached
<1>5. ic[i].valid /\ ic[i].nlink = disk.nlink[i] /\ n \in Nat
  BY <1>1, <1>2, <1>4 DEF HonestIn
<1>6. UNCHANGED <<durable, active, file, lost>> /\ None \notin Inums
  BY Sizes DEF UnlinkDrop
<1>7. disk' = DiskNlink(disk, i, n) /\ ic' = Iunlock(k, i) /\ Ends(p, <<i>>)
  BY <1>5 DEF UnlinkDrop
<1>8. /\ disk' \in Disks /\ disk'.type = disk.type /\ disk'.dir = disk.dir
      /\ disk'.nlink = [disk.nlink EXCEPT ![i] = n]
      /\ disk'.data = disk.data /\ disk'.used = disk.used
  BY <1>2, <1>5, <1>7, DiskNlinkIs
<1>9. /\ k \in [Inums -> CacheEntries] /\ HonestIn(k, disk')
      /\ \A j \in Inums : j # i => k[j] = ic[j]
      /\ k[i].ref = ic[i].ref /\ k[i].valid
  <2>1. disk'.nlink[i] = n /\ \A j \in Inums \ {i} : disk'.nlink[j] = disk.nlink[j]
    <3>1. disk.nlink \in [Inums -> Nat]
      BY Before DEF Disks
    <3>. QED BY <1>2, <1>8, <3>1
  <2>2. HonestIn(k, disk')
    BY <1>1, <1>2, <1>5, <1>8, <2>1, HonestSetNlink
  <2>. QED BY <1>1, <1>2, <1>5, <2>2, SetNlinkIs
<1> HIDE DEF k, n
<1>10. /\ ic' \in [Inums -> CacheEntries] /\ HonestIn(ic', disk')
       /\ \A j \in Inums : j # i => ic'[j] = ic[j]
       /\ ic'[i].ref = ic[i].ref /\ ic'[i].valid /\ ic'[i].lock = Nobody
  <2>1. /\ Iunlock(k, i) \in [Inums -> CacheEntries]
        /\ \A j \in Inums : j # i => Iunlock(k, i)[j] = k[j]
        /\ Iunlock(k, i)[i].ref = k[i].ref /\ Iunlock(k, i)[i].valid = k[i].valid
        /\ Iunlock(k, i)[i].lock = Nobody
    BY <1>2, <1>9, IunlockIs
  <2>2. HonestIn(Iunlock(k, i), disk')
    BY <1>2, <1>4, <1>9, HonestIunlock
  <2>. QED BY <1>7, <1>9, <2>1, <2>2
<1>11. \A j \in Inums : RefSum(p, j) = (IF i = j THEN 1 ELSE 0) + (IF file[p] = j THEN 1 ELSE 0)
  BY <1>1, <1>2 DEF RefSum
<1> HIDE DEF i
<1>12. /\ c' \in [Procs -> Frames] /\ \A q \in Procs \ {p} : c'[q] = c[q]
       /\ c'[p].pc # "unref" /\ Control(p)' /\ Relies(p)' /\ \A j : ~Locked(p, j)'
       /\ \A j : RefSum(p, j)' = Count(<<i>>, j) + (IF file'[p] = j THEN 1 ELSE 0)
       /\ Place(p)' = "end" /\ c'[p].call = "none"
  <2>1. <<i>> \in Seq(Inums) /\ p \in active' /\ (file'[p] # None => disk'.type[file'[p]] = "file")
    BY <1>1, <1>2, <1>6, <1>8 DEF Relies, Control
  <2>. QED BY <1>2, <1>7, <2>1, EndsIs
<1>13. \A j \in Inums : RefSum(p, j)' = RefSum(p, j) + (IF j = None THEN 1 ELSE 0)
  BY <1>6, <1>11, <1>12, CountOne
<1>14. Trusted(p)
  BY <1>8, <1>10 DEF Trusted
<1>15. LockMoves(p)
  BY <1>3, <1>10, <1>12 DEF LockMoves
<1>16. \A j \in Inums : Holds(p, j) \/ j = None => disk'.type[j] # "none"
  BY <1>6, <1>8, Knows
<1>17. \A j \in Inums : ic'[j].ref = ic[j].ref + (IF j = None THEN 1 ELSE 0)
  <2>1. \A j \in Inums : ic[j].ref \in Nat
    BY Knows
  <2>. QED BY <1>6, <1>10, <2>1
<1>18. Move(p)
  BY <1>1, <1>6, <1>8, <1>10, <1>12, <1>13, <1>14, <1>15, <1>16, <1>17, DiskStep
<1>19. \A j : ~Owes(p, j)'
  BY <1>12 DEF Owes
<1>. QED BY <1>2, <1>8, <1>18, <1>19 DEF i, n

\* Link()'s failure is a step of its process, and takes back the link it owes.
LEMMA LinkBadStep ==
  ASSUME Settled, NEW p \in Procs, LinkBad(p)
  PROVE  /\ Move(p) /\ Owes(p, c[p].ip) /\ c[p].ip \in Inums /\ \A j : ~Owes(p, j)'
         /\ disk'.type = disk.type /\ disk'.dir = disk.dir
         /\ disk'.nlink = [disk.nlink EXCEPT ![c[p].ip] = disk.nlink[c[p].ip] - 1]
         /\ disk'.data = disk.data /\ disk'.used = disk.used
<1> DEFINE i == c[p].ip
           n == disk.nlink[i] - 1
           k == Seen(ic, i, p)
<1>1. /\ c[p] \in Frames /\ Control(p) /\ Relies(p) /\ c \in [Procs -> Frames] /\ p # Nobody
      /\ c[p].pc = "link_bad" /\ ~Putting(p) /\ Place(p) = "link_bad"
      /\ \A j : Count(c[p].puts, j) = 0
      /\ ic \in [Inums -> CacheEntries] /\ HonestIn(ic, disk) /\ disk \in Disks
  BY Before DEF LinkBad, At, Putting
<1>2. i \in Inums /\ HoldsIp(p) /\ Holds(p, i) /\ ~HoldsCur(p) /\ Owes(p, i) /\ c[p].call = "link2"
  BY <1>1 DEF Control, HoldsIp, HoldsCur, Frames, Holds, Owes
<1>3. \A j \in Inums : ~Locked(p, j)
  BY <1>1 DEF Locked, LocksCur, LocksIp
<1>4. ic[i].ref > 0 /\ disk.nlink[i] \in Nat /\ disk.nlink[i] # 0 /\ disk.type[i] # "none"
      /\ CanLock(i)
  BY <1>2, Knows DEF Settled, Reached, LinkBad
<1>5. ic[i].nlink = disk.nlink[i] /\ n \in Nat
  BY <1>1, <1>2, <1>4 DEF HonestIn, Relies
<1>6. UNCHANGED <<durable, active, file, lost>> /\ None \notin Inums
  BY Sizes DEF LinkBad
<1>7. disk' = DiskNlink(disk, i, n) /\ ic' = SetNlink(k, i, n) /\ Ends(p, <<i>>)
  BY <1>5 DEF LinkBad
<1>8. /\ disk' \in Disks /\ disk'.type = disk.type /\ disk'.dir = disk.dir
      /\ disk'.nlink = [disk.nlink EXCEPT ![i] = n]
      /\ disk'.data = disk.data /\ disk'.used = disk.used
  BY <1>2, <1>5, <1>7, DiskNlinkIs
<1>9. Moved(k, None, None, Nobody) /\ k[i].valid
  BY <1>2, <1>4, MovesSeen
<1> HIDE DEF k, n
<1>10. ic' \in [Inums -> CacheEntries] /\ HonestIn(ic', disk') /\ ic'[i].ref = k[i].ref
       /\ ic'[i].valid /\ ic'[i].lock = k[i].lock /\ \A j \in Inums : j # i => ic'[j] = k[j]
  <2>1. disk'.nlink[i] = n /\ \A j \in Inums \ {i} : disk'.nlink[j] = disk.nlink[j]
    <3>1. disk.nlink \in [Inums -> Nat]
      BY <1>1 DEF Disks
    <3>. QED BY <1>2, <1>8, <3>1
  <2>2. k \in [Inums -> CacheEntries] /\ HonestIn(k, disk)
    BY <1>9 DEF Moved
  <2>3. HonestIn(ic', disk')
    <3>1. HonestIn(SetNlink(k, i, n), disk')
      BY <1>2, <1>5, <1>8, <1>9, <2>1, <2>2, HonestSetNlink
    <3>. QED BY <1>7, <3>1
  <2>. QED BY <1>2, <1>5, <1>7, <1>9, <2>2, <2>3, SetNlinkIs
<1>11. \A j \in Inums : RefSum(p, j) = (IF i = j THEN 1 ELSE 0) + (IF file[p] = j THEN 1 ELSE 0)
  BY <1>1, <1>2 DEF RefSum
<1> HIDE DEF i
<1>12. /\ c' \in [Procs -> Frames] /\ \A q \in Procs \ {p} : c'[q] = c[q]
       /\ c'[p].pc # "unref" /\ Control(p)' /\ Relies(p)' /\ \A j : ~Locked(p, j)'
       /\ \A j : RefSum(p, j)' = Count(<<i>>, j) + (IF file'[p] = j THEN 1 ELSE 0)
       /\ Place(p)' = "end" /\ c'[p].call = "none"
  <2>1. <<i>> \in Seq(Inums) /\ p \in active' /\ (file'[p] # None => disk'.type[file'[p]] = "file")
    BY <1>1, <1>2, <1>6, <1>8 DEF Relies, Control
  <2>. QED BY <1>2, <1>7, <2>1, EndsIs
<1>13. \A j \in Inums : RefSum(p, j)' = RefSum(p, j) + (IF j = None THEN 1 ELSE 0)
  BY <1>6, <1>11, <1>12, CountOne
<1>14. \A j \in Inums : /\ ic'[j].ref = ic[j].ref + (IF j = None THEN 1 ELSE 0)
                        /\ ic'[j].lock = ic[j].lock /\ (ic[j].valid => ic'[j].valid)
  BY <1>6, <1>9, <1>10 DEF Moved
<1>15. Trusted(p)
  BY <1>8, <1>14 DEF Trusted
<1>16. LockMoves(p)
  BY <1>3, <1>12, <1>14 DEF LockMoves
<1>17. \A j \in Inums : Holds(p, j) \/ j = None => disk'.type[j] # "none"
  BY <1>6, <1>8, Knows
<1>18. Move(p)
  BY <1>1, <1>6, <1>8, <1>10, <1>12, <1>13, <1>14, <1>15, <1>16, <1>17, DiskStep
<1>19. \A j : ~Owes(p, j)'
  BY <1>12 DEF Owes
<1>. QED BY <1>2, <1>8, <1>18, <1>19 DEF i, n

\* One entry of a directory changes.
WithEntry(dp, n, v) == [disk.dir EXCEPT ![dp][n] = v]
\* A name written changes that name of that directory.
LEMMA WithEntryIs ==
  ASSUME disk \in Disks, NEW dp \in Inums, NEW n \in Names, NEW v \in Inums \cup {None}
  PROVE  /\ WithEntry(dp, n, v) \in [Inums -> [Names -> Inums \cup {None}]]
         /\ WithEntry(dp, n, v)[dp][n] = v
         /\ \A m \in Names \ {n} : WithEntry(dp, n, v)[dp][m] = disk.dir[dp][m]
         /\ \A j \in Inums \ {dp} : WithEntry(dp, n, v)[j] = disk.dir[j]
BY DEF Disks, WithEntry

\* What nobody has locked, or p has, no other process has locked.
LEMMA NoOtherLock ==
  ASSUME Settled, NEW p \in Procs, NEW i \in Inums, CanLock(i) \/ Locked(p, i)
  PROVE  \A q \in Procs \ {p} : ~Locked(q, i)
<1>1. ASSUME NEW q \in Procs \ {p}, Locked(q, i) PROVE FALSE
  <2>1. ic[i].lock = q /\ (ic[i].lock = p <=> Locked(p, i))
    BY <1>1 DEF Settled, Running, LocksExact
  <2>2. q # Nobody
    BY Sizes
  <2>. QED BY <2>1, <2>2 DEF CanLock
<1>. QED BY <1>1

\* Link()'s increment is a step of its process, and owes a name for the link it counts.
LEMMA LinkOldFileStep ==
  ASSUME Settled, NEW p \in Procs, LinkOld(p), disk.type[c[p].ip] # "dir"
  PROVE  /\ Move(p) /\ c[p].ip \in Inums /\ disk.type[c[p].ip] = "file"
         /\ (\A j : ~Owes(p, j)) /\ \A j : Owes(p, j)' <=> j = c[p].ip
         /\ disk'.type = disk.type /\ disk'.dir = disk.dir
         /\ disk'.nlink = [disk.nlink EXCEPT ![c[p].ip] = disk.nlink[c[p].ip] + 1]
         /\ disk'.data = disk.data /\ disk'.used = disk.used
<1> DEFINE i == c[p].ip
           n == disk.nlink[i] + 1
           s == Seen(ic, i, p)
           k == SetNlink(s, i, n)
           f == c'[p]
           g == [c[p] EXCEPT !.pc = "walk", !.call = "link2", !.cur = ROOT, !.path = c[p].new]
<1>1. /\ c[p] \in Frames /\ Control(p) /\ Relies(p) /\ c \in [Procs -> Frames] /\ p # Nobody
      /\ c[p].pc = "found" /\ c[p].call = "link" /\ ~Putting(p) /\ Place(p) = "found"
      /\ c[p].puts = <<>> /\ \A j : Count(c[p].puts, j) = 0
      /\ ic \in [Inums -> CacheEntries] /\ HonestIn(ic, disk) /\ disk \in Disks
  BY Before DEF LinkOld, At, Putting
<1>2. i \in Inums /\ HoldsIp(p) /\ Holds(p, i) /\ ~HoldsCur(p) /\ ROOT \in Inums
  BY <1>1, Sizes DEF Control, HoldsIp, HoldsCur, Frames, Holds
<1>3. \A j \in Inums : ~Locked(p, j)
  BY <1>1 DEF Locked, LocksCur, LocksIp
<1>4. /\ ic[i].ref > 0 /\ disk.nlink[i] \in Nat /\ disk.type[i] = "file" /\ CanLock(i)
      /\ n \in Nat /\ TypeOf(i) = disk.type[i] /\ NlinkOf(i) = disk.nlink[i]
  <2>1. disk.type[i] \in Kinds /\ disk.type[i] # "none"
    BY <1>2, Knows
  <2>. QED BY <1>2, <2>1, Knows DEF LinkOld, Kinds
<1>5. i # ROOT /\ disk.nlink[ROOT] # 0 /\ disk.type[ROOT] = "dir"
  BY <1>4 DEF Settled, Named, Reached
<1>6. UNCHANGED <<durable, active, file, lost>> /\ None \notin Inums
  BY Sizes DEF LinkOld
<1>7. disk' = DiskNlink(disk, i, n) /\ ic' = Iget(k, ROOT) /\ Become(p, g)
  BY <1>4 DEF LinkOld
<1>8. /\ disk' \in Disks /\ disk'.type = disk.type /\ disk'.dir = disk.dir
      /\ disk'.nlink = [disk.nlink EXCEPT ![i] = n]
      /\ disk'.data = disk.data /\ disk'.used = disk.used
  BY <1>2, <1>4, <1>7, DiskNlinkIs
<1>9. disk'.nlink[i] = n /\ \A j \in Inums \ {i} : disk'.nlink[j] = disk.nlink[j]
  <2>1. disk.nlink \in [Inums -> Nat]
    BY <1>1 DEF Disks
  <2>. QED BY <1>2, <1>8, <2>1
<1>10. Moved(s, None, None, Nobody) /\ s[i].valid
  BY <1>2, <1>4, MovesSeen
<1> HIDE DEF s, n
<1>11. /\ k \in [Inums -> CacheEntries] /\ HonestIn(k, disk') /\ k[i].ref = s[i].ref
       /\ k[i].valid /\ k[i].lock = s[i].lock /\ \A j \in Inums : j # i => k[j] = s[j]
  <2>1. s \in [Inums -> CacheEntries] /\ HonestIn(s, disk)
    BY <1>10 DEF Moved
  <2>2. HonestIn(k, disk')
    <3> HIDE DEF i
    <3>0. /\ i \in Inums /\ n \in Nat /\ s[i].valid /\ disk'.type = disk.type /\ disk'.nlink[i] = n
          /\ \A j \in Inums \ {i} : disk'.nlink[j] = disk.nlink[j]
      BY <1>2, <1>4, <1>8, <1>9, <1>10
    <3>1. HonestIn(SetNlink(s, i, n), disk')
      BY <2>1, <3>0, HonestSetNlink
    <3>. QED BY <3>1 DEF i
  <2>. QED BY <1>2, <1>4, <1>10, <2>1, <2>2, SetNlinkIs
<1> HIDE DEF k
<1>12. /\ ic' \in [Inums -> CacheEntries] /\ HonestIn(ic', disk')
       /\ \A j \in Inums : j # ROOT => ic'[j] = k[j]
       /\ ic'[ROOT].ref = k[ROOT].ref + 1 /\ ic'[ROOT].lock = k[ROOT].lock
       /\ ic'[ROOT].valid <=> k[ROOT].valid /\ k[ROOT].ref > 0
  <2>1. disk'.nlink[ROOT] # 0
    BY <1>2, <1>5, <1>9
  <2>. QED BY <1>2, <1>7, <1>11, <2>1, IgetIs, HonestIget
<1>13. \A j \in Inums : /\ ic'[j].ref = ic[j].ref + (IF j = ROOT THEN 1 ELSE 0)
                        /\ ic'[j].lock = ic[j].lock /\ (ic[j].valid => ic'[j].valid)
  <2>1. \A j \in Inums : k[j].valid => k[j].ref > 0
    BY <1>11 DEF HonestIn, CacheEntries, Unused
  <2>2. \A j \in Inums : s[j].ref = ic[j].ref /\ s[j].lock = ic[j].lock
        /\ (ic[j].valid => s[j].valid)
    <3>1. \A j \in Inums : ic[j].ref \in Nat
      BY Knows
    <3>. QED BY <1>6, <1>10, <3>1 DEF Moved
  <2>3. \A j \in Inums : ic[j].ref \in Nat
    BY Knows
  <2>. QED BY <1>2, <1>5, <1>11, <1>12, <2>1, <2>2, <2>3
<1>14. ic'[i].valid
  BY <1>2, <1>5, <1>11, <1>12
<1> HIDE DEF i
<1>15. g \in Frames
  BY <1>1, <1>2 DEF Frames, Pcs, Calls
<1>16. f = g /\ c' \in [Procs -> Frames] /\ \A q \in Procs \ {p} : c'[q] = c[q]
  BY <1>1, <1>7, <1>15, FrameIs
<1>17. /\ f.pc = "walk" /\ f.puts = <<>> /\ f.call = "link2" /\ f.ip = i /\ f.cur = ROOT
       /\ f.path = c[p].new /\ f.new = c[p].new
  BY <1>1, <1>16 DEF Frames, i
<1> HIDE DEF f, g
<1>18. ~Putting(p)' /\ Place(p)' = "walk" /\ HoldsCur(p)' /\ HoldsIp(p)'
  BY <1>17 DEF Putting, Place, HoldsCur, HoldsIp, f
<1>19. \A j \in Inums : RefSum(p, j)' = RefSum(p, j) + (IF j = ROOT THEN 1 ELSE 0)
  BY <1>1, <1>2, <1>6, <1>17, <1>18, CountOne DEF RefSum, f, i
<1>20. \A j \in Inums : ~Locked(p, j)'
  BY <1>18 DEF Locked, LocksCur, LocksIp
<1>21. Control(p)'
  <2>1. PutsShape(p)'
    BY <1>17, <1>18 DEF PutsShape, f
  <2>. QED BY <1>1, <1>2, <1>6, <1>17, <1>18, <2>1 DEF Control, f
<1>22. Relies(p)'
  BY <1>1, <1>4, <1>6, <1>8, <1>14, <1>17, <1>18 DEF Relies, f, AtDirectory, LocksIp
<1>23. c[p].pc # "unref" /\ c'[p].pc # "unref"
  BY <1>1, <1>17 DEF f
<1>24. Trusted(p)
  BY <1>8, <1>13 DEF Trusted
<1>25. LockMoves(p)
  BY <1>3, <1>13, <1>20 DEF LockMoves
<1>26. \A j \in Inums : Holds(p, j) \/ j = ROOT => disk'.type[j] # "none"
  BY <1>5, <1>8, Knows
<1>27. Move(p)
  BY <1>2, <1>6, <1>8, <1>12, <1>13, <1>16, <1>19, <1>21, <1>22, <1>23, <1>24, <1>25, <1>26, DiskStep
<1>28. (\A j : ~Owes(p, j)) /\ \A j : Owes(p, j)' <=> j = i
  BY <1>1, <1>17, <1>18 DEF Owes, f
<1>. QED BY <1>2, <1>4, <1>8, <1>27, <1>28 DEF i, n

\* Link()'s new entry is a step of its process, and writes the name it owes.
LEMMA LinkNewEntryStep ==
  ASSUME Settled, NEW p \in Procs, LinkNew(p), Entry(p) = None
  PROVE  /\ Move(p) /\ c[p].ip \in Inums /\ c[p].cur \in Inums /\ Name(p) \in Names
         /\ disk.type[c[p].ip] = "file" /\ disk.type[c[p].cur] = "dir"
         /\ Owes(p, c[p].ip) /\ \A j : ~Owes(p, j)'
         /\ disk'.type = disk.type /\ disk'.nlink = disk.nlink
         /\ disk'.dir = WithEntry(c[p].cur, Name(p), c[p].ip)
         /\ disk'.data = disk.data /\ disk'.used = disk.used
<1> DEFINE dp == c[p].cur
           i == c[p].ip
           D == WithEntry(dp, Name(p), i)
<1>1. AtParent(p, {"link2"})
  BY DEF LinkNew
<1>2. /\ c[p] \in Frames /\ Control(p) /\ Relies(p) /\ c \in [Procs -> Frames] /\ p # Nobody
      /\ disk \in Disks
  BY Before
<1>3. /\ c[p].pc = "parent" /\ c[p].call = "link2" /\ ~Putting(p) /\ Place(p) = "parent"
      /\ dp \in Inums /\ HoldsCur(p) /\ CanLock(dp) /\ ic[dp].ref > 0 /\ disk.type[dp] = "dir"
      /\ HoldsIp(p) /\ (\A j : Count(c[p].puts, j) = 0) /\ Len(c[p].path) = 1
      /\ Name(p) \in Names /\ \A j \in Inums : ~Locked(p, j)
  BY <1>1, AtParentIs
<1>4. UNCHANGED <<durable, active, file, lost>> /\ None \notin Inums
  BY Sizes DEF LinkNew
<1>5. p \in active
  BY <1>2, <1>3 DEF Control
<1>6. i \in Inums /\ disk.type[i] = "file" /\ Owes(p, i)
  BY <1>2, <1>3 DEF Control, Frames, Relies, Owes
<1>7. disk' = [disk EXCEPT !.dir[dp][Name(p)] = i] /\ ic' = Seen(ic, dp, p) /\ Ends(p, <<dp, i>>)
  BY DEF LinkNew
<1>8. D \in [Inums -> [Names -> Inums \cup {None}]] /\ \A j \in Inums \ {dp} : D[j] = disk.dir[j]
  BY <1>2, <1>3, <1>6, WithEntryIs
<1>9. disk' = [disk EXCEPT !.dir = D]
  BY <1>7 DEF WithEntry
<1>10. Moved(ic', None, None, Nobody)
  BY <1>3, <1>7, MovesSeen
<1>11. \A j \in Inums : RefSum(p, j) = ((IF dp = j THEN 1 ELSE 0) + (IF i = j THEN 1 ELSE 0))
                                        + (IF file[p] = j THEN 1 ELSE 0)
  BY <1>3 DEF RefSum
<1> HIDE DEF D
<1>12. /\ disk' \in Disks /\ disk'.type = disk.type /\ disk'.nlink = disk.nlink /\ disk'.dir = D
       /\ disk'.data = disk.data /\ disk'.used = disk.used
  BY <1>2, <1>8, <1>9 DEF Disks
<1>13. HonestIn(ic', disk') /\ ic' \in [Inums -> CacheEntries]
  BY <1>10, <1>12 DEF Moved, HonestIn
<1>14. \A q \in Procs \ {p} : ~Locked(q, dp)
  BY <1>3, NoOtherLock
<1> HIDE DEF dp, i
<1>15. /\ c' \in [Procs -> Frames] /\ \A q \in Procs \ {p} : c'[q] = c[q]
       /\ c'[p].pc # "unref" /\ Control(p)' /\ Relies(p)' /\ \A j : ~Locked(p, j)'
       /\ \A j : RefSum(p, j)' = Count(<<dp, i>>, j) + (IF file'[p] = j THEN 1 ELSE 0)
       /\ Place(p)' = "end" /\ c'[p].call = "none"
  <2>1. <<dp, i>> \in Seq(Inums) /\ p \in active'
        /\ (file'[p] # None => disk'.type[file'[p]] = "file")
    BY <1>2, <1>3, <1>4, <1>5, <1>6, <1>12 DEF Relies
  <2>. QED BY <1>3, <1>6, <1>7, <2>1, EndsIs
<1>16. \A j \in Inums : RefSum(p, j)' = RefSum(p, j) + (IF j = None THEN 1 ELSE 0)
  BY <1>4, <1>11, <1>15, CountOne
<1>17. Trusted(p)
  BY <1>8, <1>10, <1>12, <1>14 DEF Trusted, Moved
<1>18. LockMoves(p)
  BY <1>3, <1>4, <1>10, <1>15 DEF LockMoves, Moved
<1>19. \A j \in Inums : Holds(p, j) \/ j = None => disk'.type[j] # "none"
  BY <1>4, <1>12, Knows
<1>20. \A j \in Inums : ic'[j].ref = ic[j].ref + (IF j = None THEN 1 ELSE 0)
  BY <1>10 DEF Moved
<1>21. c[p].pc # "unref"
  BY <1>3
<1>22. Move(p)
  BY <1>4, <1>12, <1>13, <1>15, <1>16, <1>17, <1>18, <1>19, <1>20, <1>21, DiskStep
<1>23. \A j : ~Owes(p, j)'
  BY <1>15 DEF Owes
<1>. QED BY <1>3, <1>6, <1>12, <1>22, <1>23 DEF D, dp, i

\* Unlink()'s removal of the name is a step of its process, and owes the count of the name it removes.
LEMMA UnlinkEntryStep ==
  ASSUME Settled, NEW p \in Procs, UnlinkEntry(p)
  PROVE  /\ Move(p) /\ c[p].ip \in Inums /\ c[p].cur \in Inums /\ Name(p) \in Names
         /\ c[p].ip # c[p].cur /\ Entry(p) = c[p].ip
         /\ disk.type[c[p].cur] = "dir"
         /\ disk.type[c[p].ip] = "dir" => Entries(disk, c[p].ip) = {} /\ disk.nlink[c[p].cur] # 0
         /\ (\A j : ~Owes(p, j)) /\ \A j : Owes(p, j)' <=> j = c[p].ip
         /\ disk'.type = disk.type
         /\ disk'.nlink = [disk.nlink EXCEPT ![c[p].cur] =
              IF disk.type[c[p].ip] = "dir" THEN disk.nlink[c[p].cur] - 1 ELSE disk.nlink[c[p].cur]]
         /\ disk'.dir = WithEntry(c[p].cur, Name(p), None)
         /\ disk'.data = disk.data /\ disk'.used = disk.used
<1> DEFINE dp == c[p].cur
           i == c[p].ip
           n == IF disk.type[i] = "dir" THEN disk.nlink[dp] - 1 ELSE disk.nlink[dp]
           D == WithEntry(dp, Name(p), None)
           N == [disk.nlink EXCEPT ![dp] = n]
           s == Ilock(ic, i, p)
           k == SetNlink(s, dp, n)
           f == c'[p]
           g == Puts(c[p], <<dp>>, "unlink_drop")
<1>1. At(p, "unlink_ip") /\ CanLock(i) /\ Become(p, g)
  BY DEF UnlinkEntry
<1>2. /\ c[p] \in Frames /\ Control(p) /\ Relies(p) /\ c \in [Procs -> Frames] /\ p # Nobody
      /\ disk \in Disks /\ ic \in [Inums -> CacheEntries] /\ HonestIn(ic, disk)
         /\ c[p].pc = "unlink_ip"
  BY <1>1, Before DEF At
<1>3. /\ c[p].call = "unlink" /\ ~Putting(p) /\ Place(p) = "unlink_ip"
         /\ (\A j : Count(c[p].puts, j) = 0)
      /\ dp \in Inums /\ HoldsCur(p) /\ ic[dp].ref > 0 /\ i \in Inums /\ HoldsIp(p) /\ ic[i].ref > 0
      /\ disk.type[dp] = "dir" /\ disk.type[i] # "none"
      /\ Len(c[p].path) = 1 /\ Name(p) \in Names /\ Entry(p) = i /\ (\A j : Locked(p, j) <=> j = dp)
  BY <1>1, AtUnlinkIs
<1>4. UNCHANGED <<durable, active, file, lost>> /\ None \notin Inums /\ p \in active
  BY <1>2, <1>3, Sizes DEF UnlinkEntry, Control
<1>5. ic[dp].lock = p /\ ic[dp].valid /\ ic[dp].nlink = disk.nlink[dp] /\ i # dp
      /\ disk.nlink[dp] \in Nat
  <2>1. ic[dp].lock = p /\ disk.nlink[dp] \in Nat
    BY <1>3, Knows
  <2>. QED BY <1>1, <1>2, <1>3, <2>1 DEF HonestIn, CanLock
<1>6. TypeOf(i) = disk.type[i]
  BY <1>3, Knows
<1>7. disk.type[i] = "dir" => Entries(disk, i) = {} /\ disk.nlink[dp] # 0
  <2>1. disk.type[i] = "dir" => disk.nlink[dp] # 0
    BY <1>3, <1>4 DEF Settled, Reached, Entry
  <2>. QED BY <1>6, <2>1 DEF UnlinkEntry
<1>8. n \in Nat
  BY <1>5, <1>7
<1>9. D \in [Inums -> [Names -> Inums \cup {None}]] /\ \A j \in Inums \ {dp} : D[j] = disk.dir[j]
  BY <1>2, <1>3, WithEntryIs
<1>10. disk' = [disk EXCEPT !.dir = D, !.nlink = N] /\ ic' = Iunlock(k, dp)
  BY <1>5, <1>6 DEF UnlinkEntry, WithEntry
<1>11. N \in [Inums -> Nat] /\ N[dp] = n /\ \A j \in Inums \ {dp} : N[j] = disk.nlink[j]
  BY <1>2, <1>3, <1>8 DEF Disks
<1> HIDE DEF D, N, n
<1>12. /\ disk' \in Disks /\ disk'.type = disk.type /\ disk'.nlink = N /\ disk'.dir = D
       /\ disk'.data = disk.data /\ disk'.used = disk.used
  BY <1>2, <1>9, <1>10, <1>11 DEF Disks
<1>13. /\ s \in [Inums -> CacheEntries] /\ HonestIn(s, disk) /\ s[i].ref = ic[i].ref
          /\ s[i].lock = p
       /\ s[i].valid /\ \A j \in Inums : j # i => s[j] = ic[j]
  BY <1>2, <1>3, IlockIs, HonestIlock
<1> HIDE DEF s
<1>14. /\ k \in [Inums -> CacheEntries] /\ HonestIn(k, disk') /\ k[dp].ref = s[dp].ref
       /\ k[dp].valid = s[dp].valid /\ \A j \in Inums : j # dp => k[j] = s[j]
  <2>1. s[dp].valid
    BY <1>3, <1>5, <1>13
  <2>2. HonestIn(k, disk')
    BY <1>3, <1>8, <1>11, <1>12, <1>13, <2>1, HonestSetNlink
  <2>. QED BY <1>3, <1>8, <1>13, <2>2, SetNlinkIs
<1> HIDE DEF k
<1>15. /\ ic' \in [Inums -> CacheEntries] /\ HonestIn(ic', disk') /\ ic'[dp].ref = k[dp].ref
       /\ ic'[dp].valid = k[dp].valid /\ ic'[dp].lock = Nobody
          /\ \A j \in Inums : j # dp => ic'[j] = k[j]
  <2>1. k[dp].ref > 0
    BY <1>3, <1>5, <1>13, <1>14
  <2>. QED BY <1>3, <1>10, <1>14, <2>1, IunlockIs, HonestIunlock
<1>16. \A j \in Inums : /\ ic'[j].ref = ic[j].ref + (IF j = None THEN 1 ELSE 0)
                        /\ ic[j].valid => ic'[j].valid
                        /\ ic'[j].lock = IF j = i THEN p ELSE IF j = dp THEN Nobody ELSE ic[j].lock
  <2>1. \A j \in Inums : ic[j].ref \in Nat
    BY Knows
  <2>. QED BY <1>3, <1>4, <1>5, <1>13, <1>14, <1>15, <2>1
<1>17. (\A q \in Procs \ {p} : ~Locked(q, dp)) /\ CanLock(i)
  BY <1>1, <1>3, NoOtherLock
<1>18. \A j \in Inums : Holds(p, j) \/ j = None => disk'.type[j] # "none"
  BY <1>4, <1>12, Knows
<1> HIDE DEF dp, i
<1>19. g \in Frames
  <2>1. <<dp>> \in Seq(Inums)
    BY <1>3
  <2>. QED BY <1>2, <2>1 DEF Frames, Pcs, Thens, Puts
<1>20. f = g /\ c' \in [Procs -> Frames] /\ \A q \in Procs \ {p} : c'[q] = c[q]
  BY <1>1, <1>2, <1>19, FrameIs
<1>21. /\ f.pc = "iput" /\ f.puts = <<dp>> /\ f.then = "unlink_drop" /\ f.call = "unlink"
          /\ f.ip = i
       /\ f.cur = dp /\ f.path = c[p].path /\ f.new = c[p].new
  BY <1>2, <1>3, <1>20 DEF Frames, Puts, dp, i
<1> HIDE DEF f, g
<1>22. Putting(p)' /\ Place(p)' = "unlink_drop" /\ ~HoldsCur(p)' /\ HoldsIp(p)'
  BY <1>21 DEF Putting, Place, HoldsCur, HoldsIp, f
<1>23. \A j \in Inums : RefSum(p, j)' = RefSum(p, j) + (IF j = None THEN 1 ELSE 0)
  BY <1>3, <1>4, <1>21, <1>22, CountOne DEF RefSum, f, dp, i
<1>24. \A j \in Inums : Locked(p, j)' <=> j = i
  BY <1>21, <1>22 DEF Locked, LocksCur, LocksIp, f
<1>25. Control(p)'
  <2>1. PutsShape(p)'
    BY <1>3, <1>21, <1>22 DEF PutsShape, f
  <2>. QED BY <1>2, <1>3, <1>4, <1>21, <1>22, <2>1 DEF Control, f, Thens
<1>26. Relies(p)'
  BY <1>2, <1>4, <1>12, <1>21, <1>22 DEF Relies, f, AtDirectory, LocksIp
<1>27. c[p].pc # "unref" /\ c'[p].pc # "unref"
  BY <1>2, <1>21 DEF f
<1>28. Trusted(p)
  BY <1>9, <1>12, <1>16, <1>17 DEF Trusted
<1>29. LockMoves(p)
  BY <1>3, <1>5, <1>16, <1>17, <1>24 DEF LockMoves, CanLock
<1>30. Move(p)
  BY <1>4, <1>12, <1>15, <1>16, <1>18, <1>20, <1>23, <1>25, <1>26, <1>27, <1>28, <1>29, DiskStep
<1>31. (\A j : ~Owes(p, j)) /\ \A j : Owes(p, j)' <=> j = i
  BY <1>3, <1>21, <1>22 DEF Owes, f
<1>. QED BY <1>3, <1>5, <1>7, <1>12, <1>30, <1>31 DEF D, N, n, dp, i

\* Create() of a new inode is a step of its process, and gives a free inode its name and its first link.
LEMMA CreateNewStep ==
  ASSUME Settled, NEW p \in Procs, CreateNew(p)
  PROVE  /\ Move(p) /\ (\A j : ~Owes(p, j) /\ ~Owes(p, j)')
         /\ c[p].cur \in Inums /\ Name(p) \in Names /\ Entry(p) = None
            /\ disk.type[c[p].cur] = "dir"
         /\ \E i \in Inums, kind \in {"dir", "file"} :
              /\ disk.type[i] = "none" /\ i # c[p].cur
              /\ disk'.type = [disk.type EXCEPT ![i] = kind]
              /\ disk'.nlink = [disk.nlink EXCEPT ![i] = 1, ![c[p].cur] =
                   IF kind = "dir" THEN disk.nlink[c[p].cur] + 1 ELSE disk.nlink[c[p].cur]]
              /\ disk'.dir = WithEntry(c[p].cur, Name(p), i)
              /\ disk'.data = disk.data /\ disk'.used = disk.used
<1> DEFINE dp == c[p].cur
           kind == IF c[p].call = "mkdir" THEN "dir" ELSE "file"
           n == IF kind = "dir" THEN disk.nlink[dp] + 1 ELSE disk.nlink[dp]
           s == Seen(ic, dp, p)
           k == SetNlink(s, dp, n)
           f == c'[p]
<1>1. AtParent(p, {"create", "mkdir"}) /\ Entry(p) = None
  BY DEF CreateNew
<1>2. /\ c[p] \in Frames /\ Control(p) /\ Relies(p) /\ c \in [Procs -> Frames] /\ p # Nobody
      /\ disk \in Disks /\ ic \in [Inums -> CacheEntries] /\ HonestIn(ic, disk)
  BY Before
<1>3. /\ c[p].pc = "parent" /\ c[p].call \in {"create", "mkdir"} /\ ~Putting(p)
         /\ Place(p) = "parent"
      /\ dp \in Inums /\ HoldsCur(p) /\ CanLock(dp) /\ ic[dp].ref > 0 /\ disk.type[dp] = "dir"
      /\ ~HoldsIp(p) /\ (\A j : Count(c[p].puts, j) = 0) /\ Name(p) \in Names
      /\ \A j \in Inums : ~Locked(p, j)
  BY <1>1, AtParentIs
<1>4. UNCHANGED <<durable, active, file, lost>> /\ None \notin Inums /\ p \in active
  BY <1>2, <1>3, Sizes DEF CreateNew, Control
<1>5. NlinkOf(dp) = disk.nlink[dp] /\ n \in Nat
  BY <1>3, Knows
<1>6. PICK i \in Inums :
        /\ disk.type[i] = "none" /\ CanLock(i)
        /\ LET child == Iget(ic, i)[i] IN
           /\ disk' = [disk EXCEPT
                  !.type[i] = IF child.valid THEN child.type ELSE kind,
                  !.nlink[i] = 1, !.nlink[dp] = n, !.dir[dp][Name(p)] = i]
           /\ ic' = [k EXCEPT ![i] = [child EXCEPT !.valid = TRUE, !.nlink = 1, !.lock = p,
                                                   !.type = IF child.valid THEN child.type ELSE kind]]
           /\ Become(p, Puts([c[p] EXCEPT !.ip = i], <<dp>>, "created"))
  BY <1>5 DEF CreateNew
<1> DEFINE child == Iget(ic, i)[i]
           new == [child EXCEPT !.valid = TRUE, !.nlink = 1, !.lock = p, !.type = kind]
           T == [disk.type EXCEPT ![i] = kind]
           N == [disk.nlink EXCEPT ![i] = 1, ![dp] = n]
           D == WithEntry(dp, Name(p), i)
           g == Puts([c[p] EXCEPT !.ip = i], <<dp>>, "created")
<1>7. i # dp /\ ~ic[i].valid
  BY <1>2, <1>3, <1>6 DEF HonestIn
<1>8. child \in CacheEntries /\ child.ref = ic[i].ref + 1 /\ ~child.valid
  BY <1>2, <1>7, IgetIs
<1>9. kind \in {"dir", "file"}
  OBVIOUS
<1> HIDE DEF child, kind
<1>10. new \in CacheEntries /\ new.ref = child.ref /\ new.valid /\ new.nlink = 1 /\ new.lock = p
       /\ new.type = kind
  BY <1>8, <1>9 DEF CacheEntries, Kinds
<1>11. D \in [Inums -> [Names -> Inums \cup {None}]] /\ \A j \in Inums \ {dp} : D[j] = disk.dir[j]
  BY <1>2, <1>3, WithEntryIs
<1>12. /\ disk' = [disk EXCEPT !.type = T, !.nlink = N, !.dir = D]
       /\ ic' = [k EXCEPT ![i] = new] /\ Become(p, g)
  BY <1>6, <1>8 DEF child, WithEntry
<1>13. /\ T \in [Inums -> {"none", "dir", "file"}] /\ T[i] = kind
          /\ \A j \in Inums \ {i} : T[j] = disk.type[j]
       /\ N \in [Inums -> Nat] /\ N[i] = 1 /\ N[dp] = n
          /\ \A j \in Inums \ {i, dp} : N[j] = disk.nlink[j]
  BY <1>2, <1>3, <1>5, <1>7, <1>9 DEF Disks
<1>14. Moved(s, None, None, Nobody) /\ s[dp].valid
  BY <1>3, MovesSeen
<1> HIDE DEF T, N, D, n, new, s
<1>15. /\ disk' \in Disks /\ disk'.type = T /\ disk'.nlink = N /\ disk'.dir = D
       /\ disk'.data = disk.data /\ disk'.used = disk.used
  BY <1>2, <1>11, <1>12, <1>13 DEF Disks
<1>16. /\ s \in [Inums -> CacheEntries] /\ HonestIn(s, disk)
       /\ \A j \in Inums : /\ s[j].ref = ic[j].ref /\ s[j].lock = ic[j].lock
                           /\ ic[j].valid => s[j].valid
  <2>1. \A j \in Inums : ic[j].ref \in Nat
    BY Knows
  <2>. QED BY <1>4, <1>14, <2>1 DEF Moved
<1>17. /\ k \in [Inums -> CacheEntries] /\ k[dp].ref = s[dp].ref /\ k[dp].valid
          /\ k[dp].lock = s[dp].lock
       /\ k[dp].type = s[dp].type /\ k[dp].nlink = n /\ \A j \in Inums : j # dp => k[j] = s[j]
  BY <1>3, <1>5, <1>14, <1>16, SetNlinkIs
<1> HIDE DEF k
<1>18. ic' \in [Inums -> CacheEntries] /\ ic'[i] = new /\ \A j \in Inums : j # i => ic'[j] = k[j]
  BY <1>10, <1>12, <1>17
<1>19. HonestIn(ic', disk')
  <2>1. ASSUME NEW j \in Inums, j # i, j # dp
        PROVE  ic'[j] = s[j] /\ disk'.type[j] = disk.type[j] /\ disk'.nlink[j] = disk.nlink[j]
    BY <1>13, <1>15, <1>17, <1>18, <2>1
  <2>2. /\ ic'[dp].ref > 0 /\ ic'[dp].valid /\ ic'[dp].type = disk'.type[dp]
           /\ ic'[dp].nlink = disk'.nlink[dp]
        /\ disk'.type[dp] # "none"
    BY <1>3, <1>7, <1>13, <1>14, <1>15, <1>16, <1>17, <1>18 DEF HonestIn
  <2>3. /\ ic'[i].ref # 0 /\ ic'[i].valid /\ ic'[i].type = disk'.type[i]
           /\ ic'[i].nlink = disk'.nlink[i]
        /\ disk'.type[i] # "none"
    <3>1. ic[i].ref \in Nat
      BY Knows
    <3>. QED BY <1>8, <1>9, <1>10, <1>13, <1>15, <1>18, <3>1
  <2>. QED BY <1>16, <2>1, <2>2, <2>3 DEF HonestIn
<1>20. \A j \in Inums : /\ ic'[j].ref = ic[j].ref + (IF j = i THEN 1 ELSE 0)
                        /\ ic[j].valid => ic'[j].valid
                        /\ ic'[j].lock = IF j = i THEN p ELSE ic[j].lock
  <2>1. \A j \in Inums : ic[j].ref \in Nat
    BY Knows
  <2>. QED BY <1>3, <1>8, <1>10, <1>16, <1>17, <1>18, <2>1
<1>21. \A q \in Procs \ {p} : ~Locked(q, dp)
  BY <1>3, NoOtherLock
<1>22. \A j \in Inums : Holds(p, j) \/ j = i => disk'.type[j] # "none"
  BY <1>9, <1>13, <1>15, Knows
<1>23. \A q \in Procs : ~Holds(q, i)
  BY <1>6, Knows
<1> HIDE DEF dp
<1>24. g \in Frames
  <2>1. <<dp>> \in Seq(Inums)
    BY <1>3
  <2>. QED BY <1>2, <2>1 DEF Frames, Pcs, Thens, Puts
<1>25. f = g /\ c' \in [Procs -> Frames] /\ \A q \in Procs \ {p} : c'[q] = c[q]
  BY <1>2, <1>12, <1>24, FrameIs
<1>26. /\ f.pc = "iput" /\ f.puts = <<dp>> /\ f.then = "created" /\ f.call = c[p].call /\ f.ip = i
       /\ f.cur = dp /\ f.path = c[p].path /\ f.new = c[p].new
  BY <1>2, <1>3, <1>25 DEF Frames, Puts, dp
<1> HIDE DEF f, g
<1>27. Putting(p)' /\ Place(p)' = "created" /\ ~HoldsCur(p)' /\ HoldsIp(p)'
  BY <1>26 DEF Putting, Place, HoldsCur, HoldsIp, f
<1>28. \A j \in Inums : RefSum(p, j)' = RefSum(p, j) + (IF j = i THEN 1 ELSE 0)
  BY <1>3, <1>4, <1>26, <1>27, CountOne DEF RefSum, f, dp
<1>29. \A j \in Inums : Locked(p, j)' <=> j = i
  BY <1>26, <1>27 DEF Locked, LocksCur, LocksIp, f
<1>30. Control(p)'
  <2>1. PutsShape(p)'
    BY <1>3, <1>26, <1>27 DEF PutsShape, f
  <2>. QED BY <1>2, <1>3, <1>4, <1>26, <1>27, <2>1 DEF Control, f, Thens
<1>31. Relies(p)'
  <2>1. file[p] # None => disk'.type[file[p]] = "file"
    <3>1. file[p] # None => file[p] \in Inums /\ disk.type[file[p]] = "file"
      BY <1>2, Before DEF Relies
    <3>. QED BY <1>6, <1>13, <1>15, <3>1
  <2>2. disk'.type[i] = kind
    BY <1>13, <1>15
  <2>. QED BY <1>3, <1>4, <1>26, <1>27, <2>1, <2>2 DEF Relies, f, AtDirectory, LocksIp, kind
<1>32. c[p].pc # "unref" /\ c'[p].pc # "unref"
  BY <1>3, <1>26 DEF f
<1>33. Trusted(p)
  BY <1>11, <1>13, <1>15, <1>20, <1>21, <1>23 DEF Trusted
<1>34. LockMoves(p)
  BY <1>3, <1>6, <1>20, <1>29 DEF LockMoves, CanLock
<1>35. Move(p)
  BY <1>4, <1>15, <1>18, <1>19, <1>20, <1>22, <1>25, <1>28, <1>30, <1>31, <1>32, <1>33, <1>34, DiskStep
<1>36. \A j : ~Owes(p, j) /\ ~Owes(p, j)'
  BY <1>3, <1>26, <1>27 DEF Owes, f
<1>. QED BY <1>1, <1>3, <1>6, <1>7, <1>9, <1>15, <1>35, <1>36 DEF T, N, D, n, dp

\* What is left to put: one inode or two.
LEMMA PutsAre ==
  ASSUME Settled, NEW p \in Procs, Putting(p)
  PROVE  /\ Head(c[p].puts) \in Inums /\ c[p].puts \in Seq(Inums)
         /\ \/ c[p].puts = <<Head(c[p].puts)>> /\ Len(c[p].puts) = 1 /\ Tail(c[p].puts) = <<>>
            \/ \E b \in Inums : /\ c[p].puts = <<Head(c[p].puts), b>>
                                /\ Len(c[p].puts) = 2 /\ Tail(c[p].puts) = <<b>>
<1>1. (\E a \in Inums : c[p].puts = <<a>>) \/ \E a, b \in Inums : c[p].puts = <<a, b>>
  BY Before DEF Control, PutsShape
<1>2. CASE \E a \in Inums : c[p].puts = <<a>>
  BY <1>2
<1>3. CASE \E a, b \in Inums : c[p].puts = <<a, b>>
  <2>1. PICK a \in Inums, b \in Inums : c[p].puts = <<a, b>>
    BY <1>3
  <2>2. Head(<<a, b>>) = a /\ Tail(<<a, b>>) = <<b>> /\ Len(<<a, b>>) = 2 /\ <<a, b>> \in Seq(Inums)
    OBVIOUS
  <2>. QED BY <2>1, <2>2
<1>. QED BY <1>1, <1>2, <1>3

\* What a process has locked it holds.
LEMMA LockedIsHeld ==
  ASSUME Settled, NEW p \in Procs, NEW i \in Inums, Locked(p, i)
  PROVE  Holds(p, i)
BY DEF Locked, LocksCur, LocksIp, Holds, HoldsCur, HoldsIp

\* An inode of which p has the one reference.
LEMMA OnlyMine ==
  ASSUME Settled, NEW p \in Procs, NEW i \in Inums, ic[i].ref = 1, References(p, i) > 0
  PROVE  /\ References(p, i) = 1
         /\ \A q \in Procs \ {p} : References(q, i) = 0 /\ ~Holds(q, i) /\ ~Looked(q, i)
<1>1. References(p, i) = 1 /\ \A q \in Procs \ {p} : References(q, i) = 0
  BY WhoRefers DEF Settled, Running
<1>2. \A q \in Procs \ {p} : ~Holds(q, i) /\ ~Looked(q, i)
  BY <1>1, ReferenceIs DEF Settled, Running, AllControl
<1>. QED BY <1>1, <1>2

\* Iput()'s look is a step of its process; after the last use of an inode nobody holds it.
LEMMA IputStep ==
  ASSUME Settled, NEW p \in Procs, Iput(p), NEW i, i = Head(c[p].puts)
  PROVE  /\ Step(p) /\ (\A j : Owes(p, j)' <=> Owes(p, j)) /\ i \in Inums
         /\ LastUse(i) =>
              /\ \A q \in Procs : ~Holds(q, i)'
              /\ disk.nlink[i] = 0
<1> DEFINE f == c'[p]
           g == [c[p] EXCEPT !.pc = "unref"]
<1>1. /\ c[p] \in Frames /\ Control(p) /\ Relies(p) /\ c \in [Procs -> Frames] /\ p # Nobody
      /\ c[p].pc = "iput" /\ Putting(p) /\ file[p] \in Inums \cup {None}
      /\ ic \in [Inums -> CacheEntries] /\ HonestIn(ic, disk) /\ disk \in Disks
  BY Before DEF Iput, At, Putting
<1>2. i \in Inums /\ CanLock(i) /\ None \notin Inums
  BY <1>1, PutsAre, Sizes DEF Iput
<1>3. UNCHANGED <<durable, active, file>> /\ Become(p, g)
  BY DEF Iput
<1>4. g \in Frames
  BY <1>1 DEF Frames, Pcs
<1>5. f = g /\ c' \in [Procs -> Frames] /\ \A q \in Procs \ {p} : c'[q] = c[q]
  BY <1>1, <1>3, <1>4, FrameIs
<1>6. /\ f.pc = "unref" /\ f.puts = c[p].puts /\ f.then = c[p].then /\ f.call = c[p].call
      /\ f.ip = c[p].ip /\ f.cur = c[p].cur /\ f.path = c[p].path /\ f.new = c[p].new
  BY <1>1, <1>5 DEF Frames
<1> HIDE DEF f, g
<1>7. /\ Putting(p)' /\ Place(p)' = Place(p) /\ Place(p) = c[p].then
      /\ HoldsCur(p)' = HoldsCur(p) /\ HoldsIp(p)' = HoldsIp(p)
  BY <1>1, <1>6 DEF Putting, Place, HoldsCur, HoldsIp, f
<1>8. \A j : (Locked(p, j)' <=> Locked(p, j)) /\ (Owes(p, j)' <=> Owes(p, j))
  BY <1>6, <1>7 DEF Locked, Owes, f
<1>9. Control(p)'
  <2>1. PutsShape(p)'
    BY <1>1, <1>6, <1>7 DEF PutsShape, f, Control
  <2>. QED BY <1>1, <1>3, <1>6, <1>7, <2>1 DEF Control, f, Thens
<1>10. Aside(p)
  BY <1>3, <1>5 DEF Aside
<1>11. \A j \in Inums : References(p, j)' = References(p, j)
  <2>1. RefSums /\ RefSums'
    BY RefSumsHold, PTL
  <2>2. \A j \in Inums : RefSum(p, j)' = RefSum(p, j)
    BY <1>3, <1>6, <1>7 DEF RefSum, f
  <2>. QED BY <2>1, <2>2 DEF RefSums
<1>12. \A j \in Inums : Holds(p, j)' => Holds(p, j)
  BY <1>1, <1>3, <1>6, <1>7 DEF Holds, f
<1>13. CASE ~LastUse(i)
  <2>1. UNCHANGED <<disk, ic, lost>>
    BY <1>13 DEF Iput
  <2>2. Trusted(p) /\ Accounts(p)
    BY <1>11, <2>1 DEF Trusted, Accounts
  <2>3. Types'
    BY <1>3, <1>5, <2>1 DEF Types, Settled, Running
  <2>4. CacheHonest'
    BY <2>1 DEF CacheHonest, Settled, Running
  <2>5. HeldUsed(p)'
    BY <1>12, <2>1 DEF HeldUsed, Settled, Running, HeldIsUsed
  <2>6. LockMoves(p)
    BY <1>8, <2>1 DEF LockMoves, Settled, Running, LocksExact
  <2>7. Relies(p)'
    <3>1. Entry(p)' = Entry(p)
      BY <1>6, <2>1 DEF Entry, Name, f
    <3>. QED BY <1>1, <1>3, <1>6, <1>7, <2>1, <3>1 DEF Relies, f
  <2>8. Step(p)
    BY <1>9, <1>10, <2>2, <2>3, <2>4, <2>5, <2>6, <2>7 DEF Step
  <2>. QED BY <1>2, <1>8, <1>13, <2>8
<1>14. CASE LastUse(i)
  <2> DEFINE T == [disk.type EXCEPT ![i] = "none"]
             D == [disk.dir EXCEPT ![i] = NoEntries]
             A == [disk.data EXCEPT ![i] = {}]
             U == disk.used \ disk.data[i]
             entry == [ic[i] EXCEPT !.type = "none", !.valid = FALSE]
  <2>1. ic[i].valid /\ ic[i].nlink = 0 /\ ic[i].ref = 1 /\ disk.nlink[i] = 0
        /\ disk.nlink \in [Inums -> Nat]
    BY <1>1, <1>2, <1>14 DEF LastUse, HonestIn, Disks
  <2>2. /\ T \in [Inums -> {"none", "dir", "file"}] /\ T[i] = "none"
           /\ \A j \in Inums \ {i} : T[j] = disk.type[j]
        /\ D \in [Inums -> [Names -> Inums \cup {None}]]
           /\ \A j \in Inums \ {i} : D[j] = disk.dir[j]
        /\ A \in [Inums -> SUBSET Blocks] /\ U \in SUBSET Blocks
    BY <1>1, <1>2 DEF Disks, NoEntries
  <2>3. /\ disk' = [disk EXCEPT !.type = T, !.dir = D, !.data = A, !.used = U]
        /\ ic' = [ic EXCEPT ![i] = entry] /\ lost' = lost \cup Entries(disk, i)
    BY <1>1, <1>2, <1>14 DEF Iput, Freed, CacheEntries
  <2>4. entry \in CacheEntries /\ entry.ref = ic[i].ref /\ ~entry.valid /\ entry.lock = ic[i].lock
    BY <1>1, <1>2 DEF CacheEntries, Kinds
  <2> HIDE DEF T, D, A, U, entry
  <2>5. disk' \in Disks /\ disk'.type = T /\ disk'.dir = D /\ disk'.nlink = disk.nlink
    BY <1>1, <2>2, <2>3 DEF Disks
  <2>6. ic' \in [Inums -> CacheEntries] /\ ic'[i] = entry /\ \A j \in Inums \ {i} : ic'[j] = ic[j]
    BY <1>1, <1>2, <2>3, <2>4
  <2>7. Looked(p, i)'
    BY <1>6 DEF Looked, f
  <2>8. References(p, i) > 0
    <3>1. Holds(p, i)
      <4>1. 1 \in 1..Len(c[p].puts) /\ c[p].puts[1] = i
        BY <1>1, PutsAre
      <4>. QED BY <1>1, <4>1 DEF Holds
    <3>. QED BY <1>2, <3>1, ReferenceIs DEF Settled, Running, AllControl
  <2>9. /\ References(p, i) = 1 /\ \A q \in Procs \ {p} : ~Holds(q, i)
    BY <1>2, <2>1, <2>8, OnlyMine
  <2>10. ~Holds(p, i)'
    <3>1. AllControl' => OneLook'
      BY OneLookHolds, PTL
    <3>2. AllControl'
      BY <1>9, <1>10, ControlKept DEF Settled, Running
    <3>3. References(p, i)' = 1
      BY <1>2, <1>11, <2>9
    <3>. QED BY <1>2, <2>7, <3>1, <3>2, <3>3 DEF OneLook
  <2>11. \A q \in Procs : ~Locked(q, i)
    <3>1. \A q \in Procs : q # Nobody
      BY Sizes
    <3>. QED BY <1>2, <3>1 DEF Settled, Running, LocksExact, CanLock
  <2>12. Trusted(p)
    BY <2>2, <2>5, <2>6, <2>9, <2>11 DEF Trusted
  <2>13. Accounts(p)
    BY <1>2, <1>11, <2>4, <2>6 DEF Accounts
  <2>14. Types'
    <3>1. lost' \in SUBSET Inums
      <4>1. Entries(disk, i) \subseteq Inums
        BY <1>1, <1>2 DEF Entries, Disks
      <4>. QED BY <2>3, <4>1 DEF Settled, Running, Types
    <3>. QED BY <1>3, <1>5, <2>5, <2>6, <3>1 DEF Types, Settled, Running
  <2>15. HonestIn(ic', disk')
    <3>1. ASSUME NEW j \in Inums, j # i
          PROVE  ic'[j] = ic[j] /\ disk'.type[j] = disk.type[j] /\ disk'.nlink[j] = disk.nlink[j]
      BY <2>2, <2>5, <2>6, <3>1
    <3>2. ic'[i].ref # 0 /\ ~ic'[i].valid /\ ic'[i].lock = Nobody /\ disk'.type[i] = "none"
      BY <1>2, <2>1, <2>2, <2>4, <2>5, <2>6 DEF CanLock
    <3>. QED BY <1>1, <3>1, <3>2 DEF HonestIn
  <2>16. CacheHonest'
    BY <2>15 DEF HonestIn, CacheHonest
  <2>17. \A j \in Inums : Holds(p, j)' => j # i /\ disk'.type[j] = disk.type[j]
         /\ disk.type[j] # "none" /\ ic'[j] = ic[j]
    <3>1. ASSUME NEW j \in Inums, Holds(p, j)'
          PROVE  j # i /\ disk'.type[j] = disk.type[j] /\ disk.type[j] # "none" /\ ic'[j] = ic[j]
      <4>1. j # i
        BY <2>10, <3>1
      <4>2. disk.type[j] # "none"
        BY <1>12, <3>1, Knows
      <4>. QED BY <2>2, <2>5, <2>6, <4>1, <4>2
    <3>. QED BY <3>1
  <2>18. HeldUsed(p)'
    BY <2>17 DEF HeldUsed
  <2>19. LockMoves(p)
    <3>1. \A j \in Inums : ic'[j].lock = ic[j].lock
      BY <1>2, <2>4, <2>6
    <3>. QED BY <1>8, <3>1 DEF LockMoves, Settled, Running, LocksExact
  <2>20. Relies(p)'
    <3>1. Place(p) \in AtDirectory => c[p].cur \in Inums
          /\ disk'.type[c[p].cur] = disk.type[c[p].cur]
      <4>1. Place(p) \in AtDirectory => c[p].cur \in Inums /\ HoldsCur(p)
        BY <1>1 DEF Control, HoldsCur, AtDirectory, Frames
      <4>2. ASSUME NEW j \in Inums, HoldsCur(p), c[p].cur = j PROVE disk'.type[j] = disk.type[j]
        BY <1>6, <1>7, <2>17, <4>2 DEF Holds, f
      <4>. QED BY <4>1, <4>2
    <3>2. Place(p) = "created" \/ c[p].call = "link2" =>
            disk'.type[c[p].ip] = disk.type[c[p].ip] /\ ic'[c[p].ip] = ic[c[p].ip]
      <4>1. Place(p) = "created" \/ c[p].call = "link2" => c[p].ip \in Inums /\ HoldsIp(p)
        BY <1>1 DEF Control, HoldsIp, Frames
      <4>2. ASSUME NEW j \in Inums, HoldsIp(p), c[p].ip = j
            PROVE  disk'.type[j] = disk.type[j] /\ ic'[j] = ic[j]
        BY <1>6, <1>7, <2>17, <4>2 DEF Holds, f
      <4>. QED BY <4>1, <4>2
    <3>3. file[p] # None => disk'.type[file[p]] = disk.type[file[p]]
      <4>1. ASSUME NEW j \in Inums, file[p] = j PROVE disk'.type[j] = disk.type[j]
        BY <1>3, <2>17, <4>1 DEF Holds
      <4>. QED BY <1>1, <4>1
    <3>4. Place(p) \in LocksCur => Entry(p)' = Entry(p)
      <4>1. Place(p) \in LocksCur => c[p].cur \in Inums /\ Locked(p, c[p].cur)
        BY <1>1 DEF Control, HoldsCur, LocksCur, Locked, Frames
      <4>2. Place(p) \in LocksCur => disk'.dir[c[p].cur] = disk.dir[c[p].cur]
        BY <2>2, <2>5, <2>11, <4>1
      <4>. QED BY <1>6, <4>2 DEF Entry, Name, f
    <3>. QED BY <1>1, <1>3, <1>6, <1>7, <3>1, <3>2, <3>3, <3>4 DEF Relies, f, LocksCur, AtDirectory
  <2>21. Step(p)
    BY <1>9, <1>10, <2>12, <2>13, <2>14, <2>16, <2>18, <2>19, <2>20 DEF Step
  <2>22. \A q \in Procs \ {p} : ~Holds(q, i)'
    BY <1>3, <1>5, <2>9 DEF Holds, HoldsCur, HoldsIp, Place
  <2>. QED BY <1>2, <1>8, <2>1, <2>10, <2>21, <2>22
<1>. QED BY <1>13, <1>14

\* Iput()'s decrement is a step of its process, and changes neither what is held nor what is owed.
LEMMA IputUnrefStep ==
  ASSUME Settled, NEW p \in Procs, IputUnref(p), NEW i, i = Head(c[p].puts)
  PROVE  /\ Step(p) /\ (\A j : Owes(p, j)' <=> Owes(p, j)) /\ (\A j : Holds(p, j)' <=> Holds(p, j))
         /\ i \in Inums
<1> DEFINE f == c'[p]
           w == IF Len(c[p].puts) = 1 THEN c[p].then ELSE "iput"
           g == [c[p] EXCEPT !.puts = Tail(c[p].puts), !.pc = w]
<1>1. /\ c[p] \in Frames /\ Control(p) /\ Relies(p) /\ c \in [Procs -> Frames] /\ p # Nobody
      /\ c[p].pc = "unref" /\ Putting(p) /\ file[p] \in Inums \cup {None}
      /\ ic \in [Inums -> CacheEntries] /\ HonestIn(ic, disk) /\ disk \in Disks
  BY Before DEF IputUnref, At, Putting
<1>2. i \in Inums /\ None \notin Inums /\ c[p].then \in Thens
  BY <1>1, PutsAre, Sizes DEF Control
<1>3. UNCHANGED <<disk, durable, active, file, lost>> /\ Become(p, g) /\ ic' = Unref(ic, i)
  BY DEF IputUnref
<1>4. g \in Frames
  <2>1. Tail(c[p].puts) \in Seq(Inums)
    BY <1>1, PutsAre DEF Frames
  <2>2. w \in Pcs
    BY <1>2 DEF Pcs, Thens
  <2> HIDE DEF w
  <2>. QED BY <1>1, <2>1, <2>2 DEF Frames
<1>5. f = g /\ c' \in [Procs -> Frames] /\ \A q \in Procs \ {p} : c'[q] = c[q]
  BY <1>1, <1>3, <1>4, FrameIs
<1>6. /\ f.pc = w /\ f.puts = Tail(c[p].puts) /\ f.then = c[p].then /\ f.call = c[p].call
      /\ f.ip = c[p].ip /\ f.cur = c[p].cur /\ f.path = c[p].path /\ f.new = c[p].new
  <2> HIDE DEF w
  <2>. QED BY <1>1, <1>5 DEF Frames
<1>7. \/ c[p].puts = <<i>> /\ f.puts = <<>> /\ f.pc = c[p].then
      \/ \E b \in Inums : c[p].puts = <<i, b>> /\ f.puts = <<b>> /\ f.pc = "iput"
  <2>1. CASE c[p].puts = <<i>> /\ Len(c[p].puts) = 1 /\ Tail(c[p].puts) = <<>>
    BY <1>6, <2>1
  <2>2. CASE \E b \in Inums : c[p].puts = <<i, b>> /\ Len(c[p].puts) = 2 /\ Tail(c[p].puts) = <<b>>
    <3>1. f.pc = "iput"
      BY <1>6, <2>2
    <3>. QED BY <1>6, <2>2, <3>1
  <2>. QED BY <1>1, <2>1, <2>2, PutsAre
<1>8. c[p].then # "iput" /\ c[p].then # "unref" /\ c[p].then # "idle" /\ c[p].then # "writei"
  BY <1>2 DEF Thens
<1> HIDE DEF f, g, w
<1>9. /\ Place(p)' = Place(p) /\ Place(p) = c[p].then
      /\ HoldsCur(p)' = HoldsCur(p) /\ HoldsIp(p)' = HoldsIp(p)
      /\ Putting(p)' <=> f.pc = "iput"
  <2>1. Place(p)' = c[p].then /\ (Putting(p)' <=> f.pc = "iput")
    BY <1>6, <1>7, <1>8 DEF Putting, Place, f
  <2>. QED BY <1>1, <1>6, <2>1 DEF Place, HoldsCur, HoldsIp, f
<1>10. \A j : (Locked(p, j)' <=> Locked(p, j)) /\ (Owes(p, j)' <=> Owes(p, j))
  BY <1>6, <1>9 DEF Locked, Owes, f
<1>11. Control(p)'
  <2>1. PutsShape(p)'
    BY <1>7, <1>8, <1>9 DEF PutsShape, f
  <2>. QED BY <1>1, <1>3, <1>6, <1>7, <1>8, <1>9, <2>1 DEF Control, f, Putting
<1>12. Aside(p)
  BY <1>3, <1>5 DEF Aside
<1>13. \A j : Holds(p, j)' <=> Holds(p, j)
  <2> DEFINE More(s, pc, j) == \E x \in 1..Len(s) : s[x] = j /\ ~(pc = "unref" /\ x = 1)
  <2>1. \A j : More(f.puts, f.pc, j) <=> More(c[p].puts, c[p].pc, j)
    <3>1. CASE c[p].puts = <<i>> /\ f.puts = <<>> /\ f.pc = c[p].then
      BY <1>1, <3>1
    <3>2. CASE \E b \in Inums : c[p].puts = <<i, b>> /\ f.puts = <<b>> /\ f.pc = "iput"
      <4>1. PICK b \in Inums : c[p].puts = <<i, b>> /\ f.puts = <<b>> /\ f.pc = "iput"
        BY <3>2
      <4>2. \A j : More(<<b>>, "iput", j) <=> b = j
        OBVIOUS
      <4>3. \A j : More(<<i, b>>, "unref", j) <=> b = j
        OBVIOUS
      <4>. QED BY <1>1, <4>1, <4>2, <4>3
    <3>. QED BY <1>7, <3>1, <3>2
  <2>2. \A j : Holds(p, j) <=> \/ HoldsCur(p) /\ c[p].cur = j
                               \/ HoldsIp(p) /\ c[p].ip = j
                               \/ file[p] = j
                               \/ More(c[p].puts, c[p].pc, j)
    BY DEF Holds
  <2>3. \A j : Holds(p, j)' <=> \/ HoldsCur(p)' /\ f.cur = j
                                \/ HoldsIp(p)' /\ f.ip = j
                                \/ file'[p] = j
                                \/ More(f.puts, f.pc, j)
    BY DEF Holds, f
  <2> HIDE DEF More
  <2>. QED BY <1>3, <1>6, <1>9, <2>1, <2>2, <2>3
<1>14. \A j \in Inums : References(p, j)' + (IF i = j THEN 1 ELSE 0) = References(p, j)
  <2>1. RefSums /\ RefSums'
    BY RefSumsHold, PTL
  <2>2. \A j \in Inums : Count(f.puts, j) + (IF i = j THEN 1 ELSE 0) = Count(c[p].puts, j)
        /\ Count(f.puts, j) \in Nat
    <3>1. ASSUME NEW j \in Inums, c[p].puts = <<i>>, f.puts = <<>>
          PROVE  Count(f.puts, j) + (IF i = j THEN 1 ELSE 0) = Count(c[p].puts, j)
                 /\ Count(f.puts, j) \in Nat
      BY <3>1, CountOne
    <3>2. ASSUME NEW j \in Inums, NEW b, c[p].puts = <<i, b>>, f.puts = <<b>>
          PROVE  Count(f.puts, j) + (IF i = j THEN 1 ELSE 0) = Count(c[p].puts, j)
                 /\ Count(f.puts, j) \in Nat
      <4>1. Count(<<b>>, j) = IF b = j THEN 1 ELSE 0
        BY CountOne
      <4>2. Count(<<i, b>>, j) = (IF i = j THEN 1 ELSE 0) + (IF b = j THEN 1 ELSE 0)
        BY CountOne
      <4>. QED BY <3>2, <4>1, <4>2
    <3>. QED BY <1>7, <3>1, <3>2
  <2>3. \A j \in Inums : RefSum(p, j)' + (IF i = j THEN 1 ELSE 0) = RefSum(p, j)
    BY <1>2, <1>3, <1>6, <1>9, <2>2 DEF RefSum, f
  <2>. QED BY <2>1, <2>3 DEF RefSums
<1>15. References(p, i) > 0 /\ Looked(p, i)
  BY <1>1, <1>2, ReferenceIs DEF Looked, Settled, Running, AllControl
<1>16. ic[i].ref \in Nat /\ ic[i].ref > 0
  <2>1. References(p, i) <= ic[i].ref /\ ic[i].ref \in Nat /\ References(p, i) \in Nat
    BY <1>1, <1>2, WhoRefers, ReferenceIs DEF Settled, Running
  <2>. QED BY <1>15, <2>1
<1>17. /\ ic' \in [Inums -> CacheEntries] /\ \A j \in Inums : j # i => ic'[j] = ic[j]
       /\ ic'[i].ref = ic[i].ref - 1
       /\ ic[i].ref = 1 => ic'[i] = Unused
       /\ ic[i].ref # 1 => /\ ic'[i].valid = ic[i].valid /\ ic'[i].lock = ic[i].lock
                           /\ ic'[i].type = ic[i].type /\ ic'[i].nlink = ic[i].nlink
  BY <1>1, <1>2, <1>3, <1>16, UnrefIs
<1>18. ic[i].ref = 1 => \A q \in Procs : ~Holds(q, i)
  <2>1. ASSUME ic[i].ref = 1 PROVE \A q \in Procs : ~Holds(q, i)
    <3>1. References(p, i) = 1 /\ \A q \in Procs \ {p} : ~Holds(q, i)
      BY <1>2, <1>15, <2>1, OnlyMine
    <3>2. ~Holds(p, i)
      BY <1>1, <1>2, <1>15, <3>1, ReferenceIs
    <3>. QED BY <3>1, <3>2
  <2>. QED BY <2>1
<1>19. \A q \in Procs, j \in Inums : Holds(q, j) => ic'[j].valid = ic[j].valid
  BY <1>17, <1>18
<1>20. Trusted(p)
  BY <1>3, <1>19 DEF Trusted
<1>21. Accounts(p)
  <2>1. \A j \in Inums : ic[j].ref \in Nat /\ References(p, j) \in Nat /\ References(p, j)' \in Nat
    <3>1. AllControl' => RefsAreNat'
      BY ReferencesAreNat, PTL
    <3>2. AllControl'
      BY <1>11, <1>12, ControlKept DEF Settled, Running
    <3>. QED BY <1>1, <3>1, <3>2, Knows, ReferenceIs DEF RefsAreNat
  <2>. QED BY <1>2, <1>14, <1>17, <2>1 DEF Accounts
<1>22. Types'
  BY <1>3, <1>5, <1>17 DEF Types, Settled, Running
<1>23. HonestIn(ic', disk')
  <2>1. ic'[i].ref = 0 => ic'[i] = Unused
    BY <1>16, <1>17
  <2>2. Unused.valid = FALSE /\ Unused.lock = Nobody /\ Unused.ref = 0
    BY DEF Unused
  <2>3. ASSUME NEW j \in Inums
        PROVE  /\ ic'[j].ref = 0 => ic'[j] = Unused
               /\ ic'[j].valid => /\ ic'[j].type = disk'.type[j] /\ ic'[j].nlink = disk'.nlink[j]
                                  /\ disk'.type[j] # "none"
               /\ ic'[j].lock # Nobody => ic'[j].valid
               /\ ic'[j].ref > 0 /\ disk'.nlink[j] = 0 /\ disk'.type[j] # "none" => ic'[j].valid
    <3>1. CASE j # i
      BY <1>1, <1>3, <1>17, <3>1 DEF HonestIn
    <3>2. CASE j = i
      BY <1>1, <1>2, <1>3, <1>16, <1>17, <2>1, <2>2, <3>2 DEF HonestIn
    <3>. QED BY <3>1, <3>2
  <2>. QED BY <2>3 DEF HonestIn
<1>24. CacheHonest'
  BY <1>23 DEF HonestIn, CacheHonest
<1>25. HeldUsed(p)'
  BY <1>3, <1>13 DEF HeldUsed, Settled, Running, HeldIsUsed
<1>26. LockMoves(p)
  <2>1. \A j \in Inums : ic'[j].lock = ic[j].lock
    <3>1. ic[i].ref = 1 => ic[i].lock = Nobody
      <4>1. ASSUME ic[i].ref = 1, ic[i].lock # Nobody PROVE FALSE
        <5>1. ic[i].lock \in Procs
          BY <1>1, <1>2, <4>1 DEF CacheEntries
        <5>2. Locked(ic[i].lock, i)
          BY <1>2, <5>1 DEF Settled, Running, LocksExact
        <5>. QED BY <1>2, <1>18, <4>1, <5>1, <5>2, LockedIsHeld
      <4>. QED BY <4>1
    <3>. QED BY <1>2, <1>17, <3>1 DEF Unused
  <2>. QED BY <1>10, <2>1 DEF LockMoves, Settled, Running, LocksExact
<1>27. Relies(p)'
  <2>1. c[p].call = "link2" => ic'[c[p].ip].valid
    <3>1. c[p].call = "link2" => c[p].ip \in Inums /\ Holds(p, c[p].ip) /\ ic[c[p].ip].valid
      BY <1>1, <1>9, <1>8 DEF Control, HoldsIp, Holds, Frames, Relies
    <3>. QED BY <1>19, <3>1
  <2>2. Entry(p)' = Entry(p)
    BY <1>3, <1>6 DEF Entry, Name, f
  <2>3. f.pc = "iput" => c[p].then \notin LocksIp /\ c[p].then # "unlink_bad"
        /\ c[p].then # "link_exists"
    <3>1. ASSUME f.pc = "iput" PROVE Len(c[p].puts) = 2
      <4>1. PICK b \in Inums : c[p].puts = <<i, b>>
        BY <1>7, <1>8, <3>1
      <4>2. Len(<<i, b>>) = 2
        OBVIOUS
      <4>. QED BY <4>1, <4>2
    <3>2. \A a : Len(<<a>>) = 1
      OBVIOUS
    <3>. QED BY <1>1, <3>1, <3>2 DEF Relies
  <2>. QED BY <1>1, <1>3, <1>6, <1>9, <2>1, <2>2, <2>3 DEF Relies, f
<1>28. Step(p)
  BY <1>11, <1>12, <1>20, <1>21, <1>22, <1>24, <1>25, <1>26, <1>27 DEF Step
<1>. QED BY <1>2, <1>10, <1>13, <1>28
-----------------------------------------------------------------------------
(* Names and link counts *)

NamesOf(d, i) == {x \in Inums \X Names : d.dir[x[1]][x[2]] = i}
SubsOf(d, i) == {n \in Names : d.dir[i][n] # None /\ d.type[d.dir[i][n]] = "dir"}

\* The two sets whose sizes Links() adds are finite.
LEMMA LinksAre ==
  ASSUME NEW d, NEW i
  PROVE  /\ IsFiniteSet(NamesOf(d, i)) /\ IsFiniteSet(SubsOf(d, i))
         /\ Cardinality(NamesOf(d, i)) \in Nat /\ Cardinality(SubsOf(d, i)) \in Nat
         /\ Links(d, i) = (Cardinality(NamesOf(d, i)) + Cardinality(SubsOf(d, i)))
                          + (IF i = ROOT THEN 1 ELSE 0)
         /\ Links(d, i) \in Nat
<1>1. IsFiniteSet(Inums \X Names)
  BY Sizes, FS_Product
<1>2. NamesOf(d, i) \in SUBSET (Inums \X Names) /\ SubsOf(d, i) \in SUBSET Names
  BY DEF NamesOf, SubsOf
<1>3. IsFiniteSet(NamesOf(d, i)) /\ IsFiniteSet(SubsOf(d, i))
  BY <1>1, <1>2, Sizes, FS_Subset
<1>4. Cardinality(NamesOf(d, i)) \in Nat /\ Cardinality(SubsOf(d, i)) \in Nat
  BY <1>3, FS_CardinalityType
<1>5. Links(d, i) = (Cardinality(NamesOf(d, i)) + Cardinality(SubsOf(d, i)))
                    + (IF i = ROOT THEN 1 ELSE 0)
  BY DEF Links, NamesOf, SubsOf
<1>. QED BY <1>3, <1>4, <1>5

\* A name, the root's own place and the ".." of a child are links.
LEMMA LinksCount ==
  ASSUME NEW d, NEW i \in Inums
  PROVE  /\ i = ROOT => Links(d, i) # 0
         /\ \A j \in Inums, n \in Names : d.dir[j][n] = i => Links(d, i) # 0
         /\ \A n \in Names : d.dir[i][n] # None /\ d.type[d.dir[i][n]] = "dir" => Links(d, i) # 0
<1> DEFINE N == NamesOf(d, i)   S == SubsOf(d, i)
<1>1. /\ IsFiniteSet(N) /\ IsFiniteSet(S) /\ Cardinality(N) \in Nat /\ Cardinality(S) \in Nat
      /\ Links(d, i) = (Cardinality(N) + Cardinality(S)) + (IF i = ROOT THEN 1 ELSE 0)
  BY LinksAre
<1>2. ASSUME NEW j \in Inums, NEW n \in Names, d.dir[j][n] = i PROVE Cardinality(N) # 0
  <2>1. <<j, n>> \in N
    BY <1>2 DEF NamesOf
  <2>. QED BY <1>1, <2>1, FS_EmptySet
<1>3. ASSUME NEW n \in Names, d.dir[i][n] # None, d.type[d.dir[i][n]] = "dir"
      PROVE  Cardinality(S) # 0
  <2>1. n \in S
    BY <1>3 DEF SubsOf
  <2>. QED BY <1>1, <2>1, FS_EmptySet
<1> HIDE DEF N, S
<1>. QED BY <1>1, <1>2, <1>3

\* The links of an inode that nothing names and that names no directory.
LEMMA NoLinks ==
  ASSUME NEW d, NEW i \in Inums, i # ROOT,
         \A j \in Inums, n \in Names : d.dir[j][n] # i,
         \A n \in Names : d.dir[i][n] = None
  PROVE  Links(d, i) = 0
<1>1. NamesOf(d, i) = {} /\ SubsOf(d, i) = {}
  <2>1. \A x \in Inums \X Names : d.dir[x[1]][x[2]] # i
    OBVIOUS
  <2>. QED BY <2>1 DEF NamesOf, SubsOf
<1>2. Cardinality(NamesOf(d, i)) = 0 /\ Cardinality(SubsOf(d, i)) = 0
  BY <1>1, FS_EmptySet
<1>. QED BY <1>2, LinksAre

\* Links depend on the entries, and on which inodes are directories.
LEMMA LinksSame ==
  ASSUME NEW d, NEW e, NEW i \in Inums, e.dir = d.dir, e.type = d.type
  PROVE  Links(e, i) = Links(d, i)
BY DEF Links

\* A new entry v in dp is a link of v, and its ".." one of dp.
LEMMA LinksWith ==
  ASSUME NEW d, NEW e, NEW dp \in Inums, NEW n \in Names, NEW v \in Inums, NEW i \in Inums,
         d.dir[dp][n] = None, e.dir[dp][n] = v,
         \A j \in Inums, m \in Names : j # dp \/ m # n =>
           /\ e.dir[j][m] = d.dir[j][m]
           /\ d.dir[j][m] # None =>
                (e.type[d.dir[j][m]] = "dir" <=> d.type[d.dir[j][m]] = "dir")
  PROVE  Links(e, i) = (Links(d, i) + (IF i = v THEN 1 ELSE 0))
                       + (IF i = dp /\ e.type[v] = "dir" THEN 1 ELSE 0)
<1> DEFINE N == NamesOf(d, i)   S == SubsOf(d, i)
<1>0. None \notin Inums
  BY Sizes
<1>1. /\ IsFiniteSet(N) /\ IsFiniteSet(S) /\ Cardinality(N) \in Nat /\ Cardinality(S) \in Nat
      /\ Links(d, i) = (Cardinality(N) + Cardinality(S)) + (IF i = ROOT THEN 1 ELSE 0)
      /\ Links(e, i) = (Cardinality(NamesOf(e, i)) + Cardinality(SubsOf(e, i)))
                       + (IF i = ROOT THEN 1 ELSE 0)
  BY LinksAre
<1>2. <<dp, n>> \notin N /\ (i = dp => n \notin S)
  BY <1>0 DEF NamesOf, SubsOf
<1>3. NamesOf(e, i) = IF i = v THEN N \cup {<<dp, n>>} ELSE N
  <2>1. ASSUME NEW x \in Inums \X Names, x # <<dp, n>>
        PROVE  e.dir[x[1]][x[2]] = d.dir[x[1]][x[2]]
    <3>1. x[1] \in Inums /\ x[2] \in Names /\ x = <<x[1], x[2]>>
      OBVIOUS
    <3>. QED BY <2>1, <3>1
  <2>2. <<dp, n>> \in Inums \X Names /\ e.dir[<<dp, n>>[1]][<<dp, n>>[2]] = v
        /\ d.dir[<<dp, n>>[1]][<<dp, n>>[2]] # i
    BY <1>0
  <2>3. \A x \in Inums \X Names : e.dir[x[1]][x[2]] = i <=>
          d.dir[x[1]][x[2]] = i \/ (x = <<dp, n>> /\ i = v)
    <3>1. TAKE x \in Inums \X Names
    <3>2. CASE x = <<dp, n>>
      BY <2>2, <3>2
    <3>3. CASE x # <<dp, n>>
      BY <2>1, <3>3
    <3>. QED BY <3>2, <3>3
  <2>. QED BY <2>2, <2>3 DEF NamesOf
<1>4. SubsOf(e, i) = IF i = dp /\ e.type[v] = "dir" THEN S \cup {n} ELSE S
  <2>1. ASSUME NEW m \in Names, i # dp \/ m # n
        PROVE  (e.dir[i][m] # None /\ e.type[e.dir[i][m]] = "dir")
               <=> (d.dir[i][m] # None /\ d.type[d.dir[i][m]] = "dir")
    BY <2>1
  <2>2. i = dp => e.dir[i][n] = v /\ v # None
    BY <1>0
  <2>3. \A m \in Names : (e.dir[i][m] # None /\ e.type[e.dir[i][m]] = "dir") <=>
          (d.dir[i][m] # None /\ d.type[d.dir[i][m]] = "dir")
          \/ (m = n /\ i = dp /\ e.type[v] = "dir")
    <3>1. TAKE m \in Names
    <3>2. CASE i = dp /\ m = n
      BY <2>2, <3>2
    <3>3. CASE i # dp \/ m # n
      BY <2>1, <3>3
    <3>. QED BY <3>2, <3>3
  <2>. QED BY <2>3 DEF SubsOf
<1>5. Cardinality(NamesOf(e, i)) = Cardinality(N) + (IF i = v THEN 1 ELSE 0)
  <2>1. Cardinality(N \cup {<<dp, n>>}) = Cardinality(N) + 1
    BY <1>1, <1>2, FS_AddElement
  <2>. QED BY <1>1, <1>3, <2>1
<1>6. Cardinality(SubsOf(e, i)) = Cardinality(S) + (IF i = dp /\ e.type[v] = "dir" THEN 1 ELSE 0)
  <2>1. i = dp => Cardinality(S \cup {n}) = Cardinality(S) + 1
    BY <1>1, <1>2, FS_AddElement
  <2>. QED BY <1>1, <1>4, <2>1
<1> HIDE DEF N, S
<1>. QED BY <1>1, <1>5, <1>6

\* Where entries only go, an inode has no more links.
LEMMA LinksFewer ==
  ASSUME NEW d, NEW e, NEW i \in Inums,
         \A j \in Inums, m \in Names : e.dir[j][m] # None =>
           /\ e.dir[j][m] = d.dir[j][m]
           /\ e.type[e.dir[j][m]] = "dir" => d.type[e.dir[j][m]] = "dir"
  PROVE  Links(e, i) <= Links(d, i)
<1>0. None \notin Inums
  BY Sizes
<1>1. /\ IsFiniteSet(NamesOf(d, i)) /\ IsFiniteSet(SubsOf(d, i))
      /\ Cardinality(NamesOf(d, i)) \in Nat /\ Cardinality(SubsOf(d, i)) \in Nat
      /\ Cardinality(NamesOf(e, i)) \in Nat /\ Cardinality(SubsOf(e, i)) \in Nat
      /\ Links(d, i) = (Cardinality(NamesOf(d, i)) + Cardinality(SubsOf(d, i)))
                       + (IF i = ROOT THEN 1 ELSE 0)
      /\ Links(e, i) = (Cardinality(NamesOf(e, i)) + Cardinality(SubsOf(e, i)))
                       + (IF i = ROOT THEN 1 ELSE 0)
  BY LinksAre
<1>2. NamesOf(e, i) \in SUBSET NamesOf(d, i)
  <2>1. ASSUME NEW x \in Inums \X Names, e.dir[x[1]][x[2]] = i PROVE d.dir[x[1]][x[2]] = i
    BY <1>0, <2>1
  <2>. QED BY <2>1 DEF NamesOf
<1>3. SubsOf(e, i) \in SUBSET SubsOf(d, i)
  BY DEF SubsOf
<1>4. /\ Cardinality(NamesOf(e, i)) <= Cardinality(NamesOf(d, i))
      /\ Cardinality(SubsOf(e, i)) <= Cardinality(SubsOf(d, i))
  BY <1>1, <1>2, <1>3, FS_Subset
<1>. QED BY <1>1, <1>4

\* Where an inode without a name loses its entries, the others keep their links.
LEMMA LinksKept ==
  ASSUME NEW d, NEW e, NEW i \in Inums, NEW j \in Inums \ {i},
         \A k \in Inums \ {i} : e.dir[k] = d.dir[k] /\ e.type[k] = d.type[k],
         \A k \in Inums, m \in Names : d.dir[k][m] \in (Inums \ {i}) \cup {None},
         \A m \in Names : e.dir[i][m] = None /\ d.dir[i][m] # j
  PROVE  Links(e, j) = Links(d, j)
<1>0. None \notin Inums
  BY Sizes
<1>1. NamesOf(e, j) = NamesOf(d, j)
  <2>1. ASSUME NEW x \in Inums \X Names
        PROVE  e.dir[x[1]][x[2]] = j <=> d.dir[x[1]][x[2]] = j
    <3>1. x[1] \in Inums /\ x[2] \in Names
      OBVIOUS
    <3>. QED BY <1>0, <3>1
  <2>. QED BY <2>1 DEF NamesOf
<1>2. SubsOf(e, j) = SubsOf(d, j)
  <2>1. ASSUME NEW m \in Names
        PROVE  (e.dir[j][m] # None /\ e.type[e.dir[j][m]] = "dir")
               <=> (d.dir[j][m] # None /\ d.type[d.dir[j][m]] = "dir")
    <3>1. e.dir[j][m] = d.dir[j][m] /\ d.dir[j][m] \in (Inums \ {i}) \cup {None}
      OBVIOUS
    <3>. QED BY <3>1
  <2>. QED BY <2>1 DEF SubsOf
<1>. QED BY <1>1, <1>2, LinksAre

\* A call that begins or ceases to owe a link changes what is owed by one.
LEMMA OwedMoves ==
  ASSUME NEW p \in Procs, Aside(p), NEW i \in Inums
  PROVE  /\ Owed(i) \in Nat /\ Owed(i)' \in Nat
         /\ Owed(i)' + (IF Owes(p, i) THEN 1 ELSE 0) = Owed(i) + (IF Owes(p, i)' THEN 1 ELSE 0)
         /\ Owes(p, i) => Owed(i) # 0
<1> DEFINE A == {q \in Procs : Owes(q, i)}
           B == {q \in Procs : Owes(q, i)'}
           O == {q \in Procs \ {p} : Owes(q, i)}
<1>1. \A q \in Procs \ {p} : Owes(q, i)' <=> Owes(q, i)
  BY DEF Owes, Place, Aside
<1>2. A = IF Owes(p, i) THEN O \cup {p} ELSE O
  OBVIOUS
<1>3. B = IF Owes(p, i)' THEN O \cup {p} ELSE O
  BY <1>1
<1>4. Owed(i) = Cardinality(A) /\ Owed(i)' = Cardinality(B)
  BY DEF Owed
<1>5. p \notin O /\ O \in SUBSET Procs
  OBVIOUS
<1> HIDE DEF A, B, O
<1>6. IsFiniteSet(O) /\ Cardinality(O) \in Nat
  BY <1>5, Sizes, FS_Subset, FS_CardinalityType
<1>7. Cardinality(O \cup {p}) = Cardinality(O) + 1
  BY <1>5, <1>6, FS_AddElement
<1>. QED BY <1>2, <1>3, <1>4, <1>6, <1>7

\* What LinksCounted says of one inode.
Counted(i) ==
  /\ disk.nlink[i] >= Links(disk, i) + Owed(i)
  /\ i \notin lost /\ disk.type[i] # "none" => disk.nlink[i] = Links(disk, i) + Owed(i)

\* The count keeps up where it changes with the links and with what p owes.
LEMMA CountKept ==
  ASSUME LinksCounted, NEW p \in Procs, Aside(p), NEW i \in Inums,
         disk \in Disks, disk' \in Disks,
         lost \subseteq lost', disk'.type[i] = disk.type[i],
         (disk'.nlink[i] + Links(disk, i)) + (IF Owes(p, i) THEN 1 ELSE 0)
           = (disk.nlink[i] + Links(disk', i)) + (IF Owes(p, i)' THEN 1 ELSE 0)
  PROVE  Counted(i)'
<1>1. /\ disk.nlink[i] \in Nat /\ disk'.nlink[i] \in Nat
  BY DEF Disks
<1>2. Links(disk, i) \in Nat /\ Links(disk', i) \in Nat
  BY LinksAre
<1>3. /\ Owed(i) \in Nat /\ Owed(i)' \in Nat
      /\ Owed(i)' + (IF Owes(p, i) THEN 1 ELSE 0) = Owed(i) + (IF Owes(p, i)' THEN 1 ELSE 0)
  BY OwedMoves
<1>4. /\ disk.nlink[i] >= Links(disk, i) + Owed(i)
      /\ i \notin lost /\ disk.type[i] # "none" => disk.nlink[i] = Links(disk, i) + Owed(i)
  BY DEF LinksCounted
<1>5. i \notin lost' => i \notin lost
  OBVIOUS
<1> DEFINE a == disk.nlink[i]   b == disk'.nlink[i]   l == Links(disk, i)   m == Links(disk', i)
           o == Owed(i)   w == Owed(i)'
<1>6. a \in Nat /\ b \in Nat /\ l \in Nat /\ m \in Nat /\ o \in Nat /\ w \in Nat
  BY <1>1, <1>2, <1>3
<1>7. (b + l) + (IF Owes(p, i) THEN 1 ELSE 0) = (a + m) + (IF Owes(p, i)' THEN 1 ELSE 0)
  OBVIOUS
<1>8. w + (IF Owes(p, i) THEN 1 ELSE 0) = o + (IF Owes(p, i)' THEN 1 ELSE 0)
  BY <1>3
<1>9. a >= l + o /\ (i \notin lost /\ disk.type[i] # "none" => a = l + o)
  BY <1>4
<1>10. Links(disk, i)' = m
  OBVIOUS
<1> HIDE DEF a, b, l, m, o, w
<1>11. b + (l + o) = a + (m + w)
  BY <1>6, <1>7, <1>8
<1>12. b >= m + w /\ (a = l + o => b = m + w)
  BY <1>6, <1>9, <1>11
<1>13. b >= m + w /\ (i \notin lost' /\ disk'.type[i] # "none" => b = m + w)
  BY <1>5, <1>9, <1>12
<1>. QED BY <1>10, <1>13 DEF Counted, b, w
-----------------------------------------------------------------------------
(* The tree of names, and the blocks *)

\* Entries that lead to an inode in use keep the names in order.
LEMMA NamedEntry ==
  ASSUME NEW d, NEW e, Named(d), NEW dp \in Inums, NEW n \in Names, NEW v,
         d \in Disks, e.data = d.data, e.used = d.used,
         \A k \in Inums : d.type[k] # "none" => e.type[k] = d.type[k],
         \A j \in Inums, m \in Names : j # dp \/ m # n => e.dir[j][m] = d.dir[j][m],
         e.dir[dp][n] = v,
         v # None => v \in Inums /\ d.type[dp] = "dir" /\ e.type[v] # "none"
  PROVE  Named(e)
<1>1. ROOT \in Inums
  BY Sizes
<1>2. e.type[ROOT] = "dir"
  BY <1>1 DEF Named
<1>3. ASSUME NEW j \in Inums, NEW m \in Names, e.dir[j][m] # None
      PROVE  e.type[j] = "dir" /\ e.type[e.dir[j][m]] # "none"
  <2>1. CASE j = dp /\ m = n
    BY <1>3, <2>1
  <2>2. CASE j # dp \/ m # n
    <3>1. e.dir[j][m] = d.dir[j][m] /\ d.dir[j][m] \in Inums
      BY <1>3, <2>2 DEF Disks
    <3>2. d.type[j] = "dir" /\ d.type[d.dir[j][m]] # "none"
      BY <1>3, <3>1 DEF Named
    <3>. QED BY <3>1, <3>2
  <2>. QED BY <2>1, <2>2
<1>4. \A i \in Inums : e.data[i] # {} => e.type[i] # "none"
  BY DEF Named
<1>5. /\ e.used = UNION {e.data[i] : i \in Inums}
      /\ \A i, j \in Inums : i # j => e.data[i] \cap e.data[j] = {}
  BY DEF Named
<1>. QED BY <1>2, <1>3, <1>4, <1>5 DEF Named

\* Named() looks at types, entries and blocks.
LEMMA NamedSame ==
  ASSUME NEW d, NEW e, Named(d),
         e.type = d.type, e.dir = d.dir, e.data = d.data, e.used = d.used
  PROVE  Named(e)
BY DEF Named

\* A block that was free belongs to one file.
LEMMA NamedWritten ==
  ASSUME NEW d, NEW e, Named(d), d \in Disks, NEW i \in Inums, d.type[i] # "none",
         e.type = d.type, e.dir = d.dir, NEW b \in Blocks \ d.used,
         e.data = [d.data EXCEPT ![i] = @ \cup {b}], e.used = d.used \cup {b}
  PROVE  Named(e)
<1>1. d.data \in [Inums -> SUBSET Blocks]
  BY DEF Disks
<1>2. \A k \in Inums : e.data[k] = IF k = i THEN d.data[k] \cup {b} ELSE d.data[k]
  BY <1>1
<1>3. d.used = UNION {d.data[k] : k \in Inums}
  BY DEF Named
<1>4. \A k \in Inums : b \notin d.data[k]
  BY <1>3
<1>5. e.used = UNION {e.data[k] : k \in Inums}
  BY <1>2, <1>3
<1>6. \A k, j \in Inums : k # j => e.data[k] \cap e.data[j] = {}
  <2>1. ASSUME NEW k \in Inums, NEW j \in Inums, k # j PROVE e.data[k] \cap e.data[j] = {}
    <3>1. d.data[k] \cap d.data[j] = {}
      BY <2>1 DEF Named
    <3>. QED BY <1>2, <1>4, <2>1, <3>1
  <2>. QED BY <2>1
<1>7. \A k \in Inums : e.data[k] # {} => e.type[k] # "none"
  BY <1>2 DEF Named
<1>. QED BY <1>5, <1>6, <1>7 DEF Named

\* What iput() frees takes its own blocks with it, and no others.
LEMMA NamedFreed ==
  ASSUME NEW d, Named(d), d \in Disks, NEW i \in Inums, i # ROOT,
         \A j \in Inums, n \in Names : d.dir[j][n] # i
  PROVE  /\ Named(Freed(d, i)) /\ Freed(d, i).nlink = d.nlink
         /\ Freed(d, i).type = [d.type EXCEPT ![i] = "none"]
         /\ \A j \in Inums \ {i} : Freed(d, i).dir[j] = d.dir[j]
         /\ \A n \in Names : Freed(d, i).dir[i][n] = None
<1> DEFINE e == Freed(d, i)
<1>1. /\ d.type \in [Inums -> Kinds] /\ d.data \in [Inums -> SUBSET Blocks]
      /\ d.dir \in [Inums -> [Names -> Inums \cup {None}]]
  BY DEF Disks, Kinds
<1>2. /\ e.type = [d.type EXCEPT ![i] = "none"] /\ e.nlink = d.nlink
      /\ e.dir = [d.dir EXCEPT ![i] = NoEntries]
      /\ e.data = [d.data EXCEPT ![i] = {}] /\ e.used = d.used \ d.data[i]
  BY DEF Freed, Disks
<1> HIDE DEF e
<1>3. \A k \in Inums : /\ e.data[k] = IF k = i THEN {} ELSE d.data[k]
                       /\ e.type[k] = IF k = i THEN "none" ELSE d.type[k]
                       /\ e.dir[k] = IF k = i THEN NoEntries ELSE d.dir[k]
  BY <1>1, <1>2
<1>4. d.used = UNION {d.data[k] : k \in Inums}
  BY DEF Named
<1>5. \A k, j \in Inums : k # j => d.data[k] \cap d.data[j] = {}
  BY DEF Named
<1>6. e.used = UNION {e.data[k] : k \in Inums}
  <2>1. ASSUME NEW x, x \in e.used PROVE \E k \in Inums : x \in e.data[k]
    <3>1. PICK k \in Inums : x \in d.data[k]
      BY <1>2, <1>4, <2>1
    <3>2. k # i
      BY <1>2, <2>1, <3>1
    <3>. QED BY <1>3, <3>1, <3>2
  <2>2. ASSUME NEW x, NEW k \in Inums, x \in e.data[k] PROVE x \in e.used
    <3>1. k # i /\ x \in d.data[k]
      BY <1>3, <2>2
    <3>2. x \notin d.data[i]
      BY <1>5, <3>1
    <3>3. x \in d.used
      BY <1>4, <3>1
    <3>. QED BY <1>2, <3>2, <3>3
  <2>. QED BY <2>1, <2>2
<1>7. \A k, j \in Inums : k # j => e.data[k] \cap e.data[j] = {}
  BY <1>3, <1>5
<1>8. \A k \in Inums : e.data[k] # {} => e.type[k] # "none"
  BY <1>3 DEF Named
<1>9. e.type[ROOT] = "dir"
  BY <1>3, Sizes DEF Named
<1>10. \A n \in Names : e.dir[i][n] = None
  BY <1>3 DEF NoEntries
<1>11. ASSUME NEW j \in Inums, NEW n \in Names, e.dir[j][n] # None
       PROVE  e.type[j] = "dir" /\ e.type[e.dir[j][n]] # "none"
  <2>1. j # i /\ e.dir[j][n] = d.dir[j][n] /\ d.dir[j][n] \in Inums
    BY <1>1, <1>3, <1>10, <1>11
  <2>2. d.type[j] = "dir" /\ d.type[d.dir[j][n]] # "none" /\ d.dir[j][n] # i
    BY <1>11, <2>1 DEF Named
  <2>. QED BY <1>3, <2>1, <2>2
<1>12. Named(e)
  BY <1>6, <1>7, <1>8, <1>9, <1>11 DEF Named
<1>. QED BY <1>2, <1>3, <1>10, <1>12 DEF e

\* Without some of its entries a tree goes on leading down.
LEMMA DescendsFewer ==
  ASSUME NEW d, NEW e, Descends(d),
         \A j \in Inums, m \in Names : e.dir[j][m] # None => e.dir[j][m] = d.dir[j][m]
  PROVE  Descends(e)
<1>1. PICK depth \in [Inums -> Nat] :
        \A i \in Inums, n \in Names : d.dir[i][n] # None => depth[i] < depth[d.dir[i][n]]
  BY DEF Descends
<1>2. \A i \in Inums, n \in Names : e.dir[i][n] # None => depth[i] < depth[e.dir[i][n]]
  <2>1. TAKE i \in Inums, n \in Names
  <2>2. HAVE e.dir[i][n] # None
  <2>3. e.dir[i][n] = d.dir[i][n]
    BY <2>2
  <2>. QED BY <1>1, <2>2, <2>3
<1>. QED BY <1>2 DEF Descends

\* A new entry for an inode without entries leads down, once that is put deep enough.
LEMMA DescendsWith ==
  ASSUME NEW d, NEW e, Descends(d), d.dir \in [Inums -> [Names -> Inums \cup {None}]],
         NEW dp \in Inums, NEW n \in Names, NEW v \in Inums,
         dp # v, \A m \in Names : d.dir[v][m] = None,
         e.dir[dp][n] = v,
         \A j \in Inums, m \in Names : j # dp \/ m # n => e.dir[j][m] = d.dir[j][m]
  PROVE  Descends(e)
<1>1. PICK depth \in [Inums -> Nat] :
        \A i \in Inums, m \in Names : d.dir[i][m] # None => depth[i] < depth[d.dir[i][m]]
  BY DEF Descends
<1> DEFINE deep == [depth EXCEPT ![v] = (depth[v] + depth[dp]) + 1]
<1>2. /\ deep \in [Inums -> Nat] /\ deep[v] = (depth[v] + depth[dp]) + 1
      /\ \A j \in Inums \ {v} : deep[j] = depth[j]
      /\ \A j \in Inums : deep[j] >= depth[j]
  OBVIOUS
<1> HIDE DEF deep
<1>3. ASSUME NEW j \in Inums, NEW m \in Names, e.dir[j][m] # None
      PROVE  deep[j] < deep[e.dir[j][m]]
  <2>1. CASE j = dp /\ m = n
    <3>1. deep[dp] = depth[dp] /\ depth[dp] \in Nat /\ depth[v] \in Nat
      BY <1>2
    <3>. QED BY <1>2, <2>1, <3>1
  <2>2. CASE j # dp \/ m # n
    <3>1. e.dir[j][m] = d.dir[j][m] /\ d.dir[j][m] \in Inums
      BY <1>3, <2>2
    <3>2. depth[j] < depth[d.dir[j][m]]
      BY <1>1, <1>3, <3>1
    <3>3. j # v
      BY <1>3, <3>1
    <3>4. deep[j] = depth[j] /\ deep[d.dir[j][m]] >= depth[d.dir[j][m]]
      BY <1>2, <3>1, <3>3
    <3>5. deep[j] \in Nat /\ depth[j] \in Nat /\ deep[d.dir[j][m]] \in Nat
          /\ depth[d.dir[j][m]] \in Nat
      BY <1>2, <3>1
    <3>. QED BY <3>1, <3>2, <3>4, <3>5
  <2>. QED BY <2>1, <2>2
<1>. QED BY <1>2, <1>3 DEF Descends
-----------------------------------------------------------------------------
(* Steps that keep the invariant *)

\* A link that a call owes is counted.
LEMMA OwedIsCounted ==
  ASSUME NEW i \in Inums
  PROVE  Owed(i) \in Nat /\ \A p \in Procs : Owes(p, i) => Owed(i) # 0
<1> DEFINE A == {q \in Procs : Owes(q, i)}
<1>1. A \in SUBSET Procs /\ Owed(i) = Cardinality(A)
  BY DEF Owed
<1>2. \A p \in Procs : Owes(p, i) => A # {}
  OBVIOUS
<1> HIDE DEF A
<1>3. IsFiniteSet(A) /\ Cardinality(A) \in Nat
  BY <1>1, Sizes, FS_Subset, FS_CardinalityType
<1>4. A # {} => Cardinality(A) # 0
  BY <1>3, FS_EmptySet
<1>. QED BY <1>1, <1>2, <1>3, <1>4

\* What is named, what holds a directory and what is owed a link has a link.
LEMMA CountedIsReached ==
  ASSUME disk \in Disks, Named(disk), LinksCounted
  PROVE  Reached
<1>1. ASSUME NEW i \in Inums
      PROVE  /\ disk.nlink[i] \in Nat /\ Links(disk, i) \in Nat /\ Owed(i) \in Nat
             /\ disk.nlink[i] >= Links(disk, i) + Owed(i)
  BY LinksAre, OwedIsCounted DEF Disks, LinksCounted
<1>2. \A i \in Inums : Links(disk, i) # 0 \/ Owed(i) # 0 => disk.nlink[i] # 0
  BY <1>1
<1>3. disk.nlink[ROOT] # 0
  BY <1>2, LinksCount, Sizes
<1>4. ASSUME NEW i \in Inums, NEW n \in Names, disk.dir[i][n] # None
      PROVE  /\ disk.nlink[disk.dir[i][n]] # 0
             /\ disk.type[disk.dir[i][n]] = "dir" => disk.nlink[i] # 0
  <2>1. disk.dir[i][n] \in Inums
    BY <1>4 DEF Disks
  <2>2. Links(disk, disk.dir[i][n]) # 0
    BY <2>1, LinksCount
  <2>3. disk.type[disk.dir[i][n]] = "dir" => Links(disk, i) # 0
    BY <1>4, LinksCount
  <2>. QED BY <1>2, <2>1, <2>2, <2>3
<1>5. \A p \in Procs, i \in Inums : Owes(p, i) => disk.nlink[i] # 0
  BY <1>2, OwedIsCounted
<1>. QED BY <1>3, <1>4, <1>5 DEF Reached

\* So the steps that assume Settled may be taken wherever IInv holds.
LEMMA SettledIs ==
  ASSUME IInv
  PROVE  Settled /\ disk \in Disks /\ durable \in Disks
<1>1. disk \in Disks /\ durable \in Disks
  BY DEF IInv, Types
<1>2. Reached
  BY <1>1, CountedIsReached DEF IInv
<1>. QED BY <1>1, <1>2 DEF IInv, Settled, Running

\* A step that leaves names, counts and blocks in order, and forgets nothing.
LEMMA ChangeKept ==
  ASSUME IInv, NEW p \in Procs, Move(p), UNCHANGED <<durable, lost, raced>>,
         Named(disk)', Descends(disk)', LinksCounted',
         \A i \in Inums :
           disk'.type[i] # "none" /\ disk'.nlink[i] = 0 /\ ~Holds(p, i)' =>
             disk.type[i] # "none" /\ disk.nlink[i] = 0
  PROVE  IInv'
<1>1. Running /\ Step(p) /\ ForgottenIsRaced
  BY SettledIs DEF Settled, Move, IInv
<1>2. Running'
  BY <1>1, RunningKept
<1>3. ForgottenIsRaced'
  BY <1>1, ForgottenKept DEF Move, Gains
<1>4. Named(durable)' /\ Descends(durable)' /\ DurableCounted'
  BY DEF IInv, Named, Descends, DurableCounted, Links
<1>. QED BY <1>2, <1>3, <1>4 DEF IInv, Running

\* Nor does one that changes neither names nor counts, nor what p owes.
LEMMA QuietCounts ==
  ASSUME IInv, NEW p \in Procs, Aside(p), disk' \in Disks, lost' = lost,
         \A i \in Inums : Owes(p, i)' <=> Owes(p, i),
         disk'.dir = disk.dir, disk'.type = disk.type, disk'.nlink = disk.nlink
  PROVE  Descends(disk)' /\ LinksCounted'
<1>1. Descends(disk')
  BY DEF IInv, Descends
<1>2. ASSUME NEW i \in Inums PROVE Counted(i)'
  <2>1. Links(disk', i) = Links(disk, i) /\ Links(disk, i) \in Nat
    BY LinksSame, LinksAre
  <2>2. disk \in Disks /\ LinksCounted /\ disk.nlink[i] \in Nat
    BY SettledIs DEF IInv, Disks
  <2>3. (disk'.nlink[i] + Links(disk, i)) + (IF Owes(p, i) THEN 1 ELSE 0)
           = (disk.nlink[i] + Links(disk', i)) + (IF Owes(p, i)' THEN 1 ELSE 0)
    BY <2>1, <2>2
  <2>. QED BY <2>2, <2>3, CountKept
<1>. QED BY <1>1, <1>2 DEF LinksCounted, Counted

\* A move that leaves the disk and what is owed alone keeps the invariant.
LEMMA QuietKept ==
  ASSUME IInv, NEW p \in Procs, Move(p), UNCHANGED <<disk, durable, lost, raced>>,
         \A i \in Inums : Owes(p, i)' <=> Owes(p, i)
  PROVE  IInv'
<1>1. disk \in Disks /\ Aside(p)
  BY SettledIs DEF Move, Step
<1>2. Named(disk)'
  BY DEF IInv, Named
<1>3. Descends(disk)' /\ LinksCounted'
  BY <1>1, QuietCounts
<1>. QED BY <1>2, <1>3, ChangeKept
\* A call with only inodes to put owes nothing.
LEMMA EndsOwes ==
  ASSUME c \in [Procs -> Frames], NEW p \in Procs, NEW seq, Ends(p, seq)
  PROVE  \A j \in Inums : ~Owes(p, j)'
<1>1. c'[p] = [Idle EXCEPT !.pc = IF seq = <<>> THEN "end" ELSE "iput", !.puts = seq, !.then = "end"]
  BY DEF Ends
<1>2. /\ c'[p].call = "none" /\ c'[p].then = "end"
      /\ c'[p].pc \in {"end", "iput"}
  BY <1>1 DEF Idle
<1>. QED BY <1>2 DEF Owes, Place

\* What a call owes depends on its inode, on the call and on its place.
LEMMA OwesSame ==
  ASSUME NEW p \in Procs, c'[p].ip = c[p].ip, c'[p].call = c[p].call,
         Place(p) # "unlink_drop", Place(p)' # "unlink_drop"
  PROVE  \A j \in Inums : Owes(p, j)' <=> Owes(p, j)
BY DEF Owes

\* Only link() and unlink() owe, and neither at these places.
LEMMA OwesNot ==
  ASSUME NEW p \in Procs, Place(p) # "unlink_drop", c[p].call # "link2"
  PROVE  \A j \in Inums : ~Owes(p, j)
BY DEF Owes

\* Namex() of one element keeps the invariant.
LEMMA WalkKept ==
  ASSUME IInv, NEW p \in Procs, Walk(p)
  PROVE  IInv'
<1>1. Settled /\ Move(p) /\ c[p] \in Frames /\ Control(p) /\ c \in [Procs -> Frames]
  BY SettledIs, WalkStep, Before
<1>2. UNCHANGED <<disk, durable, lost, raced>> /\ c[p].pc = "walk"
  BY DEF Walk, At
<1>3. /\ c'[p].ip = c[p].ip /\ c'[p].call = c[p].call /\ c'[p].pc = "iput"
      /\ c'[p].then \in {"walk", "link_bad", "end"}
  <2>1. \/ \E i \in Inums :
              c'[p] = Puts([c[p] EXCEPT !.cur = i, !.path = Tail(c[p].path)], <<c[p].cur>>, "walk")
        \/ c'[p] = Puts(c[p], <<c[p].cur>>, Failed(p))
    <3>1. c[p].path \in Seq(Names) /\ c[p].path # <<>> /\ c[p].cur \in Inums /\ disk \in Disks
      BY <1>1, <1>2, SettledIs DEF Walk, Frames, Control, HoldsCur, Place
    <3>2. Head(c[p].path) \in Names
      BY <3>1
    <3>3. disk.dir[c[p].cur][Head(c[p].path)] \in Inums \cup {None}
      BY <3>1, <3>2 DEF Disks
    <3>. QED BY <1>1, <3>3 DEF Walk, Become
  <2>2. Failed(p) \in {"link_bad", "end"}
    BY DEF Failed
  <2>. QED BY <1>1, <2>1, <2>2 DEF Puts, Frames
<1>4. \A j \in Inums : Owes(p, j)' <=> Owes(p, j)
  BY <1>2, <1>3, OwesSame DEF Place
<1>. QED BY <1>1, <1>2, <1>4, QuietKept

\* The end of namex() or nameiparent() keeps the invariant.
LEMMA WalkEndsKept ==
  ASSUME IInv, NEW p \in Procs, WalkEnds(p)
  PROVE  IInv'
<1>1. Settled /\ Move(p) /\ c[p] \in Frames /\ Control(p) /\ c \in [Procs -> Frames]
  BY SettledIs, WalkEndsStep, Before
<1>2. UNCHANGED <<disk, durable, lost, raced>> /\ c[p].pc = "walk" /\ Place(p) = "walk"
  BY DEF WalkEnds, At, Place
<1>3. c'[p].call = c[p].call /\ c'[p].pc \in {"found", "parent"}
      /\ (c[p].call = "link2" => c'[p].ip = c[p].ip)
  <2>1. CASE c[p].path = <<>>
    <3>1. c[p].call # "link2"
      BY <1>1, <1>2, <2>1 DEF Control
    <3>2. c'[p] = [c[p] EXCEPT !.pc = "found", !.ip = c[p].cur]
          \/ c'[p] = [c[p] EXCEPT !.pc = "parent"]
      BY <1>1 DEF WalkEnds, Become
    <3>. QED BY <1>1, <3>1, <3>2 DEF Frames
  <2>2. CASE c[p].path # <<>>
    <3>1. c'[p] = [c[p] EXCEPT !.pc = "parent"]
      BY <1>1, <2>2 DEF WalkEnds, Become
    <3>. QED BY <1>1, <3>1 DEF Frames
  <2>. QED BY <2>1, <2>2
<1>4. \A j \in Inums : Owes(p, j)' <=> Owes(p, j)
  BY <1>2, <1>3 DEF Owes, Place
<1>. QED BY <1>1, <1>2, <1>4, QuietKept

\* The start of a call keeps the invariant.
LEMMA CallKept ==
  ASSUME IInv, NEW p \in Procs, NEW call \in Calls \ {"none", "link2"}, NEW path \in Paths, NEW new,
         IF call = "link" THEN new \in Paths ELSE new = <<>>,
         Call(p, call, path, new)
  PROVE  IInv'
<1>1. Settled /\ c[p] \in Frames /\ Control(p) /\ c \in [Procs -> Frames]
  BY SettledIs, Before
<1>2. Move(p)
  BY <1>1, CallStep
<1>3. UNCHANGED <<disk, durable, lost, raced>> /\ c[p].pc = "idle" /\ Place(p) = "idle"
  BY DEF Call, Begins, At, Place
<1>4. c'[p].call = call /\ c'[p].pc = "walk"
  BY <1>1 DEF Call, Become, Frames
<1>5. \A j \in Inums : Owes(p, j)' <=> Owes(p, j)
  BY <1>1, <1>3, <1>4 DEF Owes, Place, Control
<1>. QED BY <1>2, <1>3, <1>5, QuietKept

\* Fileclose() keeps the invariant.
LEMMA CloseKept ==
  ASSUME IInv, NEW p \in Procs, Close(p)
  PROVE  IInv'
<1>1. Settled /\ Move(p) /\ c[p] \in Frames /\ Control(p) /\ c \in [Procs -> Frames]
  BY SettledIs, CloseStep, Before
<1>2. UNCHANGED <<disk, durable, lost, raced>> /\ c[p].pc = "idle" /\ Place(p) = "idle"
      /\ Ends(p, <<file[p]>>)
  BY DEF Close, Begins, At, Place
<1>3. \A j \in Inums : ~Owes(p, j) /\ ~Owes(p, j)'
  BY <1>1, <1>2, EndsOwes, OwesNot DEF Control
<1>. QED BY <1>1, <1>2, <1>3, QuietKept

\* The start of filewrite() keeps the invariant.
LEMMA WriteKept ==
  ASSUME IInv, NEW p \in Procs, Write(p)
  PROVE  IInv'
<1>1. Settled /\ Move(p) /\ c[p] \in Frames /\ Control(p) /\ c \in [Procs -> Frames]
  BY SettledIs, WriteStep, Before
<1>2. UNCHANGED <<disk, durable, lost, raced>> /\ c[p].pc = "idle" /\ Place(p) = "idle"
  BY DEF Write, Begins, At, Place
<1>3. c'[p].call = c[p].call /\ c'[p].pc = "writei"
  BY <1>1 DEF Write, Become, Frames
<1>4. \A j \in Inums : Owes(p, j)' <=> Owes(p, j)
  BY <1>1, <1>2, <1>3 DEF Owes, Place, Control
<1>. QED BY <1>1, <1>2, <1>4, QuietKept

\* Open() of an existing inode keeps the invariant.
LEMMA OpenExistingKept ==
  ASSUME IInv, NEW p \in Procs, OpenExisting(p)
  PROVE  IInv'
<1>1. Settled /\ Move(p) /\ c[p] \in Frames /\ Control(p) /\ c \in [Procs -> Frames]
  BY SettledIs, OpenExistingStep, Before
<1>2. UNCHANGED <<disk, durable, lost, raced>> /\ c[p].pc \in {"create_have", "found"}
      /\ Place(p) = c[p].pc /\ \E seq : Ends(p, seq)
  BY DEF OpenExisting, Opens, At, Place
<1>3. \A j \in Inums : ~Owes(p, j) /\ ~Owes(p, j)'
  BY <1>1, <1>2, EndsOwes, OwesNot DEF Control
<1>. QED BY <1>1, <1>2, <1>3, QuietKept

\* The end of create() keeps the invariant.
LEMMA CreatedKept ==
  ASSUME IInv, NEW p \in Procs, Created(p)
  PROVE  IInv'
<1>1. Settled /\ Move(p) /\ c[p] \in Frames /\ Control(p) /\ c \in [Procs -> Frames]
  BY SettledIs, CreatedStep, Before
<1>2. UNCHANGED <<disk, durable, lost, raced>> /\ c[p].pc = "created"
      /\ Place(p) = c[p].pc /\ \E seq : Ends(p, seq)
  BY DEF Created, Opens, At, Place
<1>3. \A j \in Inums : ~Owes(p, j) /\ ~Owes(p, j)'
  BY <1>1, <1>2, EndsOwes, OwesNot DEF Control
<1>. QED BY <1>1, <1>2, <1>3, QuietKept

\* Create() of a name that exists keeps the invariant.
LEMMA CreateFindsKept ==
  ASSUME IInv, NEW p \in Procs, CreateFinds(p)
  PROVE  IInv'
<1>1. Settled /\ Move(p) /\ c[p] \in Frames /\ Control(p) /\ c \in [Procs -> Frames]
  BY SettledIs, CreateFindsStep, Before
<1>2. UNCHANGED <<disk, durable, lost, raced>> /\ c[p].pc = "parent" /\ Place(p) = "parent"
      /\ c[p].call # "link2"
  BY DEF CreateFinds, AtParent, At, Place
<1>3. c'[p].call = c[p].call /\ c'[p].pc = "iput" /\ c'[p].then = "create_have"
  BY <1>1 DEF CreateFinds, Become, Puts, Frames
<1>4. \A j \in Inums : Owes(p, j)' <=> Owes(p, j)
  BY <1>2, <1>3 DEF Owes, Place
<1>. QED BY <1>1, <1>2, <1>4, QuietKept

\* Unlink()'s lookup keeps the invariant.
LEMMA UnlinkLookKept ==
  ASSUME IInv, NEW p \in Procs, UnlinkLook(p)
  PROVE  IInv'
<1>1. Settled /\ Move(p) /\ c[p] \in Frames /\ Control(p) /\ c \in [Procs -> Frames]
  BY SettledIs, UnlinkLookStep, Before
<1>2. UNCHANGED <<disk, durable, lost, raced>> /\ c[p].pc = "parent" /\ Place(p) = "parent"
      /\ c[p].call = "unlink"
  BY DEF UnlinkLook, AtParent, At, Place
<1>3. CASE Entry(p) = None
  BY <1>1, <1>2, <1>3, EndsOwes, OwesNot, QuietKept DEF UnlinkLook
<1>4. CASE Entry(p) # None
  <2>1. c'[p] = [c[p] EXCEPT !.pc = "unlink_ip", !.ip = Entry(p)]
    BY <1>1, <1>4 DEF UnlinkLook, Become
  <2>3. c'[p].call = c[p].call /\ c'[p].pc = "unlink_ip"
    BY <1>1, <2>1 DEF Frames
  <2>2. \A j \in Inums : Owes(p, j)' <=> Owes(p, j)
    BY <1>2, <2>3 DEF Owes, Place
  <2>. QED BY <1>1, <1>2, <2>2, QuietKept
<1>. QED BY <1>3, <1>4

\* Unlink() of a directory with entries keeps the invariant.
LEMMA UnlinkNotEmptyKept ==
  ASSUME IInv, NEW p \in Procs, UnlinkNotEmpty(p)
  PROVE  IInv'
<1>1. Settled /\ Move(p) /\ c[p] \in Frames /\ Control(p) /\ c \in [Procs -> Frames]
  BY SettledIs, UnlinkNotEmptyStep, Before
<1>2. UNCHANGED <<disk, durable, lost, raced>> /\ c[p].pc = "unlink_ip" /\ Place(p) = "unlink_ip"
  BY DEF UnlinkNotEmpty, At, Place
<1>3. /\ c'[p].ip = c[p].ip /\ c'[p].call = c[p].call
      /\ c'[p].pc = "iput" /\ c'[p].then = "unlink_bad"
  BY <1>1 DEF UnlinkNotEmpty, Become, Puts, Frames
<1>4. \A j \in Inums : Owes(p, j)' <=> Owes(p, j)
  BY <1>2, <1>3, OwesSame DEF Place
<1>. QED BY <1>1, <1>2, <1>4, QuietKept

\* Unlink()'s failure keeps the invariant.
LEMMA UnlinkBadKept ==
  ASSUME IInv, NEW p \in Procs, UnlinkBad(p)
  PROVE  IInv'
<1>1. Settled /\ Move(p) /\ c[p] \in Frames /\ Control(p) /\ c \in [Procs -> Frames]
  BY SettledIs, UnlinkBadStep, Before
<1>2. UNCHANGED <<disk, durable, lost, raced>> /\ c[p].pc = "unlink_bad" /\ Place(p) = "unlink_bad"
      /\ Ends(p, <<c[p].cur>>)
  BY DEF UnlinkBad, At, Place
<1>3. \A j \in Inums : ~Owes(p, j) /\ ~Owes(p, j)'
  BY <1>1, <1>2, EndsOwes, OwesNot DEF Control
<1>. QED BY <1>1, <1>2, <1>3, QuietKept

\* Link() to a name that exists keeps the invariant.
LEMMA LinkExistsKept ==
  ASSUME IInv, NEW p \in Procs, LinkExists(p)
  PROVE  IInv'
<1>1. Settled /\ Move(p) /\ c[p] \in Frames /\ Control(p) /\ c \in [Procs -> Frames]
  BY SettledIs, LinkExistsStep, Before
<1>2. UNCHANGED <<disk, durable, lost, raced>> /\ c[p].pc = "link_exists"
      /\ Place(p) = "link_exists"
  BY DEF LinkExists, At, Place
<1>3. /\ c'[p].ip = c[p].ip /\ c'[p].call = c[p].call
      /\ c'[p].pc = "iput" /\ c'[p].then = "link_bad"
  BY <1>1 DEF LinkExists, Become, Puts, Frames
<1>4. \A j \in Inums : Owes(p, j)' <=> Owes(p, j)
  BY <1>2, <1>3, OwesSame DEF Place
<1>. QED BY <1>1, <1>2, <1>4, QuietKept
\* What an ending call has to put, it holds.
LEMMA EndsHolds ==
  ASSUME c \in [Procs -> Frames], NEW p \in Procs, NEW a, Ends(p, <<a>>)
  PROVE  Holds(p, a)'
<1>1. c'[p] = [Idle EXCEPT !.pc = IF <<a>> = <<>> THEN "end" ELSE "iput",
                           !.puts = <<a>>, !.then = "end"]
  BY DEF Ends
<1>2. <<a>> # <<>> /\ 1 \in 1..Len(<<a>>) /\ <<a>>[1] = a
  OBVIOUS
<1>3. c'[p].puts = <<a>> /\ c'[p].pc = "iput"
  BY <1>1, <1>2 DEF Idle
<1>. QED BY <1>2, <1>3 DEF Holds

\* Link() that finds its new name taken keeps the invariant.
LEMMA LinkNewExistsKept ==
  ASSUME IInv, NEW p \in Procs, LinkNew(p), Entry(p) # None
  PROVE  IInv'
<1>1. Settled /\ Move(p) /\ c[p] \in Frames /\ c \in [Procs -> Frames]
  BY SettledIs, LinkNewExistsStep, Before
<1>2. UNCHANGED <<disk, durable, lost, raced>> /\ c[p].pc = "parent" /\ Place(p) = "parent"
  BY DEF LinkNew, AtParent, At, Place
<1>3. /\ c'[p].ip = c[p].ip /\ c'[p].call = c[p].call
      /\ c'[p].pc = "iput" /\ c'[p].then = "link_exists"
  <2>1. c'[p] = Puts(c[p], <<Entry(p)>>, "link_exists")
    BY <1>1 DEF LinkNew, Become
  <2>. QED BY <1>1, <2>1 DEF Puts, Frames
<1>4. \A j \in Inums : Owes(p, j)' <=> Owes(p, j)
  BY <1>2, <1>3, OwesSame DEF Place
<1>. QED BY <1>1, <1>2, <1>4, QuietKept

\* Link() of a directory keeps the invariant.
LEMMA LinkOldDirKept ==
  ASSUME IInv, NEW p \in Procs, LinkOld(p), disk.type[c[p].ip] = "dir"
  PROVE  IInv'
<1>1. Settled /\ Move(p) /\ c[p] \in Frames /\ Control(p) /\ c \in [Procs -> Frames]
  BY SettledIs, LinkOldDirStep, Before
<1>2. c[p].pc = "found" /\ Place(p) = "found" /\ c[p].call = "link" /\ HoldsIp(p)
  BY DEF LinkOld, At, Place, HoldsIp
<1>3. c[p].ip \in Inums
  BY <1>1, <1>2 DEF Control, Frames
<1>4. TypeOf(c[p].ip) = "dir"
  BY <1>1, <1>3, Knows
<1>5. Ends(p, <<c[p].ip>>) /\ UNCHANGED <<disk, durable, lost, raced>>
  BY <1>4 DEF LinkOld
<1>6. \A j \in Inums : ~Owes(p, j) /\ ~Owes(p, j)'
  BY <1>1, <1>2, <1>5, EndsOwes, OwesNot
<1>. QED BY <1>1, <1>5, <1>6, QuietKept

\* Writei() keeps the invariant.
LEMMA WriteiKept ==
  ASSUME IInv, NEW p \in Procs, Writei(p)
  PROVE  IInv'
<1>1. Settled /\ c[p] \in Frames /\ Control(p) /\ c \in [Procs -> Frames] /\ disk \in Disks
      /\ Relies(p)
  BY SettledIs, Before
<1>2. /\ Move(p)
      /\ disk'.type = disk.type /\ disk'.nlink = disk.nlink /\ disk'.dir = disk.dir
      /\ \/ UNCHANGED disk
         \/ \E b \in Blocks \ disk.used :
              /\ disk'.data = [disk.data EXCEPT ![c[p].ip] = @ \cup {b}]
              /\ disk'.used = disk.used \cup {b}
  BY <1>1, WriteiStep
<1>3. UNCHANGED <<durable, lost, raced>> /\ Ends(p, <<>>) /\ c[p].pc = "writei"
      /\ Place(p) = "writei"
  BY DEF Writei, At, Place
<1>4. c[p].ip \in Inums /\ disk.type[c[p].ip] # "none"
  BY <1>1, <1>3 DEF Control, Frames, Relies
<1>5. \A j \in Inums : ~Owes(p, j) /\ ~Owes(p, j)'
  BY <1>1, <1>3, EndsOwes, OwesNot DEF Control
<1>6. Aside(p) /\ disk' \in Disks
  BY <1>2 DEF Move, Step, Types
<1>7. Descends(disk)' /\ LinksCounted'
  BY <1>2, <1>3, <1>5, <1>6, QuietCounts
<1>8. Named(disk')
  <2>1. Named(disk)
    BY DEF IInv
  <2>2. CASE UNCHANGED disk
    BY <2>1, <2>2
  <2>3. CASE \E b \in Blocks \ disk.used :
               /\ disk'.data = [disk.data EXCEPT ![c[p].ip] = @ \cup {b}]
               /\ disk'.used = disk.used \cup {b}
    BY <1>1, <1>2, <1>4, <2>1, <2>3, NamedWritten
  <2>. QED BY <1>2, <2>2, <2>3
<1>9. Named(disk)'
  BY <1>8 DEF Named
<1>10. \A i \in Inums :
         disk'.type[i] # "none" /\ disk'.nlink[i] = 0 /\ ~Holds(p, i)' =>
           disk.type[i] # "none" /\ disk.nlink[i] = 0
  BY <1>2
<1>. QED BY <1>2, <1>3, <1>7, <1>9, <1>10, ChangeKept

\* A call that owed a link to an inode and pays it: unlink(), and link() that failed.
LEMMA PaysKept ==
  ASSUME IInv, NEW p \in Procs, Move(p), NEW i \in Inums, Owes(p, i),
         UNCHANGED <<durable, lost, raced>>,
         \A j : ~Owes(p, j)', Holds(p, i)',
         disk'.type = disk.type, disk'.dir = disk.dir,
         disk'.nlink = [disk.nlink EXCEPT ![i] = disk.nlink[i] - 1],
         disk'.data = disk.data, disk'.used = disk.used
  PROVE  IInv'
<1>1. Settled /\ disk \in Disks /\ disk' \in Disks /\ Aside(p)
  BY SettledIs DEF Move, Step, Types
<1>2. Named(disk)' /\ Descends(disk)'
  <2>1. Named(disk)
    BY DEF IInv
  <2>2. Named(disk')
    BY <2>1, NamedSame
  <2>. QED BY <2>2 DEF IInv, Descends, Named
<1>3. ASSUME NEW j \in Inums PROVE Counted(j)'
  <2>1. disk.nlink[j] \in Nat /\ disk'.nlink[j] = IF j = i THEN disk.nlink[j] - 1 ELSE disk.nlink[j]
    BY <1>1 DEF Disks
  <2>2. Links(disk', j) = Links(disk, j) /\ Links(disk, j) \in Nat
    BY LinksSame, LinksAre
  <2>3. ~Owes(p, j)' /\ (Owes(p, j) <=> j = i)
    BY DEF Owes
  <2>4. (disk'.nlink[j] + Links(disk, j)) + (IF Owes(p, j) THEN 1 ELSE 0)
           = (disk.nlink[j] + Links(disk', j)) + (IF Owes(p, j)' THEN 1 ELSE 0)
    BY <2>1, <2>2, <2>3
  <2>5. LinksCounted /\ disk'.type[j] = disk.type[j]
    BY DEF IInv
  <2>. QED BY <1>1, <2>4, <2>5, CountKept
<1>4. LinksCounted'
  BY <1>3 DEF LinksCounted, Counted
<1>5. \A j \in Inums :
         disk'.type[j] # "none" /\ disk'.nlink[j] = 0 /\ ~Holds(p, j)' =>
           disk.type[j] # "none" /\ disk.nlink[j] = 0
  BY <1>1 DEF Disks
<1>. QED BY <1>2, <1>4, <1>5, ChangeKept

\* Unlink()'s decrement keeps the invariant.
LEMMA UnlinkDropKept ==
  ASSUME IInv, NEW p \in Procs, UnlinkDrop(p)
  PROVE  IInv'
<1>1. Settled /\ c \in [Procs -> Frames]
  BY SettledIs, Before
<1>2. UNCHANGED <<durable, lost, raced>> /\ Ends(p, <<c[p].ip>>)
  BY DEF UnlinkDrop
<1>3. ASSUME NEW i, i = c[p].ip PROVE IInv'
  <2>1. Holds(p, i)'
    BY <1>1, <1>2, <1>3, EndsHolds
  <2>2. /\ Move(p) /\ Owes(p, i) /\ i \in Inums /\ \A j : ~Owes(p, j)'
        /\ disk'.type = disk.type /\ disk'.dir = disk.dir
        /\ disk'.nlink = [disk.nlink EXCEPT ![i] = disk.nlink[i] - 1]
        /\ disk'.data = disk.data /\ disk'.used = disk.used
    BY <1>1, <1>3, UnlinkDropStep
  <2>. QED BY <1>2, <2>1, <2>2, PaysKept
<1>. QED BY <1>3

\* Link()'s failure keeps the invariant.
LEMMA LinkBadKept ==
  ASSUME IInv, NEW p \in Procs, LinkBad(p)
  PROVE  IInv'
<1>1. Settled /\ c \in [Procs -> Frames]
  BY SettledIs, Before
<1>2. UNCHANGED <<durable, lost, raced>> /\ Ends(p, <<c[p].ip>>)
  BY DEF LinkBad
<1>3. ASSUME NEW i, i = c[p].ip PROVE IInv'
  <2>1. Holds(p, i)'
    BY <1>1, <1>2, <1>3, EndsHolds
  <2>2. /\ Move(p) /\ Owes(p, i) /\ i \in Inums /\ \A j : ~Owes(p, j)'
        /\ disk'.type = disk.type /\ disk'.dir = disk.dir
        /\ disk'.nlink = [disk.nlink EXCEPT ![i] = disk.nlink[i] - 1]
        /\ disk'.data = disk.data /\ disk'.used = disk.used
    BY <1>1, <1>3, LinkBadStep
  <2>. QED BY <1>2, <2>1, <2>2, PaysKept
<1>. QED BY <1>3
\* Link()'s increment keeps the invariant.
LEMMA LinkOldFileKept ==
  ASSUME IInv, NEW p \in Procs, LinkOld(p), disk.type[c[p].ip] # "dir"
  PROVE  IInv'
<1>1. Settled /\ disk \in Disks /\ UNCHANGED <<durable, lost, raced>>
  BY SettledIs DEF LinkOld
<1>2. ASSUME NEW i, i = c[p].ip PROVE IInv'
  <2>1. /\ Move(p) /\ i \in Inums
        /\ (\A j : ~Owes(p, j)) /\ \A j : Owes(p, j)' <=> j = i
        /\ disk'.type = disk.type /\ disk'.dir = disk.dir
        /\ disk'.nlink = [disk.nlink EXCEPT ![i] = disk.nlink[i] + 1]
        /\ disk'.data = disk.data /\ disk'.used = disk.used
    BY <1>1, <1>2, LinkOldFileStep
  <2>2. Aside(p) /\ disk' \in Disks
    BY <2>1 DEF Move, Step, Types
  <2>3. Named(disk)' /\ Descends(disk)'
    <3>1. Named(disk)
      BY DEF IInv
    <3>2. Named(disk')
      BY <2>1, <3>1, NamedSame
    <3>. QED BY <2>1, <3>2 DEF IInv, Descends, Named
  <2>4. ASSUME NEW j \in Inums PROVE Counted(j)'
    <3>1. disk.nlink[j] \in Nat
          /\ disk'.nlink[j] = IF j = i THEN disk.nlink[j] + 1 ELSE disk.nlink[j]
      BY <1>1, <2>1 DEF Disks
    <3>2. Links(disk', j) = Links(disk, j) /\ Links(disk, j) \in Nat
      BY <2>1, LinksSame, LinksAre
    <3>3. ~Owes(p, j) /\ (Owes(p, j)' <=> j = i)
      BY <2>1
    <3>4. (disk'.nlink[j] + Links(disk, j)) + (IF Owes(p, j) THEN 1 ELSE 0)
             = (disk.nlink[j] + Links(disk', j)) + (IF Owes(p, j)' THEN 1 ELSE 0)
      BY <3>1, <3>2, <3>3
    <3>5. LinksCounted /\ disk'.type[j] = disk.type[j]
      BY <2>1 DEF IInv
    <3>. QED BY <1>1, <2>2, <3>4, <3>5, CountKept
  <2>5. LinksCounted'
    BY <2>4 DEF LinksCounted, Counted
  <2>6. \A j \in Inums :
           disk'.type[j] # "none" /\ disk'.nlink[j] = 0 /\ ~Holds(p, j)' =>
             disk.type[j] # "none" /\ disk.nlink[j] = 0
    <3>1. disk.nlink \in [Inums -> Nat]
      BY <1>1 DEF Disks
    <3>. QED BY <2>1, <3>1
  <2>. QED BY <1>1, <2>1, <2>3, <2>5, <2>6, ChangeKept
<1>. QED BY <1>2

\* Link()'s new entry keeps the invariant.
LEMMA LinkNewEntryKept ==
  ASSUME IInv, NEW p \in Procs, LinkNew(p), Entry(p) = None
  PROVE  IInv'
<1>1. Settled /\ disk \in Disks /\ UNCHANGED <<durable, lost, raced>>
  BY SettledIs DEF LinkNew
<1>2. ASSUME NEW i, i = c[p].ip, NEW dp, dp = c[p].cur, NEW n, n = Name(p) PROVE IInv'
  <2>1. /\ Move(p) /\ i \in Inums /\ dp \in Inums /\ n \in Names /\ disk.dir[dp][n] = None
        /\ disk.type[i] = "file" /\ disk.type[dp] = "dir"
        /\ Owes(p, i) /\ (\A j : ~Owes(p, j)')
        /\ disk'.type = disk.type /\ disk'.nlink = disk.nlink
        /\ disk'.dir = WithEntry(dp, n, i)
        /\ disk'.data = disk.data /\ disk'.used = disk.used
    BY <1>1, <1>2, LinkNewEntryStep DEF Entry
  <2>2. Aside(p) /\ disk' \in Disks
    BY <2>1 DEF Move, Step, Types
  <2>3. Named(disk) /\ Descends(disk) /\ LinksCounted
    BY DEF IInv
  <2>4. /\ disk'.dir[dp][n] = i
        /\ \A j \in Inums, m \in Names : j # dp \/ m # n => disk'.dir[j][m] = disk.dir[j][m]
    BY <1>1, <2>1, WithEntryIs
  <2>5. Named(disk')
    BY <1>1, <2>1, <2>3, <2>4, NamedEntry
  <2>6. Descends(disk')
    <3>1. \A m \in Names : disk.dir[i][m] = None
      BY <2>1, <2>3 DEF Named
    <3>2. dp # i /\ disk.dir \in [Inums -> [Names -> Inums \cup {None}]]
      BY <1>1, <2>1 DEF Disks
    <3>. QED BY <2>1, <2>3, <2>4, <3>1, <3>2, DescendsWith
  <2>7. ASSUME NEW j \in Inums PROVE Counted(j)'
    <3>1. disk.nlink[j] \in Nat /\ disk'.nlink[j] = disk.nlink[j]
      BY <1>1, <2>1 DEF Disks
    <3>2. Links(disk', j) = (Links(disk, j) + (IF j = i THEN 1 ELSE 0))
                            + (IF j = dp /\ disk'.type[i] = "dir" THEN 1 ELSE 0)
      BY <2>1, <2>4, LinksWith
    <3>3. Links(disk, j) \in Nat /\ disk'.type[i] # "dir"
      BY <2>1, LinksAre
    <3>4. ~Owes(p, j)' /\ (Owes(p, j) <=> j = i)
      BY <2>1 DEF Owes
    <3>5. (disk'.nlink[j] + Links(disk, j)) + (IF Owes(p, j) THEN 1 ELSE 0)
             = (disk.nlink[j] + Links(disk', j)) + (IF Owes(p, j)' THEN 1 ELSE 0)
      BY <3>1, <3>2, <3>3, <3>4
    <3>. QED BY <1>1, <2>1, <2>2, <2>3, <3>5, CountKept
  <2>8. LinksCounted'
    BY <2>7 DEF LinksCounted, Counted
  <2>9. Named(disk)' /\ Descends(disk)'
    BY <2>5, <2>6 DEF Named, Descends
  <2>. QED BY <1>1, <2>1, <2>8, <2>9, ChangeKept
<1>. QED BY <1>2

\* The entry goes before the link count of the inode, which is owed.
LEMMA UnlinkEntryKept ==
  ASSUME IInv, NEW p \in Procs, UnlinkEntry(p)
  PROVE  IInv'
<1>1. Settled /\ disk \in Disks /\ UNCHANGED <<durable, lost, raced>> /\ c \in [Procs -> Frames]
      /\ c[p] \in Frames
  BY SettledIs, Before DEF UnlinkEntry
<1>2. ASSUME NEW i, i = c[p].ip, NEW dp, dp = c[p].cur, NEW n, n = Name(p) PROVE IInv'
  <2>1. /\ Move(p) /\ i \in Inums /\ dp \in Inums /\ n \in Names
        /\ i # dp /\ disk.dir[dp][n] = i /\ disk.type[dp] = "dir"
        /\ disk.type[i] = "dir" => Entries(disk, i) = {} /\ disk.nlink[dp] # 0
        /\ (\A j : ~Owes(p, j)) /\ (\A j : Owes(p, j)' <=> j = i)
        /\ disk'.type = disk.type
        /\ disk'.nlink = [disk.nlink EXCEPT ![dp] =
             IF disk.type[i] = "dir" THEN disk.nlink[dp] - 1 ELSE disk.nlink[dp]]
        /\ disk'.dir = WithEntry(dp, n, None)
        /\ disk'.data = disk.data /\ disk'.used = disk.used
    BY <1>1, <1>2, UnlinkEntryStep DEF Entry
  <2>2. Aside(p) /\ disk' \in Disks
    BY <2>1 DEF Move, Step, Types
  <2>3. Named(disk) /\ Descends(disk) /\ LinksCounted
    BY DEF IInv
  <2>4. /\ disk'.dir[dp][n] = None
        /\ \A j \in Inums, m \in Names : j # dp \/ m # n => disk'.dir[j][m] = disk.dir[j][m]
    BY <1>1, <2>1, WithEntryIs
  <2>5. Named(disk')
    BY <1>1, <2>1, <2>3, <2>4, NamedEntry
  <2>6. Descends(disk')
    BY <2>3, <2>4, DescendsFewer
  <2>7. ASSUME NEW j \in Inums PROVE Counted(j)'
    <3>1. /\ disk.nlink[j] \in Nat
          /\ disk'.nlink[j] = IF j = dp
             /\ disk.type[i] = "dir" THEN disk.nlink[j] - 1 ELSE disk.nlink[j]
      BY <1>1, <2>1 DEF Disks
    <3>2. \A k \in Inums, m \in Names : k # dp \/ m # n =>
            /\ disk.dir[k][m] = disk'.dir[k][m]
            /\ disk'.dir[k][m] # None =>
                 (disk.type[disk'.dir[k][m]] = "dir" <=> disk'.type[disk'.dir[k][m]] = "dir")
      BY <2>1, <2>4
    <3>3. Links(disk, j) = (Links(disk', j) + (IF j = i THEN 1 ELSE 0))
                           + (IF j = dp /\ disk.type[i] = "dir" THEN 1 ELSE 0)
      BY <2>1, <2>4, <3>2, LinksWith
    <3>4. Links(disk', j) \in Nat
      BY LinksAre
    <3>5. ~Owes(p, j) /\ (Owes(p, j)' <=> j = i)
      BY <2>1
    <3>6. (disk'.nlink[j] + Links(disk, j)) + (IF Owes(p, j) THEN 1 ELSE 0)
             = (disk.nlink[j] + Links(disk', j)) + (IF Owes(p, j)' THEN 1 ELSE 0)
      BY <3>1, <3>3, <3>4, <3>5
    <3>. QED BY <1>1, <2>1, <2>2, <2>3, <3>6, CountKept
  <2>8. LinksCounted'
    BY <2>7 DEF LinksCounted, Counted
  <2>9. Named(disk)' /\ Descends(disk)'
    BY <2>5, <2>6 DEF Named, Descends
  <2>10. Holds(p, dp)'
    <3>1. c'[p] = Puts(c[p], <<c[p].cur>>, "unlink_drop")
      BY <1>1 DEF UnlinkEntry, Become
    <3>2. c'[p].puts = <<dp>> /\ c'[p].pc = "iput"
      BY <1>1, <1>2, <3>1 DEF Puts, Frames
    <3>3. 1 \in 1..Len(<<dp>>) /\ <<dp>>[1] = dp
      OBVIOUS
    <3>. QED BY <3>2, <3>3 DEF Holds
  <2>11. \A j \in Inums :
           disk'.type[j] # "none" /\ disk'.nlink[j] = 0 /\ ~Holds(p, j)' =>
             disk.type[j] # "none" /\ disk.nlink[j] = 0
    <3>1. disk.nlink \in [Inums -> Nat]
      BY <1>1 DEF Disks
    <3>2. TAKE j \in Inums
    <3>3. CASE j = dp
      BY <2>10, <3>3
    <3>4. CASE j # dp
      BY <2>1, <3>1, <3>4
    <3>. QED BY <3>3, <3>4
  <2>. QED BY <1>1, <2>1, <2>8, <2>9, <2>11, ChangeKept
<1>. QED BY <1>2
\* What a call owes a link, it holds.
LEMMA OwedIsHeld ==
  ASSUME Settled, NEW p \in Procs, NEW i \in Inums, Owes(p, i)
  PROVE  Holds(p, i) /\ disk.type[i] # "none" /\ p \in active
<1>1. Control(p)
  BY Before
<1>2. HoldsIp(p) /\ c[p].ip = i
  BY <1>1 DEF Owes, HoldsIp, Control
<1>3. c[p].pc # "idle"
  BY <1>1 DEF Owes, Control, Idle, Place
<1>. QED BY <1>1, <1>2, <1>3, Knows DEF Holds, Control

\* A free inode has no name, no entries and no link.
LEMMA FreeIs ==
  ASSUME Settled, NEW i \in Inums, disk.type[i] = "none"
  PROVE  /\ Links(disk, i) = 0 /\ Owed(i) = 0 /\ i # ROOT
         /\ \A j \in Inums, n \in Names : disk.dir[j][n] # i
         /\ \A n \in Names : disk.dir[i][n] = None
<1>1. Named(disk) /\ None \notin Inums
  BY Sizes DEF Settled
<1>2. /\ i # ROOT
      /\ \A j \in Inums, n \in Names : disk.dir[j][n] # i
      /\ \A n \in Names : disk.dir[i][n] = None
  BY <1>1 DEF Named
<1>3. Links(disk, i) = 0
  BY <1>2, NoLinks
<1>4. {p \in Procs : Owes(p, i)} = {}
  BY OwedIsHeld
<1>5. Owed(i) = 0
  BY <1>4, FS_EmptySet DEF Owed
<1>. QED BY <1>2, <1>3, <1>5

\* Create() of a new inode keeps the invariant.
LEMMA CreateNewKept ==
  ASSUME IInv, NEW p \in Procs, CreateNew(p)
  PROVE  IInv'
<1>1. Settled /\ disk \in Disks /\ UNCHANGED <<durable, lost, raced>>
  BY SettledIs DEF CreateNew
<1>2. /\ Move(p) /\ (\A j : ~Owes(p, j) /\ ~Owes(p, j)')
      /\ c[p].cur \in Inums /\ Name(p) \in Names /\ Entry(p) = None /\ disk.type[c[p].cur] = "dir"
      /\ \E i \in Inums, kind \in {"dir", "file"} :
           /\ disk.type[i] = "none" /\ i # c[p].cur
           /\ disk'.type = [disk.type EXCEPT ![i] = kind]
           /\ disk'.nlink = [disk.nlink EXCEPT ![i] = 1, ![c[p].cur] =
                IF kind = "dir" THEN disk.nlink[c[p].cur] + 1 ELSE disk.nlink[c[p].cur]]
           /\ disk'.dir = WithEntry(c[p].cur, Name(p), i)
           /\ disk'.data = disk.data /\ disk'.used = disk.used
  BY <1>1, CreateNewStep
<1>3. ASSUME NEW dp, dp = c[p].cur, NEW n, n = Name(p) PROVE IInv'
  <2>1. dp \in Inums /\ n \in Names /\ disk.dir[dp][n] = None /\ disk.type[dp] = "dir"
    BY <1>2, <1>3 DEF Entry
  <2>2. PICK i \in Inums, kind \in {"dir", "file"} :
          /\ disk.type[i] = "none" /\ i # dp
          /\ disk'.type = [disk.type EXCEPT ![i] = kind]
          /\ disk'.nlink = [disk.nlink EXCEPT ![i] = 1, ![dp] =
               IF kind = "dir" THEN disk.nlink[dp] + 1 ELSE disk.nlink[dp]]
          /\ disk'.dir = WithEntry(dp, n, i)
          /\ disk'.data = disk.data /\ disk'.used = disk.used
    BY <1>2, <1>3
  <2>3. Aside(p) /\ disk' \in Disks
    BY <1>2 DEF Move, Step, Types
  <2>4. Named(disk) /\ Descends(disk) /\ LinksCounted
    BY DEF IInv
  <2>5. /\ disk'.dir[dp][n] = i
        /\ \A j \in Inums, m \in Names : j # dp \/ m # n => disk'.dir[j][m] = disk.dir[j][m]
    BY <1>1, <2>1, <2>2, WithEntryIs
  <2>6. /\ \A j \in Inums \ {i} : disk'.type[j] = disk.type[j]
        /\ disk'.type[i] = kind
        /\ disk'.nlink[i] = 1
        /\ \A j \in Inums \ {i} : disk'.nlink[j] =
             IF j = dp /\ kind = "dir" THEN disk.nlink[j] + 1 ELSE disk.nlink[j]
    BY <1>1, <2>1, <2>2 DEF Disks
  <2>7. /\ Links(disk, i) = 0 /\ Owed(i) = 0
        /\ \A j \in Inums, m \in Names : disk.dir[j][m] # i
        /\ \A m \in Names : disk.dir[i][m] = None
    BY <1>1, <2>2, FreeIs
  <2>8. Named(disk')
    <3>1. \A k \in Inums : disk.type[k] # "none" => disk'.type[k] = disk.type[k]
      BY <2>2, <2>6
    <3>2. disk'.type[i] # "none" /\ disk'.data = disk.data /\ disk'.used = disk.used
      BY <2>2, <2>6
    <3>. QED BY <1>1, <2>1, <2>4, <2>5, <3>1, <3>2, NamedEntry
  <2>9. Descends(disk')
    <3>1. disk.dir \in [Inums -> [Names -> Inums \cup {None}]] /\ dp # i
      BY <1>1, <2>2 DEF Disks
    <3>. QED BY <2>1, <2>4, <2>5, <2>7, <3>1, DescendsWith
  <2>10. ASSUME NEW j \in Inums
         PROVE  /\ Links(disk', j) = (Links(disk, j) + (IF j = i THEN 1 ELSE 0))
                                     + (IF j = dp /\ kind = "dir" THEN 1 ELSE 0)
                /\ Links(disk, j) \in Nat /\ Owed(j) \in Nat /\ Owed(j)' = Owed(j)
    <3>1. \A k \in Inums, m \in Names : k # dp \/ m # n =>
            /\ disk'.dir[k][m] = disk.dir[k][m]
            /\ disk.dir[k][m] # None =>
                 (disk'.type[disk.dir[k][m]] = "dir" <=> disk.type[disk.dir[k][m]] = "dir")
      <4>1. ASSUME NEW k \in Inums, NEW m \in Names, disk.dir[k][m] # None
            PROVE  disk.dir[k][m] \in Inums \ {i}
        BY <1>1, <2>7, <4>1 DEF Disks
      <4>. QED BY <2>5, <2>6, <4>1
    <3>2. Links(disk', j) = (Links(disk, j) + (IF j = i THEN 1 ELSE 0))
                            + (IF j = dp /\ disk'.type[i] = "dir" THEN 1 ELSE 0)
      BY <2>1, <2>5, <3>1, LinksWith
    <3>3. Links(disk, j) \in Nat
      BY LinksAre
    <3>4. Owed(j) \in Nat /\ Owed(j)' = Owed(j)
      <4>1. /\ Owed(j) \in Nat /\ Owed(j)' \in Nat
            /\ Owed(j)' + (IF Owes(p, j) THEN 1 ELSE 0) = Owed(j) + (IF Owes(p, j)' THEN 1 ELSE 0)
        BY <2>3, OwedMoves
      <4>2. ~Owes(p, j) /\ ~Owes(p, j)'
        BY <1>2
      <4>. QED BY <4>1, <4>2
    <3>. QED BY <2>6, <3>2, <3>3, <3>4
  <2>11. ASSUME NEW j \in Inums PROVE Counted(j)'
    <3>1. CASE j = i
      <4>1. Links(disk', j) = 1 /\ Owed(j)' = 0
        BY <2>2, <2>7, <2>10, <3>1
      <4>2. disk'.nlink[j] = 1
        BY <2>6, <3>1
      <4>3. Links(disk, j)' = 1
        BY <4>1
      <4>. QED BY <4>1, <4>2, <4>3 DEF Counted
    <3>2. CASE j # i
      <4>1. disk'.type[j] = disk.type[j] /\ disk.nlink[j] \in Nat
            /\ disk'.nlink[j] = IF j = dp /\ kind = "dir" THEN disk.nlink[j] + 1 ELSE disk.nlink[j]
        BY <1>1, <2>6, <3>2 DEF Disks
      <4>2. Links(disk', j) = Links(disk, j) + (IF j = dp /\ kind = "dir" THEN 1 ELSE 0)
        BY <2>10, <3>2
      <4>3. ~Owes(p, j) /\ ~Owes(p, j)' /\ Links(disk, j) \in Nat
        BY <1>2, <2>10
      <4>4. (disk'.nlink[j] + Links(disk, j)) + (IF Owes(p, j) THEN 1 ELSE 0)
               = (disk.nlink[j] + Links(disk', j)) + (IF Owes(p, j)' THEN 1 ELSE 0)
        BY <4>1, <4>2, <4>3
      <4>. QED BY <1>1, <2>3, <2>4, <4>1, <4>4, CountKept
    <3>. QED BY <3>1, <3>2
  <2>12. LinksCounted'
    BY <2>11 DEF LinksCounted, Counted
  <2>13. Named(disk)' /\ Descends(disk)'
    BY <2>8, <2>9 DEF Named, Descends
  <2>14. \A j \in Inums :
           disk'.type[j] # "none" /\ disk'.nlink[j] = 0 /\ ~Holds(p, j)' =>
             disk.type[j] # "none" /\ disk.nlink[j] = 0
    <3>1. disk.nlink \in [Inums -> Nat]
      BY <1>1 DEF Disks
    <3>. QED BY <2>6, <3>1
  <2>. QED BY <1>1, <1>2, <2>12, <2>13, <2>14, ChangeKept
<1>. QED BY <1>3

\* The last call in progress owes nothing, and no other is left that could.
LEMMA EndOpKept ==
  ASSUME IInv, NEW p \in Procs, EndOp(p)
  PROVE  IInv'
<1>1. Settled /\ Move(p) /\ c[p] \in Frames /\ Control(p) /\ c \in [Procs -> Frames]
      /\ disk \in Disks
  BY SettledIs, EndOpStep, Before
<1>2. UNCHANGED <<disk, lost, raced>> /\ c[p].pc = "end" /\ Place(p) = "end" /\ c'[p] = Idle
      /\ durable' = IF active = {p} THEN disk ELSE durable
  BY <1>1 DEF EndOp, At, Place
<1>3. \A j \in Inums : ~Owes(p, j) /\ ~Owes(p, j)'
  BY <1>1, <1>2, OwesNot DEF Control, Owes, Idle, Place
<1>4. Aside(p) /\ Step(p)
  BY <1>1 DEF Move, Step
<1>5. Descends(disk)' /\ LinksCounted' /\ Named(disk)'
  <2>1. Named(disk)
    BY DEF IInv
  <2>. QED BY <1>1, <1>2, <1>3, <1>4, <2>1, QuietCounts DEF Named
<1>6. Running'
  BY <1>1, <1>4, RunningKept DEF Settled
<1>7. ForgottenIsRaced'
  BY <1>1, <1>2, <1>4, ForgottenKept DEF Move, Gains, Settled, IInv
<1>8. Named(durable)' /\ Descends(durable)' /\ DurableCounted'
  <2>1. CASE active # {p}
    BY <1>2, <2>1 DEF IInv, Named, Descends, DurableCounted, Links
  <2>2. CASE active = {p}
    <3>1. durable' = disk
      BY <1>2, <2>2
    <3>2. ASSUME NEW i \in Inums PROVE Owed(i) = 0
      <4>1. {q \in Procs : Owes(q, i)} = {}
        BY <1>1, <1>3, <2>2, OwedIsHeld
      <4>. QED BY <4>1, FS_EmptySet DEF Owed
    <3>3. ASSUME NEW i \in Inums
          PROVE  /\ disk.nlink[i] >= Links(disk, i)
                 /\ i \notin lost /\ disk.type[i] # "none" => disk.nlink[i] = Links(disk, i)
      <4>1. /\ disk.nlink[i] >= Links(disk, i) + Owed(i)
            /\ i \notin lost /\ disk.type[i] # "none" => disk.nlink[i] = Links(disk, i) + Owed(i)
        BY DEF IInv, LinksCounted
      <4>2. Links(disk, i) \in Nat /\ disk.nlink[i] \in Nat
        BY <1>1, LinksAre DEF Disks
      <4>. QED BY <3>2, <4>1, <4>2
    <3>4. DurableCounted'
      <4>1. \A i \in Inums : Links(durable, i)' = Links(disk, i)
        BY <3>1 DEF Links
      <4>. QED BY <1>2, <3>1, <3>3, <4>1 DEF DurableCounted
    <3>. QED BY <3>1, <3>4 DEF IInv, Named, Descends
  <2>. QED BY <2>1, <2>2
<1>. QED BY <1>5, <1>6, <1>7, <1>8 DEF IInv, Running
\* An inode that is counted and not held is looked at by each that counts.
TwoLooks ==
  \A p \in Procs, i \in Inums :
    ic[i].ref # 1 /\ Looked(p, i) /\ (\A q \in Procs : ~Holds(q, i)) =>
      \E q \in Procs \ {p} : Looked(q, i)

\* An inode nobody holds and with more than one reference left is one that two iput()s
\* have looked at.
LEMMA TwoLooksHold == Running => TwoLooks
<1>1. ASSUME Running, NEW p \in Procs, NEW i \in Inums, Looked(p, i), \A q \in Procs : ~Holds(q, i),
             \A q \in Procs \ {p} : ~Looked(q, i)
      PROVE  ic[i].ref = 1
  <2> DEFINE f == Everybody(i)
             R == {p}
  <2>1. AllControl /\ RefsExact
    BY <1>1 DEF Running
  <2>2. \A q \in Procs : f[q] = References(q, i) /\ f[q] \in Nat
    BY <2>1, ReferencesAreNat DEF Everybody, RefsAreNat
  <2>3. f[p] = 1
    BY <1>1, <2>1, <2>2, ReferenceIs DEF AllControl
  <2>4. \A q \in Procs \ {p} : f[q] = 0
    BY <1>1, <2>1, <2>2, NothingHeld DEF NoneHeld
  <2>5. ic[i].ref = SumFunctionOnSet(f, Procs)
    BY <2>1, RefsAre
  <2> HIDE DEF f
  <2>6. SumFunctionOnSet(f, Procs) = SumFunctionOnSet(f, {p})
    BY <2>2, <2>4, Sizes, SumOfRest
  <2>7. SumFunctionOnSet(f, {p}) = f[p] + SumFunctionOnSet(f, {p} \ {p})
    <3>1. IsFiniteSet({p}) /\ p \in {p} /\ \A x \in {p} : f[x] \in Int
      <4>1. IsFiniteSet({p})
        BY FS_Singleton
      <4>2. f[p] \in Int
        BY <2>3
      <4>. QED BY <4>1, <4>2
    <3>. QED BY <3>1, SumWithout
  <2>8. SumFunctionOnSet(f, {p} \ {p}) = 0
    <3>1. {p} \ {p} = {} /\ IsFiniteSet({})
      BY FS_EmptySet
    <3>. QED BY <3>1, SumEquation
  <2>. QED BY <2>3, <2>5, <2>6, <2>7, <2>8
<1>. QED BY <1>1 DEF TwoLooks

\* iput() may look at its inode, and free it, or only count down later.
LEMMA IputKept ==
  ASSUME IInv, NEW p \in Procs, Iput(p)
  PROVE  IInv'
<1>1. /\ Settled /\ Running /\ disk \in Disks /\ c \in [Procs -> Frames] /\ c[p] \in Frames
      /\ UNCHANGED <<durable, active, file>> /\ c[p].pc = "iput"
      /\ Named(disk) /\ Descends(disk) /\ LinksCounted
  BY SettledIs, Before DEF Iput, At, Settled, IInv
<1>2. ASSUME NEW i, i = Head(c[p].puts) PROVE IInv'
  <2>1. /\ Step(p) /\ (\A j : Owes(p, j)' <=> Owes(p, j)) /\ i \in Inums
        /\ LastUse(i) => /\ \A q \in Procs : ~Holds(q, i)'
                         /\ disk.nlink[i] = 0
    BY <1>1, <1>2, IputStep
  <2>2. Aside(p) /\ disk' \in Disks /\ Running'
    BY <1>1, <2>1, RunningKept DEF Step, Types
  <2>3. /\ LastUse(i) => disk' = Freed(disk, i) /\ lost' = lost \cup Entries(disk, i)
        /\ ~LastUse(i) => UNCHANGED <<disk, ic, lost>>
        /\ raced' = IF Overlaps(p, i) THEN raced \cup {i} ELSE raced
        /\ c'[p] = [c[p] EXCEPT !.pc = "unref"]
    BY <1>1, <1>2 DEF Iput, Become
  <2>4. lost \subseteq lost' /\ raced \subseteq raced'
    BY <2>3
  <2>5. Named(durable)' /\ Descends(durable)' /\ DurableCounted'
    <3>1. DurableCounted
      BY DEF IInv
    <3>2. \A j \in Inums : Links(durable, j)' = Links(durable, j)
      BY <1>1 DEF Links
    <3>3. \A j \in Inums : j \notin lost' => j \notin lost
      BY <2>4
    <3>4. durable' = durable
      BY <1>1
    <3>5. DurableCounted'
      BY <3>1, <3>2, <3>3, <3>4 DEF DurableCounted
    <3>. QED BY <1>1, <3>5 DEF IInv, Named, Descends
  <2>6. ASSUME NEW j \in Inums \ {i}, Forgotten(j)', disk'.type[j] = disk.type[j],
               disk'.nlink[j] = disk.nlink[j]
        PROVE  j \in lost' \cup raced'
    <3>1. ASSUME NEW q \in Procs, Holds(q, j) PROVE Holds(q, j)'
      <4>1. CASE q # p
        BY <2>2, <3>1, <4>1 DEF Aside, Holds, HoldsCur, HoldsIp, Place
      <4>2. CASE q = p
        <5>1. /\ c'[p].puts = c[p].puts /\ c'[p].cur = c[p].cur /\ c'[p].ip = c[p].ip
              /\ c'[p].call = c[p].call /\ c'[p].then = c[p].then /\ c'[p].pc = "unref"
              /\ file' = file
          BY <1>1, <2>3 DEF Frames
        <5>2. Place(p)' = Place(p)
          BY <1>1, <5>1 DEF Place
        <5>3. \A x \in 1..Len(c[p].puts) : c[p].puts[x] = j => x # 1
          <6>1. c[p].puts[1] = i
            <7>1. Putting(p)
              BY <1>1 DEF Putting
            <7>2. c[p].puts = <<i>> \/ \E b \in Inums : c[p].puts = <<i, b>>
              BY <1>1, <1>2, <7>1, PutsAre
            <7>. QED BY <7>2
          <6>. QED BY <6>1
        <5>. QED BY <3>1, <4>2, <5>1, <5>2, <5>3 DEF Holds, HoldsCur, HoldsIp
      <4>. QED BY <4>1, <4>2
    <3>2. Forgotten(j)
      BY <2>6, <3>1 DEF Forgotten
    <3>. QED BY <2>4, <3>2 DEF IInv, ForgottenIsRaced
  <2>7. CASE LastUse(i)
    <3>1. disk.nlink[i] = 0 /\ Links(disk, i) = 0 /\ Owed(i) = 0
      <4>1. disk.nlink[i] >= Links(disk, i) + Owed(i)
        BY <1>1, <2>1 DEF LinksCounted
      <4>2. Links(disk, i) \in Nat /\ Owed(i) \in Nat
        BY <2>1, LinksAre, OwedIsCounted
      <4>. QED BY <2>1, <2>7, <4>1, <4>2
    <3>2. i # ROOT /\ \A j \in Inums, n \in Names : disk.dir[j][n] # i
      BY <2>1, <3>1, LinksCount
    <3>3. /\ Named(disk') /\ disk'.nlink = disk.nlink
          /\ disk'.type = [disk.type EXCEPT ![i] = "none"]
          /\ \A j \in Inums \ {i} : disk'.dir[j] = disk.dir[j]
          /\ \A n \in Names : disk'.dir[i][n] = None
      <4>1. disk' = Freed(disk, i)
        BY <2>3, <2>7
      <4>2. /\ Named(Freed(disk, i)) /\ Freed(disk, i).nlink = disk.nlink
            /\ Freed(disk, i).type = [disk.type EXCEPT ![i] = "none"]
            /\ \A j \in Inums \ {i} : Freed(disk, i).dir[j] = disk.dir[j]
            /\ \A n \in Names : Freed(disk, i).dir[i][n] = None
        BY <1>1, <2>1, <3>2, NamedFreed
      <4>. QED BY <4>1, <4>2
    <3>4. \A j \in Inums, m \in Names : disk'.dir[j][m] # None => disk'.dir[j][m] = disk.dir[j][m]
      BY <3>3
    <3>5. Descends(disk')
      BY <1>1, <3>4, DescendsFewer
    <3>6. disk'.type[i] = "none" /\ \A j \in Inums \ {i} : disk'.type[j] = disk.type[j]
      BY <1>1, <2>1, <3>3 DEF Disks
    <3>7. ASSUME NEW j \in Inums PROVE Counted(j)'
      <4>1. Owed(j) \in Nat /\ Owed(j)' = Owed(j)
        BY <2>1, <2>2, OwedMoves
      <4>2. Links(disk, j) \in Nat /\ Links(disk', j) \in Nat /\ Links(disk', j) <= Links(disk, j)
        <5>1. \A k \in Inums, m \in Names : disk'.dir[k][m] # None =>
                /\ disk'.dir[k][m] = disk.dir[k][m]
                /\ disk'.type[disk'.dir[k][m]] = "dir" => disk.type[disk'.dir[k][m]] = "dir"
          <6>1. ASSUME NEW k \in Inums, NEW m \in Names, disk'.dir[k][m] # None
                PROVE  disk'.dir[k][m] = disk.dir[k][m] /\ disk.dir[k][m] \in Inums \ {i}
            BY <1>1, <3>2, <3>4, <6>1 DEF Disks
          <6>. QED BY <3>6, <6>1
        <5>. QED BY <5>1, LinksFewer, LinksAre
      <4>3. disk.nlink[j] \in Nat /\ disk'.nlink[j] = disk.nlink[j]
            /\ disk.nlink[j] >= Links(disk, j) + Owed(j)
        BY <1>1, <3>3 DEF Disks, LinksCounted
      <4>4. disk'.nlink[j] >= Links(disk', j) + Owed(j)'
        BY <4>1, <4>2, <4>3
      <4>5. j \notin lost' /\ disk'.type[j] # "none" => disk'.nlink[j] = Links(disk', j) + Owed(j)'
        <5>1. HAVE j \notin lost' /\ disk'.type[j] # "none"
        <5>2. j # i /\ j \notin lost
          BY <2>4, <3>6, <5>1
        <5>3. \A m \in Names : disk.dir[i][m] # j
          <6>1. j \notin Entries(disk, i) /\ j # None
            BY <2>3, <2>7, <5>1, Sizes
          <6>. QED BY <6>1 DEF Entries
        <5>4. \A k \in Inums, m \in Names : disk.dir[k][m] \in (Inums \ {i}) \cup {None}
          BY <1>1, <3>2 DEF Disks
        <5>5. Links(disk', j) = Links(disk, j)
          <6>1. /\ j \in Inums \ {i}
                /\ \A k \in Inums \ {i} : disk'.dir[k] = disk.dir[k] /\ disk'.type[k] = disk.type[k]
                /\ \A m \in Names : disk'.dir[i][m] = None /\ disk.dir[i][m] # j
            BY <3>3, <3>6, <5>2, <5>3
          <6>. QED BY <2>1, <5>4, <6>1, LinksKept
        <5>6. disk.type[j] # "none"
          BY <3>6, <5>1, <5>2
        <5>7. disk.nlink[j] = Links(disk, j) + Owed(j)
          BY <1>1, <5>2, <5>6 DEF LinksCounted
        <5>. QED BY <4>1, <4>3, <5>5, <5>7
      <4>6. Links(disk, j)' = Links(disk', j)
        OBVIOUS
      <4>. QED BY <4>4, <4>5, <4>6 DEF Counted
    <3>8. Named(disk)' /\ Descends(disk)' /\ LinksCounted'
      BY <3>3, <3>5, <3>7 DEF Named, Descends, LinksCounted, Counted
    <3>9. ForgottenIsRaced'
      <4>1. ASSUME NEW j \in Inums, Forgotten(j)' PROVE j \in lost' \cup raced'
        <5>1. j # i
          BY <3>6, <4>1 DEF Forgotten
        <5>. QED BY <2>6, <3>3, <3>6, <4>1, <5>1
      <4>. QED BY <4>1 DEF ForgottenIsRaced
    <3>. QED BY <2>2, <2>5, <3>8, <3>9 DEF IInv, Running
  <2>8. CASE ~LastUse(i)
    <3>1. UNCHANGED <<disk, ic, lost>>
      BY <2>3, <2>8
    <3>2. Named(disk)' /\ Descends(disk)' /\ LinksCounted'
      BY <1>1, <2>1, <2>2, <3>1, QuietCounts DEF Named
    <3>3. ForgottenIsRaced'
      <4>1. ASSUME Forgotten(i)' PROVE i \in raced'
        <5>1. Holds(p, i)
          <6>1. c[p].puts[1] = i /\ 1 \in 1..Len(c[p].puts)
            <7>1. Putting(p)
              BY <1>1 DEF Putting
            <7>2. \A a, b : 1 \in 1..Len(<<a>>) /\ <<a>>[1] = a /\ 1 \in 1..Len(<<a, b>>)
                  /\ <<a, b>>[1] = a
              OBVIOUS
            <7>. QED BY <1>1, <1>2, <7>1, <7>2, PutsAre
          <6>. QED BY <1>1, <6>1 DEF Holds
        <5>2. ic[i].ref > 0 /\ disk.type[i] # "none" /\ disk.nlink[i] = 0
          BY <1>1, <2>1, <3>1, <4>1, <5>1, Knows DEF Forgotten
        <5>3. ic[i].valid /\ ic[i].nlink = 0
          BY <1>1, <2>1, <5>2 DEF Running, CacheHonest
        <5>4. ic'[i].ref # 1
          BY <2>8, <3>1, <5>3 DEF LastUse
        <5>5. Running' => TwoLooks'
          BY TwoLooksHold, PTL
        <5>6. Looked(p, i)'
          BY <1>1, <1>2, <2>3 DEF Looked, Frames
        <5>7. PICK q \in Procs \ {p} : Looked(q, i)'
          BY <2>1, <2>2, <4>1, <5>4, <5>5, <5>6 DEF TwoLooks, Forgotten
        <5>8. Overlaps(p, i)
          BY <2>2, <5>7 DEF Overlaps, Looked, Aside, At
        <5>. QED BY <2>3, <5>8
      <4>2. ASSUME NEW j \in Inums, Forgotten(j)' PROVE j \in lost' \cup raced'
        BY <2>6, <3>1, <4>1, <4>2
      <4>. QED BY <4>2 DEF ForgottenIsRaced
    <3>. QED BY <2>2, <2>5, <3>2, <3>3 DEF IInv, Running
  <2>. QED BY <2>7, <2>8
<1>. QED BY <1>2

\* Iput()'s decrement keeps the invariant.
LEMMA IputUnrefKept ==
  ASSUME IInv, NEW p \in Procs, IputUnref(p)
  PROVE  IInv'
<1>1. /\ Settled /\ Running /\ disk \in Disks /\ c[p].pc = "unref"
      /\ UNCHANGED <<disk, durable, active, file, lost>>
      /\ Named(disk)
  BY SettledIs, Before DEF IputUnref, At, Settled, IInv
<1>2. ASSUME NEW i, i = Head(c[p].puts) PROVE IInv'
  <2>1. /\ Step(p) /\ (\A j : Owes(p, j)' <=> Owes(p, j)) /\ (\A j : Holds(p, j)' <=> Holds(p, j))
        /\ i \in Inums
    BY <1>1, <1>2, IputUnrefStep
  <2>2. Aside(p) /\ disk' \in Disks /\ Running'
    BY <1>1, <2>1, RunningKept DEF Step, Types
  <2>3. Named(disk)' /\ Descends(disk)' /\ LinksCounted'
    BY <1>1, <2>1, <2>2, QuietCounts DEF Named
  <2>4. Named(durable)' /\ Descends(durable)' /\ DurableCounted'
    BY <1>1 DEF IInv, Named, Descends, DurableCounted, Links
  <2>5. raced' = IF Overlaps(p, i) \/ (ic[i].ref = 1 /\ disk.nlink[i] = 0)
                 THEN raced ELSE raced \ {i}
    BY <1>2 DEF IputUnref
  <2>6. ASSUME NEW j \in Inums, Forgotten(j)' PROVE j \in lost' \cup raced'
    <3>1. ASSUME NEW q \in Procs PROVE Holds(q, j) <=> Holds(q, j)'
      <4>1. CASE q = p
        BY <2>1, <4>1
      <4>2. CASE q # p
        <5>1. c'[q] = c[q] /\ file'[q] = file[q]
          BY <2>2, <4>2 DEF Aside
        <5>. QED BY <5>1 DEF Holds, HoldsCur, HoldsIp, Place
      <4>. QED BY <4>1, <4>2
    <3>2. Forgotten(j)
      BY <1>1, <2>6, <3>1 DEF Forgotten
    <3>3. j \in lost \cup raced
      BY <3>2 DEF IInv, ForgottenIsRaced
    <3>4. CASE j # i
      BY <1>1, <2>5, <3>3, <3>4
    <3>5. CASE j = i
      <4>1. disk.nlink[i] = 0 /\ \A q \in Procs : ~Holds(q, i)
        BY <3>2, <3>5 DEF Forgotten
      <4>2. Looked(p, i)
        BY <1>1, <1>2 DEF Looked
      <4>3. ic[i].ref # 1 => Overlaps(p, i)
        BY <1>1, <2>1, <4>1, <4>2, TwoLooksHold DEF TwoLooks, Overlaps, Looked, At
      <4>4. raced' = raced
        BY <2>5, <4>1, <4>3
      <4>. QED BY <1>1, <3>3, <4>4
    <3>. QED BY <3>4, <3>5
  <2>7. ForgottenIsRaced'
    BY <2>6 DEF ForgottenIsRaced
  <2>. QED BY <2>2, <2>3, <2>4, <2>7 DEF IInv, Running
<1>. QED BY <1>2
-----------------------------------------------------------------------------
(* Boot and crash *)

\* Memory as Init and Crash leave it.
Booted ==
  /\ disk \in Disks /\ durable \in Disks /\ lost \subseteq Inums
  /\ active = {} /\ ic = [i \in Inums |-> Unused]
  /\ c = [p \in Procs |-> Idle] /\ file = [p \in Procs |-> None]
NothingOwed == \A i \in Inums : Owed(i) = 0

\* Nobody holds, locks or owes anything then.
LEMMA BootedRuns == Booted => Running /\ NothingOwed
<1>1. SUFFICES ASSUME Booted PROVE Running /\ NothingOwed
  OBVIOUS
<1>2. /\ disk \in Disks /\ durable \in Disks /\ lost \subseteq Inums /\ active = {}
      /\ \A i \in Inums : ic[i] = Unused
      /\ \A p \in Procs : c[p] = Idle /\ file[p] = None
  BY <1>1 DEF Booted
<1>3. /\ Idle.pc = "idle" /\ Idle.call = "none" /\ Idle.puts = <<>> /\ Idle.then = "idle"
      /\ Idle.path = <<>> /\ Idle.new = <<>> /\ Idle.cur = None /\ Idle.ip = None
      /\ Unused.ref = 0 /\ Unused.valid = FALSE /\ Unused.lock = Nobody
      /\ Unused.type = "none" /\ Unused.nlink = 0
  BY DEF Idle, Unused
<1>4. None \notin Inums /\ Nobody \notin Procs
  BY Sizes
<1>5. Unused \in CacheEntries /\ Idle \in Frames
  <2>1. Unused \in CacheEntries
    BY DEF Unused, CacheEntries, Kinds
  <2>2. <<>> \in Seq(Names) /\ <<>> \in Seq(Inums)
    OBVIOUS
  <2>3. Idle \in Frames
    BY <2>2 DEF Idle, Frames, Pcs, Calls
  <2>. QED BY <2>1, <2>3
<1>6. Types
  BY <1>1, <1>2, <1>5 DEF Types, Booted
<1>7. ASSUME NEW p \in Procs
      PROVE  /\ Place(p) = "idle" /\ ~Putting(p) /\ ~HoldsCur(p) /\ ~HoldsIp(p)
             /\ \A i \in Inums : ~Holds(p, i) /\ ~Looked(p, i) /\ ~Locked(p, i) /\ ~Owes(p, i)
  <2>1. Place(p) = "idle" /\ ~Putting(p)
    BY <1>2, <1>3 DEF Place, Putting
  <2>2. ~HoldsCur(p) /\ ~HoldsIp(p)
    BY <1>2, <1>3, <2>1 DEF HoldsCur, HoldsIp
  <2>3. c[p].puts = <<>> /\ file[p] = None /\ c[p].pc = "idle" /\ c[p].call = "none"
    BY <1>2, <1>3
  <2>4. 1..Len(<<>>) = {}
    OBVIOUS
  <2>5. \A i \in Inums : ~Holds(p, i)
    BY <1>4, <2>2, <2>3, <2>4 DEF Holds
  <2>6. \A i \in Inums : ~Looked(p, i) /\ ~Locked(p, i) /\ ~Owes(p, i)
    BY <2>1, <2>3 DEF Looked, Locked, LocksCur, LocksIp, Owes
  <2>. QED BY <2>1, <2>2, <2>5, <2>6
<1>8. AllControl
  BY <1>2, <1>3, <1>7 DEF AllControl, Control, PutsShape
<1>9. AllRely
  BY <1>2, <1>3, <1>7 DEF AllRely, Relies, AtDirectory
<1>10. LocksExact /\ HeldIsUsed
  BY <1>2, <1>3, <1>4, <1>7 DEF LocksExact, HeldIsUsed
<1>11. CacheHonest
  BY <1>2, <1>3 DEF CacheHonest
<1>12. RefsExact
  <2>1. ASSUME NEW i \in Inums PROVE ic[i].ref = SumFunctionOnSet(Everybody(i), Procs)
    <3> DEFINE f == Everybody(i)
    <3>1. \A p \in Procs : f[p] = 0
      BY <1>7, <1>8, NothingHeld DEF NoneHeld, Everybody
    <3> HIDE DEF f
    <3>2. {} \in SUBSET Procs /\ \A p \in Procs \ {} : f[p] = 0
      BY <3>1
    <3>3. SumFunctionOnSet(f, Procs) = SumFunctionOnSet(f, {})
      BY <3>1, <3>2, Sizes, SumOfRest
    <3>4. SumFunctionOnSet(f, {}) = 0
      BY FS_EmptySet, SumEquation
    <3>. QED BY <1>2, <1>3, <3>3, <3>4 DEF f
  <2>. QED BY <2>1, RefsAre
<1>13. NothingOwed
  <2>1. ASSUME NEW i \in Inums PROVE Owed(i) = 0
    <3>1. {p \in Procs : Owes(p, i)} = {}
      BY <1>7
    <3>. QED BY <3>1, FS_EmptySet DEF Owed
  <2>. QED BY <2>1 DEF NothingOwed
<1>. QED BY <1>6, <1>8, <1>9, <1>10, <1>11, <1>12, <1>13 DEF Running

\* The invariant holds of every file system the machine boots with.
LEMMA InitHolds == Init => IInv
<1>1. SUFFICES ASSUME Init PROVE IInv
  OBVIOUS
<1>2. /\ disk \in Disks /\ Consistent(disk, {}) /\ IsTree(disk)
      /\ disk.type[ROOT] = "dir"
      /\ \A i \in Inums : disk.type[i] # "none" => disk.nlink[i] > 0
  BY <1>1, ImagesAssumption DEF Init
<1>3. durable = disk /\ lost = {} /\ Booted
  BY <1>1, <1>2 DEF Init, Booted
<1>4. Running /\ NothingOwed
  BY <1>3, BootedRuns
<1>5. Named(disk)
  BY <1>2 DEF Named, Consistent
<1>6. Descends(disk)
  <2>1. PICK depth \in [Inums -> Inums] :
          \A i \in Inums, n \in Names :
            disk.dir[i][n] # None => depth[i] < depth[disk.dir[i][n]]
    BY <1>2 DEF IsTree
  <2>2. depth \in [Inums -> Nat]
    BY Sizes
  <2>. QED BY <2>1, <2>2 DEF Descends
<1>7. ASSUME NEW i \in Inums
      PROVE  /\ disk.nlink[i] >= Links(disk, i) /\ disk.nlink[i] \in Nat
             /\ disk.type[i] # "none" => disk.nlink[i] = Links(disk, i)
  <2>1. disk.nlink[i] \in Nat /\ Links(disk, i) \in Nat
    BY <1>2, LinksAre DEF Disks
  <2>2. disk.type[i] # "none" => disk.nlink[i] = Links(disk, i)
    BY <1>2 DEF Consistent
  <2>3. disk.type[i] = "none" => Links(disk, i) = 0
    <3>1. HAVE disk.type[i] = "none"
    <3>2. /\ i # ROOT /\ (\A n \in Names : disk.dir[i][n] = None)
          /\ \A j \in Inums, n \in Names : disk.dir[j][n] # i
      BY <1>5, <3>1, Sizes DEF Named
    <3>. QED BY <3>2, NoLinks
  <2>. QED BY <2>1, <2>2, <2>3
<1>8. LinksCounted /\ DurableCounted
  <2>1. LinksCounted
    BY <1>4, <1>7, LinksAre DEF LinksCounted, NothingOwed
  <2>2. DurableCounted
    BY <1>3, <1>7 DEF DurableCounted
  <2>. QED BY <2>1, <2>2
<1>9. ForgottenIsRaced
  BY <1>2 DEF ForgottenIsRaced, Forgotten
<1>. QED BY <1>3, <1>4, <1>5, <1>6, <1>8, <1>9 DEF IInv, Running

\* A crash leaves what was durable; what it forgets is in lost.
LEMMA CrashKept ==
  ASSUME IInv, Crash
  PROVE  IInv'
<1>1. /\ disk' = durable /\ durable' = durable
      /\ lost' = {i \in Inums : durable.type[i] # "none" /\ (i \in lost \/ durable.nlink[i] = 0)}
  BY DEF Crash
<1>2. disk \in Disks /\ durable \in Disks
  BY SettledIs
<1>3. Booted'
  BY <1>1, <1>2 DEF Booted, Crash
<1>4. Booted' => Running' /\ NothingOwed'
  BY BootedRuns, PTL
<1>5. Running' /\ NothingOwed'
  BY <1>3, <1>4
<1>6. Named(durable) /\ Descends(durable) /\ DurableCounted
  BY DEF IInv
<1>7. Named(disk)' /\ Descends(disk)' /\ Named(durable)' /\ Descends(durable)'
  BY <1>1, <1>6 DEF Named, Descends
<1>8. ASSUME NEW i \in Inums
      PROVE  /\ durable.nlink[i] >= Links(durable, i)
             /\ Links(durable, i) \in Nat
             /\ i \notin lost' /\ durable.type[i] # "none" => durable.nlink[i] = Links(durable, i)
  BY <1>1, <1>6, LinksAre DEF DurableCounted
<1>9. \A i \in Inums : Links(disk, i)' = Links(durable, i) /\ Links(durable, i)' = Links(durable, i)
  BY <1>1 DEF Links
<1>10. DurableCounted'
  BY <1>1, <1>8, <1>9 DEF DurableCounted
<1>11. LinksCounted'
  <2>1. \A i \in Inums : Owed(i)' = 0
    BY <1>5 DEF NothingOwed
  <2>. QED BY <1>1, <1>8, <1>9, <2>1 DEF LinksCounted
<1>12. ForgottenIsRaced'
  BY <1>1 DEF ForgottenIsRaced, Forgotten
<1>. QED BY <1>5, <1>7, <1>10, <1>11, <1>12 DEF IInv, Running

-----------------------------------------------------------------------------
(* Every step *)

\* The steps of link() keep the invariant.
LEMMA LinkKept ==
  ASSUME IInv, NEW p \in Procs, Link(p)
  PROVE  IInv'
<1>1. CASE LinkOld(p)
  BY <1>1, LinkOldDirKept, LinkOldFileKept
<1>2. CASE LinkNew(p)
  BY <1>2, LinkNewExistsKept, LinkNewEntryKept
<1>3. CASE LinkExists(p)
  BY <1>3, LinkExistsKept
<1>4. CASE LinkBad(p)
  BY <1>4, LinkBadKept
<1>. QED BY <1>1, <1>2, <1>3, <1>4 DEF Link

\* The steps of unlink() keep the invariant.
LEMMA UnlinkKept ==
  ASSUME IInv, NEW p \in Procs, Unlink(p)
  PROVE  IInv'
<1>1. CASE UnlinkLook(p)
  BY <1>1, UnlinkLookKept
<1>2. CASE UnlinkNotEmpty(p)
  BY <1>2, UnlinkNotEmptyKept
<1>3. CASE UnlinkBad(p)
  BY <1>3, UnlinkBadKept
<1>4. CASE UnlinkEntry(p)
  BY <1>4, UnlinkEntryKept
<1>5. CASE UnlinkDrop(p)
  BY <1>5, UnlinkDropKept
<1>. QED BY <1>1, <1>2, <1>3, <1>4, <1>5 DEF Unlink

\* The steps of open() and create() keep the invariant.
LEMMA OpenKept ==
  ASSUME IInv, NEW p \in Procs, Open(p)
  PROVE  IInv'
<1>1. CASE OpenExisting(p)
  BY <1>1, OpenExistingKept
<1>2. CASE CreateFinds(p)
  BY <1>2, CreateFindsKept
<1>3. CASE CreateNew(p)
  BY <1>3, CreateNewKept
<1>4. CASE Created(p)
  BY <1>4, CreatedKept
<1>. QED BY <1>1, <1>2, <1>3, <1>4 DEF Open

\* No state predicate of the invariant looks at the number of calls.
LEMMA StutterKept ==
  ASSUME IInv, UNCHANGED vars
  PROVE  IInv'
<1>1. UNCHANGED <<disk, durable, active, ic, c, file, lost, raced>>
  BY DEF vars
<1>2. Types' /\ LocksExact' /\ HeldIsUsed' /\ CacheHonest' /\ RefsExact'
  <2>1. Types' /\ CacheHonest'
    BY <1>1 DEF IInv, Types, CacheHonest
  <2>2. LocksExact'
    BY <1>1 DEF IInv, LocksExact, Locked, Place
  <2>3. HeldIsUsed'
    BY <1>1 DEF IInv, HeldIsUsed, Holds, HoldsCur, HoldsIp, Place
  <2>4. RefsExact'
    <3>1. \A p, i : References(p, i)' = References(p, i)
      BY <1>1 DEF References, HoldsCur, HoldsIp, Place
    <3>2. \A i : Everybody(i)' = Everybody(i)
      BY <3>1 DEF Everybody
    <3>3. \A i \in Inums : ic[i].ref = SumFunctionOnSet(Everybody(i), Procs)
      BY RefsAre DEF IInv
    <3>4. (RefsExact <=> \A i \in Inums : ic[i].ref = SumFunctionOnSet(Everybody(i), Procs))'
      BY RefsAre, PTL
    <3>. QED BY <1>1, <3>2, <3>3, <3>4
  <2>. QED BY <2>1, <2>2, <2>3, <2>4
<1>3. AllControl' /\ AllRely'
  BY <1>1 DEF IInv, AllControl, Control, PutsShape, Putting, HoldsCur, HoldsIp, Place,
              AllRely, Relies, Entry, Name
<1>4. Named(disk)' /\ Named(durable)' /\ Descends(disk)' /\ Descends(durable)'
  BY <1>1 DEF IInv, Named, Descends
<1>5. LinksCounted' /\ DurableCounted' /\ ForgottenIsRaced'
  BY <1>1 DEF IInv, LinksCounted, DurableCounted, Links, Owed, Owes, Place,
              ForgottenIsRaced, Forgotten, Holds, HoldsCur, HoldsIp
<1>. QED BY <1>2, <1>3, <1>4, <1>5 DEF IInv

\* Every step, a crash included, keeps the invariant.
LEMMA StepHolds == IInv /\ [Next]_vars => IInv'
<1>1. SUFFICES ASSUME IInv, [Next]_vars PROVE IInv'
  OBVIOUS
<1>2. CASE UNCHANGED vars
  BY <1>1, <1>2, StutterKept
<1>3. CASE Crash
  BY <1>1, <1>3, CrashKept
<1>4. ASSUME NEW p \in Procs, NEW path \in Paths, NEW call \in {"open", "create", "mkdir", "unlink"},
             Call(p, call, path, <<>>)
      PROVE  IInv'
  <2>1. call \in Calls \ {"none", "link2"} /\ call # "link"
    BY DEF Calls
  <2>. QED BY <1>1, <1>4, <2>1, CallKept
<1>5. ASSUME NEW p \in Procs, NEW path \in Paths, NEW new \in Paths, Call(p, "link", path, new)
      PROVE  IInv'
  <2>1. "link" \in Calls \ {"none", "link2"}
    BY DEF Calls
  <2>. QED BY <1>1, <1>5, <2>1, CallKept
<1>6. ASSUME NEW p \in Procs,
             Walk(p) \/ WalkEnds(p) \/ Iput(p) \/ IputUnref(p) \/ EndOp(p)
      PROVE  IInv'
  BY <1>1, <1>6, WalkKept, WalkEndsKept, IputKept, IputUnrefKept, EndOpKept
<1>7. ASSUME NEW p \in Procs,
             Open(p) \/ Write(p) \/ Writei(p) \/ Close(p) \/ Unlink(p) \/ Link(p)
      PROVE  IInv'
  BY <1>1, <1>7, OpenKept, WriteKept, WriteiKept, CloseKept, UnlinkKept, LinkKept
<1>. QED BY <1>1, <1>2, <1>3, <1>4, <1>5, <1>6, <1>7 DEF Next
-----------------------------------------------------------------------------
(* What the invariant says *)

\* The invariant says that pointers, cache and disk agree.
LEMMA FsInvHolds == IInv => FsInv
<1>1. SUFFICES ASSUME IInv PROVE FsInv
  OBVIOUS
<1>2. Types /\ AllControl /\ AllRely /\ RefsExact /\ CacheHonest
  BY <1>1 DEF IInv
<1>3. TypeOK
  <2>1. \A p \in Procs : c[p].pc # "idle" <=> p \in active
    BY <1>2 DEF AllControl, Control
  <2>. QED BY <1>2, <2>1 DEF TypeOK, Types, CacheEntries, Kinds
<1>4. CacheCoherent
  BY <1>2 DEF CacheCoherent, CacheHonest
<1>5. OpenFilesExist
  BY <1>2 DEF OpenFilesExist, AllRely, Relies
<1>. QED BY <1>2, <1>3, <1>4, <1>5 DEF FsInv

\* The invariant says that no call meets a free inode or takes a link that is not there.
LEMMA NoPanicHolds == IInv => NoPanic
<1>1. SUFFICES ASSUME IInv PROVE NoPanic
  OBVIOUS
<1>2. Settled
  BY <1>1, SettledIs
<1>3. ASSUME NEW p \in Procs
      PROVE  /\ (At(p, "walk") /\ c[p].path # <<>>) \/ At(p, "parent") => ~NoType(c[p].cur)
             /\ c[p].pc \in {"found", "create_have", "unlink_ip", "writei"} => ~NoType(c[p].ip)
             /\ At(p, "unlink_ip") /\ CanLock(c[p].ip) => NlinkOf(c[p].ip) >= 1
  <2>1. c[p] \in Frames /\ Control(p) /\ Relies(p)
    BY <1>2, Before
  <2>2. At(p, "walk") \/ At(p, "parent") => ~NoType(c[p].cur)
    <3>1. HAVE At(p, "walk") \/ At(p, "parent")
    <3>2. HoldsCur(p)
      BY <3>1 DEF HoldsCur, Place, At
    <3>3. c[p].cur \in Inums
      BY <2>1, <3>2 DEF Control, Frames
    <3>4. disk.type[c[p].cur] # "none"
      BY <1>2, <3>2, <3>3, Knows DEF Holds
    <3>. QED BY <3>4 DEF NoType
  <2>3. c[p].pc \in {"found", "create_have", "unlink_ip", "writei"} => ~NoType(c[p].ip)
    <3>1. HAVE c[p].pc \in {"found", "create_have", "unlink_ip", "writei"}
    <3>2. CASE c[p].pc = "writei"
      <4>1. file[p] # None /\ c[p].ip = file[p]
        BY <2>1, <3>2 DEF Control
      <4>2. disk.type[c[p].ip] = "file"
        BY <2>1, <4>1 DEF Relies
      <4>. QED BY <4>2 DEF NoType
    <3>3. CASE c[p].pc # "writei"
      <4>1. HoldsIp(p)
        BY <3>1, <3>3 DEF HoldsIp, Place
      <4>2. c[p].ip \in Inums
        BY <2>1, <4>1 DEF Control, Frames
      <4>3. disk.type[c[p].ip] # "none"
        BY <1>2, <4>1, <4>2, Knows DEF Holds
      <4>. QED BY <4>3 DEF NoType
    <3>. QED BY <3>2, <3>3
  <2>4. At(p, "unlink_ip") => NlinkOf(c[p].ip) >= 1
    <3>1. HAVE At(p, "unlink_ip")
    <3>2. /\ c[p].cur \in Inums /\ c[p].ip \in Inums /\ Name(p) \in Names /\ Entry(p) = c[p].ip
      BY <1>2, <3>1, AtUnlinkIs
    <3>3. disk.nlink[c[p].ip] # 0
      <4>1. disk.dir[c[p].cur][Name(p)] = c[p].ip /\ c[p].ip # None
        BY <3>2, Sizes DEF Entry
      <4>. QED BY <1>2, <3>2, <4>1, EntryIs
    <3>4. NlinkOf(c[p].ip) = disk.nlink[c[p].ip] /\ disk.nlink[c[p].ip] \in Nat
      BY <1>2, <3>2, Knows
    <3>. QED BY <3>3, <3>4
  <2>. QED BY <2>2, <2>3, <2>4
<1>. QED BY <1>3 DEF NoPanic

\* The invariant says that what a crash leaves is consistent.
LEMMA DurableHolds == IInv => DurableConsistent
BY DEF IInv, DurableConsistent, Consistent, Named, DurableCounted

\* The invariant says that an unlinked inode without references is free, or two iput()s
\* have put it at once.
LEMMA OnlyRacedHolds == IInv => OnlyRacedIsKept
<1>1. SUFFICES ASSUME IInv, NEW i \in Inums, Kept(i) PROVE i \in lost \cup raced
  BY DEF OnlyRacedIsKept
<1>2. Settled /\ ForgottenIsRaced
  BY <1>1, SettledIs DEF IInv
<1>3. \A p \in Procs : ~Holds(p, i)
  BY <1>1, <1>2, Knows DEF Kept
<1>4. Forgotten(i)
  BY <1>1, <1>3 DEF Kept, Forgotten
<1>. QED BY <1>2, <1>4 DEF ForgottenIsRaced

\* A call that waits with an inode locked, and not for its own directory, has the
\* directory locked and waits for an inode that an entry of it names.
LEMMA WaitsBelow ==
  ASSUME Settled, NEW p \in Procs, NEW h \in Inums, Locked(p, h),
         NEW i \in NeedsLock(p), ~WaitsForParent(p)
  PROVE  h = c[p].cur /\ i \in Inums /\ Name(p) \in Names /\ disk.dir[h][Name(p)] = i
<1>1. c[p] \in Frames /\ Control(p) /\ Relies(p)
  BY Before
<1>2. Place(p) \in LocksCur \cup LocksIp
  BY DEF Locked
<1>3. CASE At(p, "iput")
  <2>1. NeedsLock(p) = {Head(c[p].puts)} /\ i = Head(c[p].puts)
    BY <1>3 DEF NeedsLock, At
  <2>2. Place(p) = c[p].then /\ Putting(p)
    BY <1>3 DEF Place, Putting, At
  <2>3. \A a : Head(<<a>>) = a
    OBVIOUS
  <2>4. c[p].then \notin LocksIp
    <3>1. ASSUME c[p].then \in LocksIp PROVE FALSE
      <4>1. c[p].puts = <<c[p].cur>>
        BY <1>1, <2>2, <3>1 DEF Relies
      <4>2. NeedsLock(p) = {c[p].cur}
        BY <2>1, <2>3, <4>1
      <4>. QED BY <1>3, <3>1, <4>2 DEF WaitsForParent, LocksIp
    <3>. QED BY <3>1
  <2>5. c[p].then \in {"unlink_bad", "link_exists"} \/ c[p].then = "unlink_ip"
    BY <1>2, <2>2, <2>4 DEF LocksCur
  <2>6. c[p].then \in {"unlink_bad", "link_exists"}
    BY <1>1, <2>2, <2>5 DEF Control, Thens
  <2>7. h = c[p].cur
    BY <2>2, <2>6 DEF Locked, LocksIp
  <2>8. Entry(p) = i
    <3>1. CASE c[p].then = "unlink_bad"
      <4>1. Entry(p) = c[p].ip /\ c[p].puts = <<c[p].ip>>
        BY <1>1, <2>2, <3>1 DEF Relies
      <4>. QED BY <2>1, <2>3, <4>1
    <3>2. CASE c[p].then = "link_exists"
      <4>1. c[p].puts = <<Entry(p)>>
        BY <1>1, <2>2, <3>2 DEF Relies
      <4>. QED BY <2>1, <2>3, <4>1
    <3>. QED BY <2>6, <3>1, <3>2
  <2>9. i \in Inums
    BY <2>1, <2>2, PutsAre
  <2>10. Name(p) \in Names
    <3>1. Len(c[p].path) = 1 /\ c[p].path \in Seq(Names)
      BY <1>1, <2>2, <2>6 DEF Relies, AtDirectory, Frames
    <3>. QED BY <3>1 DEF Name
  <2>. QED BY <2>7, <2>8, <2>9, <2>10 DEF Entry
<1>4. CASE ~At(p, "iput")
  <2>1. c[p].pc # "unref"
    BY <1>4 DEF NeedsLock, At
  <2>2. Place(p) = c[p].pc
    BY <1>4, <2>1 DEF Place, At
  <2>3. At(p, "unlink_ip") /\ i = c[p].ip
    BY <1>2, <1>4, <2>2 DEF NeedsLock, At, LocksCur, LocksIp
  <2>4. /\ c[p].cur \in Inums /\ c[p].ip \in Inums /\ Name(p) \in Names /\ Entry(p) = c[p].ip
        /\ \A j : Locked(p, j) <=> j = c[p].cur
    BY <2>3, AtUnlinkIs
  <2>. QED BY <2>3, <2>4 DEF Entry
<1>. QED BY <1>3, <1>4

\* A finite set with numbers has one with the greatest.
LEMMA NoClimb ==
  ASSUME NEW depth \in [Inums -> Nat], NEW H \in SUBSET Inums, H # {},
         \A h \in H : \E i \in H : depth[h] < depth[i]
  PROVE  FALSE
<1> DEFINE Up(h) == {k \in H : depth[k] >= depth[h]}
           Bad == {Up(h) : h \in H}
<1>1. IsFiniteSet(H)
  BY Sizes, FS_Subset
<1>2. Bad \in SUBSET (SUBSET H) /\ Bad # {}
  OBVIOUS
<1>3. PICK M \in Bad : \A N \in Bad : N \subseteq M => N = M
  <2> HIDE DEF Bad
  <2>. QED BY <1>1, <1>2, MinimalSubset
<1>4. PICK h \in H : M = Up(h)
  BY <1>3
<1>5. PICK i \in H : depth[h] < depth[i]
  OBVIOUS
<1>6. \A k \in H : depth[k] \in Nat
  OBVIOUS
<1>7. h \in Up(h) /\ h \notin Up(i)
  BY <1>5, <1>6
<1>8. Up(i) \subseteq Up(h)
  BY <1>5, <1>6
<1>9. Up(i) \in Bad
  OBVIOUS
<1>. QED BY <1>3, <1>4, <1>7, <1>8, <1>9

\* So inodes that calls wait for in a circle would lie ever deeper in the tree.
LEMMA DeadlockHolds == IInv => OnlyParentDeadlock
<1>1. SUFFICES ASSUME IInv, NEW S \in (SUBSET Procs) \ {{}},
                      \A p \in S : \E i \in NeedsLock(p) : ic[i].lock \in S,
                      \A p \in S : ~WaitsForParent(p)
               PROVE  FALSE
  BY DEF OnlyParentDeadlock
<1>2. Settled /\ LocksExact
  BY <1>1, SettledIs DEF IInv
<1>3. PICK depth \in [Inums -> Nat] :
        \A i \in Inums, n \in Names :
          disk.dir[i][n] # None => depth[i] < depth[disk.dir[i][n]]
  BY <1>1 DEF IInv, Descends
<1> DEFINE Held == {h \in Inums : \E p \in S : Locked(p, h)}
<1>4. ASSUME NEW p \in S PROVE \E i \in NeedsLock(p) : i \in Held
  <2>1. PICK i \in NeedsLock(p) : ic[i].lock \in S
    BY <1>1
  <2>2. i \in Inums
    <3>1. c[p] \in Frames /\ Control(p) /\ p \in Procs
      BY <1>1, <1>2, Before
    <3>2. CASE At(p, "iput")
      <4>1. i = Head(c[p].puts) /\ Putting(p)
        BY <2>1, <3>2 DEF NeedsLock, Putting, At
      <4>. QED BY <1>2, <3>1, <4>1, PutsAre
    <3>3. CASE ~At(p, "iput") /\ (At(p, "parent") \/ (At(p, "walk") /\ c[p].path # <<>>))
      <4>1. i = c[p].cur /\ HoldsCur(p)
        BY <2>1, <3>3 DEF NeedsLock, HoldsCur, Place, At
      <4>. QED BY <3>1, <4>1 DEF Control, Frames
    <3>4. CASE c[p].pc \in {"found", "create_have", "unlink_ip", "writei", "link_bad"}
      <4>1. i = c[p].ip
        BY <2>1, <3>4 DEF NeedsLock, At
      <4>2. HoldsIp(p) \/ c[p].pc = "writei"
        BY <3>1, <3>4 DEF HoldsIp, Place, Control
      <4>. QED BY <3>1, <4>1, <4>2 DEF Control, Frames
    <3>. QED BY <2>1, <3>2, <3>3, <3>4 DEF NeedsLock, At
  <2>3. ic[i].lock \in Procs /\ Locked(ic[i].lock, i)
    BY <1>1, <1>2, <2>1, <2>2 DEF LocksExact
  <2>. QED BY <2>1, <2>2, <2>3
<1>5. Held # {}
  <2>1. PICK p \in S : TRUE
    BY <1>1
  <2>2. \E i \in NeedsLock(p) : i \in Held
    BY <1>4
  <2>. QED BY <2>2
<1>6. ASSUME NEW h \in Held PROVE \E i \in Held : depth[h] < depth[i]
  <2>1. PICK p \in S : Locked(p, h)
    OBVIOUS
  <2>2. PICK i \in NeedsLock(p) : i \in Held
    BY <1>4
  <2>3. /\ i \in Inums /\ Name(p) \in Names /\ disk.dir[h][Name(p)] = i /\ h \in Inums
    BY <1>1, <1>2, <2>1, <2>2, WaitsBelow
  <2>4. depth[h] < depth[i]
    BY <1>3, <2>3, Sizes
  <2>. QED BY <2>2, <2>4
<1>7. Held \in SUBSET Inums
  OBVIOUS
<1> HIDE DEF Held
<1>. QED BY <1>3, <1>5, <1>6, <1>7, NoClimb

-----------------------------------------------------------------------------
\* Whatever the calls do, and wherever the machine crashes, IInv holds.
THEOREM Invariant == Spec => []IInv
<1>1. Init => IInv
  BY InitHolds
<1>2. IInv /\ [Next]_vars => IInv'
  BY StepHolds
<1>. QED BY <1>1, <1>2, PTL DEF Spec

\* ip->ref is the number of pointers to the inode, a valid entry of the inode cache agrees
\* with the disk, and an open file's inode is in use whatever is unlinked (fs.c:122-133, 328):
\* for any number of processes, inodes and names, over every interleaving of the calls and
\* every crash.
THEOREM FsIsSafe == Spec => []FsInv
BY Invariant, FsInvHolds, PTL

\* No call ever meets a free inode in ilock(), and unlink() always finds a link to take away
\* (panic("ilock: no type"), fs.c:310; panic("unlink: nlink < 1"), sysfile.c:211).
THEOREM NoCallPanics == Spec => []NoPanic
BY Invariant, NoPanicHolds, PTL

\* After a crash at any moment every name leads to an inode in use, link counts are the names
\* there are, and no block is in two files: the calls change these together between begin_op()
\* and end_op() (log.c).  Inodes nothing leads to are the exception.
THEOREM CrashIsConsistent == Spec => []DurableConsistent
BY Invariant, DurableHolds, PTL

\* An inode without links and references that iput() has not freed is one that two
\* overlapping iput()s have put, or one created in a directory that was being removed
\* (fs.c:331-347).
THEOREM OnlyRacedAreKept == Spec => []OnlyRacedIsKept
BY Invariant, OnlyRacedHolds, PTL

\* Calls wait for one another's inodes in a circle only when one of them puts the directory
\* with the inode below it locked, as create() and unlink() do (sysfile.c:209, 280): lookup
\* takes locks downwards, and a circle would have to climb the tree somewhere.
THEOREM OnlyParentsDeadlock == Spec => []OnlyParentDeadlock
BY Invariant, DeadlockHolds, PTL
=============================================================================
