---------------------------- MODULE BcacheProofs -----------------------------
(***************************************************************************)
(* Theorems about Bcache: one buffer for a block and one holder at a time, *)
(* no lost content, request, wakeup or buffer, and the store of blocks the *)
(* cache implements, for any number of processes, buffers and blocks, as   *)
(* long as the disk reads without error.                                   *)
(***************************************************************************)
EXTENDS Bcache, TLAPS, FiniteSetTheorems, FunctionTheorems

-----------------------------------------------------------------------------
(* The inductive invariant *)

\* A process that has a reference to the buffer it took last, and not its lock.
Unlocked == {"lock", "lock_asleep", "unref"}

\* The buffers of a process are different ones; it has locked all of them, but for
\* the one it works on while it waits for its lock or has just released it.
Stacks ==
  \A p \in Procs :
    /\ stack[p] = <<>> <=> pc[p] = "idle"
    /\ \A i \in DOMAIN stack[p] :
         /\ blockno[stack[p][i]] \in Blocks
         /\ \A j \in DOMAIN stack[p] : i # j => stack[p][i] # stack[p][j]
         /\ lock[stack[p][i]] = p <=> i > 1 \/ pc[p] \notin Unlocked
         /\ i > 1 => valid[stack[p][i]]

\* Whoever has locked a buffer has a reference to it.
LockIsReferenced ==
  \A b \in Bufs : lock[b] # Nobody => \E i \in DOMAIN stack[lock[b]] : stack[lock[b]][i] = b

\* The flags of a buffer tell how far its holder is.
Flags ==
  /\ \A b \in Bufs : /\ dirty[b] => valid[b]
                     /\ valid[b] => blockno[b] \in Blocks
  /\ \A p \in Procs :
       /\ pc[p] \in {"use", "resumed", "modified", "written"} => valid[Buf(p)]
       /\ pc[p] \in {"read", "read_asleep"} => ~valid[Buf(p)]
       /\ pc[p] \in {"write", "write_asleep"} => dirty[Buf(p)]
       /\ pc[p] \in {"read_awake", "write_awake"} => valid[Buf(p)] /\ ~dirty[Buf(p)]

\* idewait() reports no error when a read completes.
ReadsSucceed == ReadOK = {TRUE}

IInv ==
  /\ TypeOK
  /\ References
  /\ Stacks
  /\ LockIsReferenced
  /\ Flags
  /\ ReadsSucceed => CleanIsOnDisk
  /\ QueueIsWaitedFor
  /\ LockSleeperHasHolder

-----------------------------------------------------------------------------
(* Places, stacks and lists *)

AllPlaces ==
  {"idle", "lock", "lock_asleep", "use", "resumed", "modified", "written", "unref",
   "read", "write", "read_asleep", "write_asleep", "read_awake", "write_awake"}

\* The steps of a transfer.
LEMMA Places ==
  /\ DOMAIN Lock = {"lock_asleep"} /\ Lock["lock_asleep"] = "lock"
  /\ DOMAIN Start = {"read", "write"}
  /\ Start["read"] = "read_asleep" /\ Start["write"] = "write_asleep"
  /\ DOMAIN Intr = {"read_asleep", "write_asleep"}
  /\ Intr["read_asleep"] = "read_awake" /\ Intr["write_asleep"] = "write_awake"
  /\ DOMAIN Done = {"read_awake", "write_awake"}
  /\ Done["read_awake"] = "use" /\ Done["write_awake"] = "written"
BY DEF Lock, Start, Intr, Done

\* The places of the type invariant.
LEMMA PlacesAre ==
  {"idle", "lock", "lock_asleep", "use", "resumed", "modified", "written", "unref"}
    \cup DOMAIN Start \cup DOMAIN Intr \cup DOMAIN Done = AllPlaces
BY Places DEF AllPlaces

\* The constants.
LEMMA Constants ==
  /\ NBUF \in Nat /\ NBUF > 0 /\ Bufs \subseteq Nat /\ 1 \in Bufs
  /\ NoBlock \notin Blocks /\ Blocks \subseteq Nat /\ Nobody \notin Procs
  /\ 0 \in Contents /\ Values \in Nat /\ Values > 0
  /\ \A c \in Contents : (c + 1) % Values \in Contents
BY BcacheAssumption DEF Bufs, NoBlock, Contents

\* A stack of buffers, with one more and with one less.
LEMMA StackFacts ==
  /\ <<>> \in Seq(Bufs) /\ Len(<<>>) = 0 /\ DOMAIN <<>> = {}
  /\ \A s \in Seq(Bufs) :
       /\ Len(s) \in Nat /\ DOMAIN s = 1..Len(s)
       /\ \A i \in DOMAIN s : s[i] \in Bufs
       /\ s # <<>> => /\ Len(s) > 0 /\ 1 \in DOMAIN s /\ Head(s) = s[1] /\ Head(s) \in Bufs
                      /\ Tail(s) \in Seq(Bufs) /\ Len(Tail(s)) = Len(s) - 1
                      /\ \A i \in 1..(Len(s) - 1) : Tail(s)[i] = s[i + 1]
       /\ \A b \in Bufs :
            /\ <<b>> \o s \in Seq(Bufs) /\ Len(<<b>> \o s) = Len(s) + 1
            /\ (<<b>> \o s)[1] = b
            /\ \A i \in 2..(Len(s) + 1) : (<<b>> \o s)[i] = s[i - 1]
            /\ Append(s, b) \in Seq(Bufs) /\ Len(Append(s, b)) = Len(s) + 1
            /\ \A i \in 1..(Len(s) + 1) :
                 Append(s, b)[i] = IF i <= Len(s) THEN s[i] ELSE b
OBVIOUS

\* The list holds every buffer: it has as many places as there are buffers.
LEMMA ListHasAll ==
  ASSUME TypeOK
  PROVE  \A b \in Bufs : \E i \in Bufs : mru[i] = b
<1>1. mru \in [Bufs -> Bufs] /\ \A i, j \in Bufs : mru[i] = mru[j] => i = j
  BY DEF TypeOK, IsInjective
<1>2. mru \in Injection(Bufs, Bufs)
  BY <1>1, Fun_IsInj
<1>3. IsFiniteSet(Bufs)
  BY Constants, FS_Interval DEF Bufs
<1>4. mru \in Surjection(Bufs, Bufs)
  BY <1>2, <1>3, FS_Injection
<1>. QED BY <1>4 DEF Surjection

\* Moving a buffer to the front leaves a list of the same buffers.
LEMMA MovedIsList ==
  ASSUME TypeOK, NEW b \in Bufs
  PROVE  MovedToFront(Place(b)) \in [Bufs -> Bufs] /\ IsInjective(MovedToFront(Place(b)))
<1> DEFINE n == Place(b)
           f == MovedToFront(n)
<1>1. n \in Bufs /\ mru[n] = b
  BY ListHasAll DEF Place
<1> HIDE DEF n
<1>2. mru \in [Bufs -> Bufs] /\ \A i, j \in Bufs : mru[i] = mru[j] => i = j
  BY DEF TypeOK, IsInjective
<1>3. \A j \in Bufs : j # 1 => j - 1 \in Bufs
  BY Constants DEF Bufs
<1>4. f \in [Bufs -> Bufs]
  BY <1>1, <1>2, <1>3, Constants DEF MovedToFront
<1>5. ASSUME NEW i \in Bufs, NEW j \in Bufs, f[i] = f[j] PROVE i = j
  <2>1. \A k \in Bufs : f[k] = IF k = 1 THEN mru[n] ELSE IF k <= n THEN mru[k - 1] ELSE mru[k]
    BY DEF MovedToFront
  <2> HIDE DEF f
  <2>2. i \in Nat /\ j \in Nat /\ n \in Nat /\ i > 0 /\ j > 0
    BY <1>1, Constants DEF Bufs
  <2>. QED BY <1>1, <1>2, <1>3, <1>5, <2>1, <2>2
<1>6. DOMAIN f = Bufs
  BY DEF MovedToFront
<1>. QED BY <1>4, <1>5, <1>6 DEF IsInjective, n

\* A part of a finite set, and a finite set with one member more or less.
LEMMA FiniteFacts ==
  ASSUME NEW S, IsFiniteSet(S)
  PROVE  /\ Cardinality(S) \in Nat
         /\ Cardinality(S) = 0 <=> S = {}
         /\ \A x : /\ IsFiniteSet(S \cup {x}) /\ IsFiniteSet(S \ {x})
                   /\ x \in S => Cardinality(S \ {x}) = Cardinality(S) - 1
                   /\ x \notin S => Cardinality(S \cup {x}) = Cardinality(S) + 1
BY FS_CardinalityType, FS_EmptySet, FS_AddElement, FS_RemoveElement

-----------------------------------------------------------------------------
(* Consequences of the invariant *)

\* The buffer a process took last.
LEMMA Last ==
  ASSUME TypeOK, Stacks, NEW p \in Procs, pc[p] # "idle"
  PROVE  /\ stack[p] \in Seq(Bufs) /\ stack[p] # <<>> /\ 1 \in DOMAIN stack[p]
         /\ Buf(p) = stack[p][1] /\ Buf(p) \in Bufs /\ blockno[Buf(p)] \in Blocks
         /\ Buf(p) \in Range(stack[p])
         /\ lock[Buf(p)] = p <=> pc[p] \notin Unlocked
<1>1. stack[p] \in Seq(Bufs) /\ stack[p] # <<>>
  BY DEF TypeOK, Stacks
<1>2. 1 \in DOMAIN stack[p] /\ Buf(p) = stack[p][1] /\ Buf(p) \in Bufs
  BY <1>1, StackFacts DEF Buf
<1>. QED BY <1>1, <1>2 DEF Stacks, Range

\* The members of a stack are distinct buffers.
LEMMA Distinct ==
  ASSUME TypeOK, Stacks, NEW p \in Procs, NEW i \in DOMAIN stack[p], NEW j \in DOMAIN stack[p],
         stack[p][i] = stack[p][j]
  PROVE  i = j
BY DEF Stacks

\* Two processes that are past their locks use different buffers.
LEMMA Exclusive ==
  ASSUME TypeOK, Stacks, NEW p \in Procs, NEW q \in Procs, pc[p] # "idle", pc[q] # "idle",
         pc[p] \notin Unlocked, pc[q] \notin Unlocked, Buf(p) = Buf(q)
  PROVE  p = q
BY Last

\* A buffer nobody has a reference to is unlocked and in no stack.
LEMMA Unreferenced ==
  ASSUME TypeOK, References, LockIsReferenced, NEW b \in Bufs, refcnt[b] = 0
  PROVE  /\ \A p \in Procs : \A i \in DOMAIN stack[p] : stack[p][i] # b
         /\ lock[b] = Nobody
<1>1. IsFiniteSet({p \in Procs : b \in Range(stack[p])})
  BY BcacheAssumption, FS_Subset
<1>2. {p \in Procs : b \in Range(stack[p])} = {}
  BY <1>1, FiniteFacts DEF References
<1>3. \A p \in Procs : \A i \in DOMAIN stack[p] : stack[p][i] # b
  BY <1>2 DEF Range
<1>. QED BY <1>3 DEF LockIsReferenced, TypeOK

\* When bget() finds no buffer, each is in the list, and dirty or referenced.
LEMMA NoneIsLost == IInv => PanicsOnlyWhenFull
<1> SUFFICES ASSUME IInv PROVE PanicsOnlyWhenFull
  OBVIOUS
<1>1. SUFFICES ASSUME NEW p \in Procs, NEW k \in Blocks, BgetPanics(p, k), NEW b \in Bufs, ~dirty[b]
               PROVE  \E q \in Procs : b \in Range(stack[q])
  BY DEF PanicsOnlyWhenFull
<1>2. PICK i \in Bufs : mru[i] = b
  BY ListHasAll DEF IInv
<1>3. refcnt[b] # 0
  BY <1>1, <1>2 DEF BgetPanics, Recyclable, IInv, TypeOK
<1>4. Cardinality({q \in Procs : b \in Range(stack[q])}) # 0
  BY <1>3 DEF IInv, References
<1>. QED BY <1>4, FS_EmptySet

-----------------------------------------------------------------------------
(* The invariant holds of the initial state and through every step *)

\* At boot the buffers are free and the disk is idle.
LEMMA InitIInv == Init => IInv
<1> SUFFICES ASSUME Init PROVE IInv
  OBVIOUS
<1>1. /\ mru = [i \in Bufs |-> NBUF + 1 - i]
      /\ blockno = [b \in Bufs |-> NoBlock] /\ refcnt = [b \in Bufs |-> 0]
      /\ \A b \in Bufs : ~valid[b] /\ ~dirty[b] /\ lock[b] = Nobody
      /\ \A p \in Procs : pc[p] = "idle" /\ stack[p] = <<>>
      /\ idequeue = <<>>
  BY DEF Init
<1>2. TypeOK
  <2>1. mru \in [Bufs -> Bufs] /\ \A i, j \in Bufs : mru[i] = mru[j] => i = j
    BY <1>1, Constants DEF Bufs
  <2>2. /\ valid \in [Bufs -> BOOLEAN] /\ dirty \in [Bufs -> BOOLEAN]
        /\ data \in [Bufs -> Contents] /\ disk \in [Blocks -> Contents]
        /\ lock \in [Bufs -> Procs \cup {Nobody}]
    BY Constants DEF Init
  <2>3. stack \in [Procs -> Seq(Bufs)] /\ pc \in [Procs -> AllPlaces]
    BY StackFacts DEF Init, AllPlaces
  <2>4. blockno \in [Bufs -> Blocks \cup {NoBlock}] /\ refcnt \in [Bufs -> Nat]
    BY <1>1
  <2>5. idequeue \in Seq(Bufs)
    BY <1>1, StackFacts
  <2>. QED BY <2>1, <2>2, <2>3, <2>4, <2>5, PlacesAre DEF TypeOK, IsInjective
<1>3. References
  <2>1. \A p \in Procs : Range(stack[p]) = {}
    BY <1>1, StackFacts DEF Range
  <2>. QED BY <1>1, <2>1, FS_EmptySet DEF References
<1>4. Stacks /\ LockIsReferenced
  BY <1>1, StackFacts DEF Stacks, LockIsReferenced
<1>5. Flags /\ CleanIsOnDisk
  BY <1>1 DEF Flags, CleanIsOnDisk
<1>6. QueueIsWaitedFor
  BY <1>1, StackFacts, Places DEF QueueIsWaitedFor, IsInjective, Range
<1>7. LockSleeperHasHolder
  BY <1>1 DEF LockSleeperHasHolder
<1>. QED BY <1>2, <1>3, <1>4, <1>5, <1>6, <1>7 DEF IInv

\* Where a process has its buffer, and the disk has nothing to do for it.
Inside == AllPlaces \ ({"idle", "read_asleep", "write_asleep"} \cup Unlocked)

\* A process that has its buffer changes its content or its flag B_DIRTY, or goes
\* on.
LEMMA HolderStep ==
  ASSUME IInv, NEW p \in Procs, pc[p] \in Inside, NEW x \in Inside, pc' = [pc EXCEPT ![p] = x],
         UNCHANGED <<mru, blockno, refcnt, valid, lock, idequeue, disk, stack>>,
         data' \in [Bufs -> Contents], dirty' \in [Bufs -> BOOLEAN],
         \A b \in Bufs : b # Buf(p) => data'[b] = data[b] /\ dirty'[b] = dirty[b],
         dirty'[Buf(p)] => valid[Buf(p)],
         x \in {"use", "resumed", "modified", "written"} => valid[Buf(p)],
         x = "read" => ~valid[Buf(p)],
         x = "write" => dirty'[Buf(p)],
         x \in {"read_awake", "write_awake"} => valid[Buf(p)] /\ ~dirty'[Buf(p)],
         ReadsSucceed /\ valid[Buf(p)] /\ ~dirty'[Buf(p)] =>
           x = "modified" \/ data'[Buf(p)] = disk[blockno[Buf(p)]]
  PROVE  IInv'
<1> DEFINE b0 == Buf(p)
<1>1. TypeOK /\ pc \in [Procs -> AllPlaces]
  BY PlacesAre DEF IInv, TypeOK
<1>2. /\ pc'[p] = x /\ \A q \in Procs : q # p => pc'[q] = pc[q]
      /\ pc[p] # "idle" /\ pc[p] \notin Unlocked /\ x # "idle" /\ x \notin Unlocked
      /\ x \in AllPlaces
  BY <1>1 DEF Inside
<1>3. \A q \in Procs : Buf(q)' = Buf(q)
  BY DEF Buf
<1>4. b0 \in Bufs /\ lock[b0] = p
  BY <1>1, <1>2, Last DEF IInv
<1>5. \A q \in Procs : q # p /\ pc[q] # "idle" /\ pc[q] \notin Unlocked => Buf(q) # b0
  BY <1>1, <1>2, Exclusive DEF IInv
<1> HIDE DEF b0
<1>6. TypeOK'
  <2>1. pc' \in [Procs -> AllPlaces]
    BY <1>1, <1>2
  <2>. QED BY <1>1, <2>1, PlacesAre DEF TypeOK
<1>7. References' /\ LockIsReferenced'
  BY DEF IInv, References, LockIsReferenced
<1>8. Stacks'
  <2>1. \A q \in Procs : /\ pc'[q] = "idle" <=> pc[q] = "idle"
                         /\ pc'[q] \in Unlocked <=> pc[q] \in Unlocked
    BY <1>2
  <2>. QED BY <2>1 DEF IInv, Stacks
<1>9. Flags'
  <2>1. \A b \in Bufs : dirty'[b] => valid[b]
    BY DEF IInv, Flags
  <2>2. ASSUME NEW q \in Procs, q # p
        PROVE  /\ pc'[q] \in {"use", "resumed", "modified", "written"} => valid[Buf(q)]
               /\ pc'[q] \in {"read", "read_asleep"} => ~valid[Buf(q)]
               /\ pc'[q] \in {"write", "write_asleep"} => dirty'[Buf(q)]
               /\ pc'[q] \in {"read_awake", "write_awake"} => valid[Buf(q)] /\ ~dirty'[Buf(q)]
    <3>1. pc'[q] = pc[q]
      BY <1>2, <2>2
    <3>2. CASE pc[q] # "idle" /\ pc[q] \notin Unlocked
      <4>1. Buf(q) # b0 /\ Buf(q) \in Bufs
        BY <1>1, <1>5, <2>2, <3>2, Last DEF IInv
      <4>. QED BY <3>1, <4>1 DEF IInv, Flags, b0
    <3>3. CASE pc[q] = "idle" \/ pc[q] \in Unlocked
      BY <3>1, <3>3 DEF Unlocked
    <3>. QED BY <3>2, <3>3
  <2>3. x # "read_asleep" /\ x # "write_asleep"
    BY DEF Inside
  <2>. QED BY <1>2, <1>3, <2>1, <2>2, <2>3 DEF IInv, Flags
<1>10. ReadsSucceed => CleanIsOnDisk'
  <2> SUFFICES ASSUME ReadsSucceed PROVE CleanIsOnDisk'
    OBVIOUS
  <2>1. ASSUME NEW b \in Bufs, valid[b], ~dirty'[b]
        PROVE  data'[b] = disk[blockno[b]] \/ \E q \in Procs : pc'[q] = "modified" /\ Buf(q) = b
    <3>1. CASE b = b0
      BY <1>2, <2>1, <3>1 DEF b0
    <3>2. CASE b # b0
      <4>1. data'[b] = data[b] /\ dirty'[b] = dirty[b]
        BY <3>2 DEF b0
      <4>2. ASSUME NEW q \in Procs, pc[q] = "modified", Buf(q) = b PROVE pc'[q] = "modified"
        BY <1>2, <3>2, <4>2 DEF b0
      <4>. QED BY <2>1, <4>1, <4>2 DEF IInv, CleanIsOnDisk
    <3>. QED BY <3>1, <3>2
  <2>. QED BY <1>3, <2>1 DEF CleanIsOnDisk
<1>11. QueueIsWaitedFor'
  <2>1. \A q \in Procs : pc'[q] \in DOMAIN Intr <=> pc[q] \in DOMAIN Intr
    BY <1>2, Places DEF Inside
  <2>. QED BY <1>3, <2>1 DEF IInv, QueueIsWaitedFor
<1>12. LockSleeperHasHolder'
  <2>1. \A q \in Procs : pc'[q] = "lock_asleep" => pc[q] = "lock_asleep"
    BY <1>2 DEF Unlocked
  <2>. QED BY <1>3, <2>1 DEF IInv, LockSleeperHasHolder
<1>. QED BY <1>6, <1>7, <1>8, <1>9, <1>10, <1>11, <1>12 DEF IInv

\* A holder changes the content of its buffer.
LEMMA ModifyStep == ASSUME IInv, NEW p \in Procs, Modify(p) PROVE IInv'
<1>1. /\ pc[p] \in {"use", "resumed"} /\ pc' = [pc EXCEPT ![p] = "modified"]
      /\ data' = [data EXCEPT ![Buf(p)] = (@ + 1) % Values]
      /\ UNCHANGED <<mru, blockno, refcnt, valid, dirty, lock, idequeue, disk, stack>>
  BY DEF Modify, GoTo, cache, flags
<1>2. pc[p] \in Inside /\ "modified" \in Inside
  BY <1>1 DEF Inside, AllPlaces, Unlocked
<1>3. TypeOK /\ Buf(p) \in Bufs /\ valid[Buf(p)]
  BY <1>1, Last DEF IInv, Flags
<1>4. data' \in [Bufs -> Contents] /\ \A b \in Bufs : b # Buf(p) => data'[b] = data[b]
  BY <1>1, <1>3, Constants DEF TypeOK
<1>5. dirty' \in [Bufs -> BOOLEAN]
  BY <1>1, <1>3 DEF TypeOK
<1>. QED BY <1>1, <1>2, <1>3, <1>4, <1>5, HolderStep

\* A holder marks its buffer dirty: log_write() leaves it so, bwrite() goes on to
\* the disk.
LEMMA WriteStep == ASSUME IInv, NEW p \in Procs, Write(p) PROVE IInv'
<1>1. /\ pc[p] = "modified" /\ dirty' = [dirty EXCEPT ![Buf(p)] = TRUE]
      /\ pc' = [pc EXCEPT ![p] = "written"] \/ pc' = [pc EXCEPT ![p] = "write"]
      /\ UNCHANGED <<mru, blockno, refcnt, valid, data, lock, idequeue, disk, stack>>
  BY DEF Write, LogWrite, Bwrite, GoTo, cache
<1>2. pc[p] \in Inside /\ "written" \in Inside /\ "write" \in Inside
  BY <1>1 DEF Inside, AllPlaces, Unlocked
<1>3. TypeOK /\ Buf(p) \in Bufs /\ valid[Buf(p)]
  BY <1>1, Last DEF IInv, Flags
<1>4. /\ dirty' \in [Bufs -> BOOLEAN] /\ dirty'[Buf(p)] /\ data' \in [Bufs -> Contents]
      /\ \A b \in Bufs : b # Buf(p) => dirty'[b] = dirty[b]
  BY <1>1, <1>3 DEF TypeOK
<1>5. CASE pc' = [pc EXCEPT ![p] = "written"]
  BY <1>1, <1>2, <1>3, <1>4, <1>5, HolderStep
<1>6. CASE pc' = [pc EXCEPT ![p] = "write"]
  BY <1>1, <1>2, <1>3, <1>4, <1>6, HolderStep
<1>. QED BY <1>1, <1>5, <1>6

\* A process returns from iderw().
LEMMA IderwReturnStep == ASSUME IInv, NEW p \in Procs, IderwReturn(p) PROVE IInv'
<1>1. /\ pc[p] \in {"read_awake", "write_awake"} /\ valid[Buf(p)] /\ ~dirty[Buf(p)]
      /\ pc' = [pc EXCEPT ![p] = "use"] \/ pc' = [pc EXCEPT ![p] = "written"]
      /\ UNCHANGED <<mru, blockno, refcnt, valid, dirty, data, lock, idequeue, disk, stack>>
  BY Places DEF IderwReturn, GoTo, cache, flags
<1>2. pc[p] \in Inside /\ "written" \in Inside /\ "use" \in Inside
  BY <1>1 DEF Inside, AllPlaces, Unlocked
<1>3. TypeOK /\ Buf(p) \in Bufs /\ pc[p] # "modified"
  BY <1>1, Last DEF IInv
<1>4. data' \in [Bufs -> Contents] /\ dirty' \in [Bufs -> BOOLEAN]
  BY <1>1, <1>3 DEF TypeOK
<1>5. ReadsSucceed => data'[Buf(p)] = disk[blockno[Buf(p)]]
  <2>1. ASSUME NEW q \in Procs, pc[q] = "modified", Buf(q) = Buf(p) PROVE FALSE
    BY <1>1, <1>3, <2>1, Exclusive DEF IInv, Unlocked
  <2>. QED BY <1>1, <1>3, <2>1 DEF IInv, CleanIsOnDisk
<1>6. CASE pc' = [pc EXCEPT ![p] = "use"]
  BY <1>1, <1>2, <1>3, <1>4, <1>5, <1>6, HolderStep
<1>7. CASE pc' = [pc EXCEPT ![p] = "written"]
  BY <1>1, <1>2, <1>3, <1>4, <1>5, <1>7, HolderStep
<1>. QED BY <1>1, <1>6, <1>7

\* A request is queued; the process waits for it with the buffer locked.
LEMMA IderwStep == ASSUME IInv, NEW p \in Procs, Iderw(p) PROVE IInv'
<1> DEFINE b0 == Buf(p)
<1>1. /\ pc[p] \in {"read", "write"} /\ idequeue' = Append(idequeue, b0)
      /\ \/ pc[p] = "read" /\ pc' = [pc EXCEPT ![p] = "read_asleep"]
         \/ pc[p] = "write" /\ pc' = [pc EXCEPT ![p] = "write_asleep"]
      /\ UNCHANGED <<mru, blockno, refcnt, valid, dirty, data, lock, disk, stack>>
  BY Places DEF Iderw, GoTo, cache, flags
<1>2. TypeOK /\ pc \in [Procs -> AllPlaces]
  BY PlacesAre DEF IInv, TypeOK
<1>3. /\ \A q \in Procs : q # p => pc'[q] = pc[q]
      /\ \/ pc[p] = "read" /\ pc'[p] = "read_asleep"
         \/ pc[p] = "write" /\ pc'[p] = "write_asleep"
  BY <1>1, <1>2
<1>4. \A q \in Procs : Buf(q)' = Buf(q)
  BY <1>1 DEF Buf
<1>5. b0 \in Bufs /\ lock[b0] = p /\ pc[p] # "idle" /\ pc[p] \notin Unlocked
  BY <1>1, <1>2, Last DEF IInv, Unlocked
<1>6. \A q \in Procs : pc[q] \in DOMAIN Intr => Buf(q) # b0
  <2>1. ASSUME NEW q \in Procs, pc[q] \in DOMAIN Intr PROVE pc[q] # "idle" /\ pc[q] \notin Unlocked
    BY <2>1, Places DEF Unlocked
  <2>. QED BY <1>1, <1>2, <1>5, <2>1, Exclusive, Places DEF IInv
<1> HIDE DEF b0
<1>7. TypeOK'
  <2>1. pc' \in [Procs -> AllPlaces]
    BY <1>1, <1>2 DEF AllPlaces
  <2>2. idequeue' \in Seq(Bufs)
    BY <1>1, <1>2, <1>5, StackFacts DEF TypeOK, b0
  <2>. QED BY <1>1, <1>2, <2>1, <2>2, PlacesAre DEF TypeOK
<1>8. References' /\ LockIsReferenced'
  BY <1>1 DEF IInv, References, LockIsReferenced
<1>9. Stacks'
  <2>1. \A q \in Procs : /\ pc'[q] = "idle" <=> pc[q] = "idle"
                         /\ pc'[q] \in Unlocked <=> pc[q] \in Unlocked
    BY <1>3 DEF Unlocked
  <2>. QED BY <1>1, <2>1 DEF IInv, Stacks
<1>10. Flags'
  BY <1>1, <1>3, <1>4 DEF IInv, Flags
<1>11. ReadsSucceed => CleanIsOnDisk'
  <2> SUFFICES ASSUME ReadsSucceed PROVE CleanIsOnDisk'
    OBVIOUS
  <2>1. \A q \in Procs : pc[q] = "modified" => pc'[q] = "modified"
    BY <1>3
  <2>. QED BY <1>1, <1>4, <2>1 DEF IInv, CleanIsOnDisk
<1>12. QueueIsWaitedFor'
  <2>1. \A q \in Procs : pc'[q] \in DOMAIN Intr <=> pc[q] \in DOMAIN Intr \/ q = p
    BY <1>3, Places
  <2>2. idequeue \in Seq(Bufs) /\ IsInjective(idequeue)
        /\ Range(idequeue) = {Buf(q) : q \in {r \in Procs : pc[r] \in DOMAIN Intr}}
    BY <1>2 DEF IInv, TypeOK, QueueIsWaitedFor
  <2>3. /\ DOMAIN idequeue = 1..Len(idequeue) /\ DOMAIN idequeue' = 1..(Len(idequeue) + 1)
        /\ \A i \in DOMAIN idequeue' : idequeue'[i] = IF i <= Len(idequeue) THEN idequeue[i] ELSE b0
        /\ Len(idequeue) \in Nat
    BY <1>1, <1>5, <2>2, StackFacts DEF b0
  <2>4. \A i \in DOMAIN idequeue : idequeue[i] # b0
    BY <1>6, <2>2 DEF Range
  <2>5. IsInjective(idequeue')
    BY <2>2, <2>3, <2>4 DEF IsInjective
  <2>6. Range(idequeue') = Range(idequeue) \cup {b0}
    BY <2>3 DEF Range
  <2>7. {Buf(q)' : q \in {r \in Procs : pc'[r] \in DOMAIN Intr}} = Range(idequeue) \cup {b0}
    BY <1>4, <2>1, <2>2 DEF b0
  <2>8. \A q \in Procs : pc'[q] \in DOMAIN Intr => lock'[Buf(q)'] = q
    BY <1>1, <1>4, <1>5, <2>1 DEF IInv, QueueIsWaitedFor, b0
  <2>. QED BY <2>5, <2>6, <2>7, <2>8 DEF QueueIsWaitedFor
<1>13. LockSleeperHasHolder'
  BY <1>1, <1>3, <1>4 DEF IInv, LockSleeperHasHolder
<1>. QED BY <1>7, <1>8, <1>9, <1>10, <1>11, <1>12, <1>13 DEF IInv

\* A process gets the sleep lock of its buffer.
LEMMA AcquireSleepStep == ASSUME IInv, NEW p \in Procs, AcquireSleep(p) PROVE IInv'
<1> DEFINE b0 == Buf(p)
<1>1. /\ pc[p] = "lock" /\ lock[b0] = Nobody /\ lock' = [lock EXCEPT ![b0] = p]
      /\ pc' = [pc EXCEPT ![p] = IF valid[b0] THEN "use" ELSE "read"]
      /\ UNCHANGED <<mru, blockno, refcnt, valid, dirty, data, idequeue, disk, stack>>
  BY DEF AcquireSleep, GoTo, cache, flags
<1>2. TypeOK /\ pc \in [Procs -> AllPlaces]
  BY PlacesAre DEF IInv, TypeOK
<1>3. /\ pc'[p] = IF valid[b0] THEN "use" ELSE "read"
      /\ \A q \in Procs : q # p => pc'[q] = pc[q]
  BY <1>1, <1>2
<1>4. \A q \in Procs : Buf(q)' = Buf(q)
  BY <1>1 DEF Buf
<1>5. b0 \in Bufs /\ stack[p][1] = b0 /\ 1 \in DOMAIN stack[p] /\ p # Nobody
  BY <1>1, <1>2, Last, Constants DEF IInv
<1>6. lock'[b0] = p /\ \A b \in Bufs : b # b0 => lock'[b] = lock[b]
  BY <1>1, <1>2, <1>5 DEF TypeOK
<1>7. TypeOK'
  <2>1. pc' \in [Procs -> AllPlaces] /\ lock' \in [Bufs -> Procs \cup {Nobody}]
    BY <1>1, <1>2, <1>5 DEF TypeOK, AllPlaces
  <2>. QED BY <1>1, <1>2, <2>1, PlacesAre DEF TypeOK
<1>8. References'
  BY <1>1 DEF IInv, References
<1>9. LockIsReferenced'
  BY <1>1, <1>5, <1>6 DEF IInv, LockIsReferenced
<1>10. Stacks'
  <2>1. ASSUME NEW q \in Procs, NEW i \in DOMAIN stack[q]
        PROVE  lock'[stack[q][i]] = q <=> i > 1 \/ pc'[q] \notin Unlocked
    <3>1. stack[q][i] \in Bufs
      BY <1>2, StackFacts DEF TypeOK
    <3>2. CASE q = p
      <4>1. CASE stack[q][i] = b0
        <5>1. i = 1
          BY <1>2, <1>5, <3>2, <4>1, Distinct DEF IInv
        <5>. QED BY <1>3, <1>6, <3>2, <4>1, <5>1 DEF Unlocked
      <4>2. CASE stack[q][i] # b0
        <5>1. i # 1 /\ i \in Nat
          BY <1>2, <1>5, <3>2, <4>2, StackFacts DEF TypeOK
        <5>2. i > 1
          BY <1>2, <5>1, StackFacts DEF TypeOK
        <5>. QED BY <1>6, <3>1, <4>2, <5>2 DEF IInv, Stacks
      <4>. QED BY <4>1, <4>2
    <3>3. CASE q # p
      <4>1. CASE stack[q][i] = b0
        <5>1. lock[stack[q][i]] # q
          BY <1>1, <4>1, Constants
        <5>. QED BY <1>3, <1>6, <3>3, <4>1, <5>1 DEF IInv, Stacks
      <4>2. CASE stack[q][i] # b0
        BY <1>3, <1>6, <3>1, <3>3, <4>2 DEF IInv, Stacks
      <4>. QED BY <4>1, <4>2
    <3>. QED BY <3>2, <3>3
  <2>2. \A q \in Procs : pc'[q] = "idle" <=> pc[q] = "idle"
    BY <1>1, <1>3
  <2>. QED BY <1>1, <2>1, <2>2 DEF IInv, Stacks
<1>11. Flags'
  BY <1>1, <1>3, <1>4 DEF IInv, Flags
<1>12. ReadsSucceed => CleanIsOnDisk'
  <2> SUFFICES ASSUME ReadsSucceed PROVE CleanIsOnDisk'
    OBVIOUS
  <2>1. \A q \in Procs : pc[q] = "modified" => pc'[q] = "modified"
    BY <1>1, <1>3
  <2>. QED BY <1>1, <1>4, <2>1 DEF IInv, CleanIsOnDisk
<1>13. QueueIsWaitedFor'
  <2>1. \A q \in Procs : pc'[q] \in DOMAIN Intr <=> pc[q] \in DOMAIN Intr
    BY <1>1, <1>3, Places
  <2>2. \A q \in Procs : pc[q] \in DOMAIN Intr => lock'[Buf(q)] = q
    <3>1. ASSUME NEW q \in Procs, pc[q] \in DOMAIN Intr PROVE lock'[Buf(q)] = q
      <4>1. lock[Buf(q)] = q
        BY <3>1 DEF IInv, QueueIsWaitedFor
      <4>2. Buf(q) \in Bufs /\ Buf(q) # b0
        BY <1>1, <1>2, <3>1, <4>1, Last, Constants, Places DEF IInv
      <4>. QED BY <1>6, <4>1, <4>2
    <3>. QED BY <3>1
  <2>. QED BY <1>1, <1>4, <2>1, <2>2 DEF IInv, QueueIsWaitedFor
<1>14. LockSleeperHasHolder'
  <2>1. ASSUME NEW q \in Procs, pc'[q] = "lock_asleep" PROVE lock'[Buf(q)] # Nobody
    <3>1. pc[q] = "lock_asleep" /\ lock[Buf(q)] # Nobody /\ Buf(q) \in Bufs
      BY <1>2, <1>3, <2>1, Last DEF IInv, LockSleeperHasHolder
    <3>. QED BY <1>1, <1>6, <3>1
  <2>. QED BY <1>4, <2>1 DEF LockSleeperHasHolder
<1>. QED BY <1>7, <1>8, <1>9, <1>10, <1>11, <1>12, <1>13, <1>14 DEF IInv

\* A process finds the lock of its buffer taken, and sleeps.
LEMMA AcquireSleepWaitStep == ASSUME IInv, NEW p \in Procs, AcquireSleepWait(p) PROVE IInv'
<1>1. /\ pc[p] = "lock" /\ lock[Buf(p)] # Nobody /\ pc' = [pc EXCEPT ![p] = "lock_asleep"]
      /\ UNCHANGED <<mru, blockno, refcnt, valid, dirty, data, lock, idequeue, disk, stack>>
  BY DEF AcquireSleepWait, GoTo, cache, flags
<1>2. TypeOK /\ pc \in [Procs -> AllPlaces]
  BY PlacesAre DEF IInv, TypeOK
<1>3. pc'[p] = "lock_asleep" /\ \A q \in Procs : q # p => pc'[q] = pc[q]
  BY <1>1, <1>2
<1>4. \A q \in Procs : Buf(q)' = Buf(q)
  BY <1>1 DEF Buf
<1>5. TypeOK'
  <2>1. pc' \in [Procs -> AllPlaces]
    BY <1>1, <1>2 DEF AllPlaces
  <2>. QED BY <1>1, <1>2, <2>1, PlacesAre DEF TypeOK
<1>6. References' /\ LockIsReferenced'
  BY <1>1 DEF IInv, References, LockIsReferenced
<1>7. Stacks'
  <2>1. \A q \in Procs : /\ pc'[q] = "idle" <=> pc[q] = "idle"
                         /\ pc'[q] \in Unlocked <=> pc[q] \in Unlocked
    BY <1>1, <1>3 DEF Unlocked
  <2>. QED BY <1>1, <2>1 DEF IInv, Stacks
<1>8. Flags'
  BY <1>1, <1>3, <1>4 DEF IInv, Flags
<1>9. ReadsSucceed => CleanIsOnDisk'
  <2> SUFFICES ASSUME ReadsSucceed PROVE CleanIsOnDisk'
    OBVIOUS
  <2>1. \A q \in Procs : pc[q] = "modified" => pc'[q] = "modified"
    BY <1>1, <1>3
  <2>. QED BY <1>1, <1>4, <2>1 DEF IInv, CleanIsOnDisk
<1>10. QueueIsWaitedFor'
  <2>1. \A q \in Procs : pc'[q] \in DOMAIN Intr <=> pc[q] \in DOMAIN Intr
    BY <1>1, <1>3, Places
  <2>. QED BY <1>1, <1>4, <2>1 DEF IInv, QueueIsWaitedFor
<1>11. LockSleeperHasHolder'
  BY <1>1, <1>3, <1>4 DEF IInv, LockSleeperHasHolder
<1>. QED BY <1>5, <1>6, <1>7, <1>8, <1>9, <1>10, <1>11 DEF IInv

\* A process releases its lock, and wakes those that wait for it.
LEMMA ReleaseSleepStep == ASSUME IInv, NEW p \in Procs, ReleaseSleep(p) PROVE IInv'
<1> DEFINE b0 == Buf(p)
<1>1. /\ pc[p] \in {"use", "resumed", "written"} /\ lock' = [lock EXCEPT ![b0] = Nobody]
      /\ pc' = [Woken(b0, Lock) EXCEPT ![p] = "unref"]
      /\ UNCHANGED <<mru, blockno, refcnt, valid, dirty, data, idequeue, disk, stack>>
  BY DEF ReleaseSleep, cache, flags
<1>2. TypeOK /\ pc \in [Procs -> AllPlaces]
  BY PlacesAre DEF IInv, TypeOK
<1>3. /\ pc'[p] = "unref"
      /\ \A q \in Procs : q # p =>
           pc'[q] = IF pc[q] = "lock_asleep" /\ Buf(q) = b0 THEN "lock" ELSE pc[q]
  BY <1>1, <1>2, Places DEF Woken
<1>4. \A q \in Procs : Buf(q)' = Buf(q)
  BY <1>1 DEF Buf
<1>5. b0 \in Bufs /\ stack[p][1] = b0 /\ 1 \in DOMAIN stack[p] /\ p # Nobody /\ lock[b0] = p
  BY <1>1, <1>2, Last, Constants DEF IInv, Unlocked
<1>6. lock'[b0] = Nobody /\ \A b \in Bufs : b # b0 => lock'[b] = lock[b]
  BY <1>1, <1>2, <1>5 DEF TypeOK
<1>7. \A q \in Procs : /\ pc'[q] = "idle" <=> pc[q] = "idle"
                       /\ q # p => (pc'[q] \in Unlocked <=> pc[q] \in Unlocked)
  BY <1>1, <1>3 DEF Unlocked
<1>8. TypeOK'
  <2>1. pc' \in [Procs -> AllPlaces]
    <3>1. Woken(b0, Lock) \in [Procs -> AllPlaces]
      BY <1>2, Places DEF Woken, AllPlaces
    <3>. QED BY <1>1, <3>1 DEF AllPlaces
  <2>2. lock' \in [Bufs -> Procs \cup {Nobody}]
    BY <1>1, <1>2, <1>5 DEF TypeOK
  <2>. QED BY <1>1, <1>2, <2>1, <2>2, PlacesAre DEF TypeOK
<1>9. References'
  BY <1>1 DEF IInv, References
<1>10. LockIsReferenced'
  BY <1>1, <1>5, <1>6 DEF IInv, LockIsReferenced
<1>11. Stacks'
  <2>1. ASSUME NEW q \in Procs, NEW i \in DOMAIN stack[q]
        PROVE  lock'[stack[q][i]] = q <=> i > 1 \/ pc'[q] \notin Unlocked
    <3>1. stack[q][i] \in Bufs /\ i \in Nat /\ i > 0
      BY <1>2, StackFacts DEF TypeOK
    <3>2. CASE stack[q][i] = b0
      <4>1. CASE q = p
        <5>1. i = 1
          BY <1>2, <1>5, <3>2, <4>1, Distinct DEF IInv
        <5>. QED BY <1>3, <1>5, <1>6, <3>2, <4>1, <5>1 DEF Unlocked
      <4>2. CASE q # p
        <5>1. lock[stack[q][i]] # q
          BY <1>5, <3>2, <4>2
        <5>. QED BY <1>6, <1>7, <3>2, <4>2, <5>1, Constants DEF IInv, Stacks
      <4>. QED BY <4>1, <4>2
    <3>3. CASE stack[q][i] # b0
      <4>1. CASE q = p
        <5>1. i > 1
          BY <1>5, <3>1, <3>3, <4>1
        <5>. QED BY <1>6, <3>1, <3>3, <5>1 DEF IInv, Stacks
      <4>2. CASE q # p
        BY <1>6, <1>7, <3>1, <3>3, <4>2 DEF IInv, Stacks
      <4>. QED BY <4>1, <4>2
    <3>. QED BY <3>2, <3>3
  <2>. QED BY <1>1, <1>7, <2>1 DEF IInv, Stacks
<1>12. Flags'
  BY <1>1, <1>3, <1>4 DEF IInv, Flags
<1>13. ReadsSucceed => CleanIsOnDisk'
  <2> SUFFICES ASSUME ReadsSucceed PROVE CleanIsOnDisk'
    OBVIOUS
  <2>1. \A q \in Procs : pc[q] = "modified" => pc'[q] = "modified"
    BY <1>1, <1>3
  <2>. QED BY <1>1, <1>4, <2>1 DEF IInv, CleanIsOnDisk
<1>14. QueueIsWaitedFor'
  <2>1. \A q \in Procs : pc'[q] \in DOMAIN Intr <=> pc[q] \in DOMAIN Intr
    BY <1>1, <1>3, Places
  <2>2. \A q \in Procs : pc[q] \in DOMAIN Intr => lock'[Buf(q)] = q
    <3>1. ASSUME NEW q \in Procs, pc[q] \in DOMAIN Intr PROVE lock'[Buf(q)] = q
      <4>1. lock[Buf(q)] = q /\ q # p
        BY <1>1, <3>1, Places DEF IInv, QueueIsWaitedFor
      <4>2. Buf(q) \in Bufs /\ Buf(q) # b0
        BY <1>2, <1>5, <3>1, <4>1, Last, Places DEF IInv
      <4>. QED BY <1>6, <4>1, <4>2
    <3>. QED BY <3>1
  <2>. QED BY <1>1, <1>4, <2>1, <2>2 DEF IInv, QueueIsWaitedFor
<1>15. LockSleeperHasHolder'
  <2>1. ASSUME NEW q \in Procs, pc'[q] = "lock_asleep" PROVE lock'[Buf(q)] # Nobody
    <3>1. pc[q] = "lock_asleep" /\ Buf(q) # b0 /\ Buf(q) \in Bufs
      BY <1>2, <1>3, <2>1, Last DEF IInv
    <3>. QED BY <1>6, <3>1 DEF IInv, LockSleeperHasHolder
  <2>. QED BY <1>4, <2>1 DEF LockSleeperHasHolder
<1>. QED BY <1>8, <1>9, <1>10, <1>11, <1>12, <1>13, <1>14, <1>15 DEF IInv

\* bget() returns buffer b for block k, found there or given to it: the process
\* has one more reference, to a buffer of another block than the one it holds.
LEMMA GetStep ==
  ASSUME IInv, NEW p \in Procs, NEW k \in Blocks, MayAsk(p, k), NEW b \in Bufs,
         stack' = [stack EXCEPT ![p] = <<b>> \o @], pc' = [pc EXCEPT ![p] = "lock"],
         UNCHANGED <<mru, data, lock, idequeue, disk>>,
         blockno' = [blockno EXCEPT ![b] = k], refcnt' = [refcnt EXCEPT ![b] = refcnt[b] + 1],
         valid' \in [Bufs -> BOOLEAN], dirty' \in [Bufs -> BOOLEAN],
         \A c \in Bufs : c # b => blockno[c] # k /\ valid'[c] = valid[c] /\ dirty'[c] = dirty[c],
         \/ blockno[b] = k /\ valid'[b] = valid[b] /\ dirty'[b] = dirty[b]
         \/ refcnt[b] = 0 /\ ~valid'[b] /\ ~dirty'[b]
  PROVE  IInv'
<1>1. TypeOK /\ pc \in [Procs -> AllPlaces]
  BY PlacesAre DEF IInv, TypeOK
<1>2. /\ \/ pc[p] = "idle" /\ stack[p] = <<>>
         \/ /\ pc[p] \in {"use", "resumed"} /\ stack[p] # <<>>
            /\ Len(stack[p]) = 1 /\ blockno[Buf(p)] # k
      /\ pc'[p] = "lock" /\ \A q \in Procs : q # p => pc'[q] = pc[q]
  BY <1>1 DEF MayAsk, Under, IInv, Stacks
<1>3. /\ stack[p] \in Seq(Bufs) /\ stack'[p] = <<b>> \o stack[p]
      /\ \A q \in Procs : q # p => stack'[q] = stack[q] /\ Buf(q)' = Buf(q)
  BY <1>1 DEF TypeOK, Buf
<1>4. /\ Len(stack[p]) \in Nat /\ DOMAIN stack[p] = 1..Len(stack[p])
      /\ stack'[p] \in Seq(Bufs) /\ DOMAIN stack'[p] = 1..(Len(stack[p]) + 1)
      /\ stack'[p][1] = b /\ \A i \in 2..(Len(stack[p]) + 1) : stack'[p][i] = stack[p][i - 1]
      /\ stack'[p] # <<>>
  BY <1>3, StackFacts
<1>5. \A i \in DOMAIN stack[p] : blockno[stack[p][i]] # k
  <2>1. CASE stack[p] = <<>>
    BY <2>1, StackFacts
  <2>2. CASE stack[p] # <<>>
    <3>1. Buf(p) = stack[p][1]
      BY <1>3, <2>2, StackFacts DEF Buf
    <3>. QED BY <1>2, <1>4, <2>2, <3>1
  <2>. QED BY <2>1, <2>2
<1>6. \A q \in Procs : \A i \in DOMAIN stack[q] :
        /\ stack[q][i] \in Bufs
        /\ q = p => stack[q][i] # b
        /\ blockno'[stack[q][i]] = blockno[stack[q][i]]
        /\ valid'[stack[q][i]] = valid[stack[q][i]] /\ dirty'[stack[q][i]] = dirty[stack[q][i]]
  <2>1. SUFFICES ASSUME NEW q \in Procs, NEW i \in DOMAIN stack[q]
                 PROVE  /\ stack[q][i] \in Bufs
                        /\ q = p => stack[q][i] # b
                        /\ blockno'[stack[q][i]] = blockno[stack[q][i]]
                        /\ valid'[stack[q][i]] = valid[stack[q][i]]
                        /\ dirty'[stack[q][i]] = dirty[stack[q][i]]
    OBVIOUS
  <2>2. stack[q][i] \in Bufs
    BY <1>1, StackFacts DEF TypeOK
  <2>3. CASE blockno[b] = k /\ valid'[b] = valid[b] /\ dirty'[b] = dirty[b]
    BY <1>1, <1>5, <2>2, <2>3 DEF TypeOK
  <2>4. CASE refcnt[b] = 0
    <3>1. stack[q][i] # b
      BY <1>1, <2>4, Unreferenced DEF IInv
    <3>. QED BY <1>1, <2>2, <3>1 DEF TypeOK
  <2>. QED BY <2>3, <2>4
<1>7. lock[b] # p
  BY <1>1, <1>6, Constants DEF IInv, LockIsReferenced
<1>8. Range(stack'[p]) = Range(stack[p]) \cup {b} /\ b \notin Range(stack[p])
  <2>1. b \notin Range(stack[p])
    BY <1>6 DEF Range
  <2>2. Range(stack'[p]) \subseteq Range(stack[p]) \cup {b}
    <3>1. ASSUME NEW i \in DOMAIN stack'[p]
          PROVE  stack'[p][i] = b \/ \E j \in DOMAIN stack[p] : stack[p][j] = stack'[p][i]
      <4>1. CASE i = 1
        BY <1>4, <4>1
      <4>2. CASE i # 1
        <5>1. i \in 2..(Len(stack[p]) + 1) /\ i - 1 \in DOMAIN stack[p]
          BY <1>4, <4>2
        <5>. QED BY <1>4, <5>1
      <4>. QED BY <4>1, <4>2
    <3>. QED BY <3>1 DEF Range
  <2>3. Range(stack[p]) \cup {b} \subseteq Range(stack'[p])
    <3>1. 1 \in DOMAIN stack'[p]
      BY <1>4
    <3>2. ASSUME NEW j \in DOMAIN stack[p]
          PROVE  j + 1 \in DOMAIN stack'[p] /\ stack'[p][j + 1] = stack[p][j]
      <4>1. j + 1 \in DOMAIN stack'[p] /\ j + 1 \in 2..(Len(stack[p]) + 1) /\ (j + 1) - 1 = j
        BY <1>4
      <4>2. stack'[p][j + 1] = stack[p][(j + 1) - 1]
        BY <1>4, <4>1
      <4>. QED BY <4>1, <4>2
    <3>3. ASSUME NEW c \in Range(stack[p]) PROVE c \in Range(stack'[p])
      <4>1. PICK j \in DOMAIN stack[p] : stack[p][j] = c
        BY DEF Range
      <4>. QED BY <3>2, <4>1 DEF Range
    <3>4. b \in Range(stack'[p])
      BY <1>4, <3>1 DEF Range
    <3>. QED BY <3>3, <3>4
  <2>. QED BY <2>1, <2>2, <2>3
<1>9. TypeOK'
  <2>1. pc' \in [Procs -> AllPlaces] /\ stack' \in [Procs -> Seq(Bufs)]
    BY <1>1, <1>4 DEF TypeOK, AllPlaces
  <2>2. blockno' \in [Bufs -> Blocks \cup {NoBlock}] /\ refcnt' \in [Bufs -> Nat]
    BY <1>1 DEF TypeOK
  <2>. QED BY <1>1, <2>1, <2>2, PlacesAre DEF TypeOK
<1>10. References'
  <2>1. \A c, d \in Bufs : blockno'[c] = blockno'[d] /\ blockno'[c] # NoBlock => c = d
    BY <1>1 DEF IInv, References, TypeOK
  <2>2. ASSUME NEW c \in Bufs
        PROVE  refcnt'[c] = Cardinality({q \in Procs : c \in Range(stack'[q])})
    <3> DEFINE S == {q \in Procs : c \in Range(stack[q])}
    <3>1. IsFiniteSet(S) /\ refcnt[c] = Cardinality(S)
      BY BcacheAssumption, FS_Subset DEF IInv, References
    <3>2. CASE c = b
      <4>1. {q \in Procs : c \in Range(stack'[q])} = S \cup {p} /\ p \notin S
        BY <1>3, <1>8, <3>2
      <4> HIDE DEF S
      <4>2. Cardinality(S \cup {p}) = Cardinality(S) + 1
        BY <3>1, <4>1, FiniteFacts
      <4>. QED BY <1>1, <3>1, <3>2, <4>1, <4>2 DEF TypeOK
    <3>3. CASE c # b
      <4>1. {q \in Procs : c \in Range(stack'[q])} = S
        BY <1>3, <1>8, <3>3
      <4>. QED BY <1>1, <3>1, <3>3, <4>1 DEF TypeOK
    <3>. QED BY <3>2, <3>3
  <2>. QED BY <2>1, <2>2 DEF References
<1>11. LockIsReferenced'
  <2>1. ASSUME NEW c \in Bufs, lock[c] # Nobody
        PROVE  \E i \in DOMAIN stack'[lock[c]] : stack'[lock[c]][i] = c
    <3>1. PICK i \in DOMAIN stack[lock[c]] : stack[lock[c]][i] = c
      BY <2>1 DEF IInv, LockIsReferenced
    <3>2. CASE lock[c] = p
      <4>1. i + 1 \in DOMAIN stack'[p] /\ stack'[p][i + 1] = stack[p][i]
        BY <1>4, <3>1, <3>2
      <4>. QED BY <3>1, <3>2, <4>1
    <3>3. CASE lock[c] # p
      <4>1. lock[c] \in Procs
        BY <1>1, <2>1 DEF TypeOK
      <4>. QED BY <1>3, <3>1, <3>3, <4>1
    <3>. QED BY <3>2, <3>3
  <2>. QED BY <2>1 DEF LockIsReferenced
<1>12. Stacks'
  <2>1. ASSUME NEW q \in Procs, q # p
        PROVE  /\ stack'[q] = <<>> <=> pc'[q] = "idle"
               /\ \A i \in DOMAIN stack'[q] :
                    /\ blockno'[stack'[q][i]] \in Blocks
                    /\ \A j \in DOMAIN stack'[q] :
                         i # j => stack'[q][i] # stack'[q][j]
                    /\ lock'[stack'[q][i]] = q <=> i > 1 \/ pc'[q] \notin Unlocked
                    /\ i > 1 => valid'[stack'[q][i]]
    BY <1>2, <1>3, <1>6, <2>1 DEF IInv, Stacks
  <2>2. blockno'[b] = k
    BY <1>1 DEF TypeOK
  <2>3. ASSUME NEW i \in DOMAIN stack'[p], NEW j \in DOMAIN stack'[p], i # j
        PROVE  stack'[p][i] # stack'[p][j]
    <3>1. \A n \in DOMAIN stack'[p] :
            n = 1 \/ (n \in 2..(Len(stack[p]) + 1) /\ n - 1 \in DOMAIN stack[p])
      BY <1>4
    <3>2. CASE i = 1
      BY <1>4, <1>6, <2>3, <3>1, <3>2
    <3>3. CASE j = 1
      BY <1>4, <1>6, <2>3, <3>1, <3>3
    <3>4. CASE i # 1 /\ j # 1
      <4>1. i - 1 # j - 1 /\ i - 1 \in DOMAIN stack[p] /\ j - 1 \in DOMAIN stack[p]
        BY <2>3, <3>1, <3>4
      <4>2. stack'[p][i] = stack[p][i - 1] /\ stack'[p][j] = stack[p][j - 1]
        BY <1>4, <3>1, <3>4
      <4>. QED BY <4>1, <4>2 DEF IInv, Stacks
    <3>. QED BY <3>2, <3>3, <3>4
  <2>4. ASSUME NEW i \in DOMAIN stack'[p]
        PROVE  /\ blockno'[stack'[p][i]] \in Blocks
               /\ lock'[stack'[p][i]] = p <=> i > 1 \/ pc'[p] \notin Unlocked
               /\ i > 1 => valid'[stack'[p][i]]
    <3>1. CASE i = 1
      BY <1>2, <1>4, <1>7, <2>2, <3>1 DEF Unlocked
    <3>2. CASE i # 1
      <4>1. i \in 2..(Len(stack[p]) + 1) /\ i - 1 \in DOMAIN stack[p] /\ i > 1
        BY <1>4, <3>2
      <4>2. stack'[p][i] = stack[p][i - 1]
        BY <1>4, <4>1
      <4>3. pc[p] \in {"use", "resumed"}
        BY <1>2, <4>1, StackFacts
      <4>4. blockno[stack[p][i - 1]] \in Blocks /\ lock[stack[p][i - 1]] = p
        BY <4>1, <4>3 DEF IInv, Stacks, Unlocked
      <4>5. valid[stack[p][i - 1]]
        <5>1. CASE i - 1 = 1
          <6>1. Buf(p) = stack[p][1]
            BY <1>1, <4>3, Last DEF IInv
          <6>. QED BY <4>3, <5>1, <6>1 DEF IInv, Flags
        <5>2. CASE i - 1 # 1
          <6>1. i - 1 > 1
            BY <4>1, <5>2
          <6>. QED BY <4>1, <6>1 DEF IInv, Stacks
        <5>. QED BY <5>1, <5>2
      <4>. QED BY <1>6, <4>1, <4>2, <4>4, <4>5
    <3>. QED BY <3>1, <3>2
  <2>5. stack'[p] = <<>> <=> pc'[p] = "idle"
    BY <1>2, <1>4
  <2>. QED BY <2>1, <2>3, <2>4, <2>5 DEF Stacks
<1>13. \A q \in Procs : pc[q] # "idle" => /\ valid'[Buf(q)] = valid[Buf(q)]
                                         /\ dirty'[Buf(q)] = dirty[Buf(q)]
  BY <1>1, <1>6, Last DEF IInv
<1>14. Flags'
  <2>1. \A c \in Bufs : (dirty'[c] => valid'[c]) /\ (valid'[c] => blockno'[c] \in Blocks)
    BY <1>1 DEF IInv, Flags, TypeOK
  <2>2. ASSUME NEW q \in Procs, q # p, pc[q] # "idle"
        PROVE  /\ pc'[q] = pc[q] /\ Buf(q)' = Buf(q)
               /\ valid'[Buf(q)] = valid[Buf(q)] /\ dirty'[Buf(q)] = dirty[Buf(q)]
    BY <1>2, <1>3, <1>13, <2>2
  <2>. QED BY <1>2, <2>1, <2>2 DEF IInv, Flags
<1>15. ReadsSucceed => CleanIsOnDisk'
  <2> SUFFICES ASSUME ReadsSucceed PROVE CleanIsOnDisk'
    OBVIOUS
  <2>1. ASSUME NEW c \in Bufs, valid'[c], ~dirty'[c]
        PROVE  data[c] = disk[blockno'[c]] \/ \E q \in Procs : pc'[q] = "modified" /\ Buf(q)' = c
    <3>1. blockno'[c] = blockno[c] /\ valid[c] /\ ~dirty[c]
      BY <1>1, <2>1 DEF TypeOK
    <3>2. \A q \in Procs : pc[q] = "modified" => q # p
      BY <1>2
    <3>. QED BY <1>2, <1>3, <3>1, <3>2 DEF IInv, CleanIsOnDisk
  <2>. QED BY <2>1 DEF CleanIsOnDisk
<1>16. QueueIsWaitedFor'
  <2>1. \A q \in Procs : pc'[q] \in DOMAIN Intr <=> (pc[q] \in DOMAIN Intr /\ q # p)
    BY <1>2, Places
  <2>2. \A q \in Procs : pc[q] \in DOMAIN Intr => q # p
    BY <1>2, Places
  <2>3. {Buf(q)' : q \in {r \in Procs : pc'[r] \in DOMAIN Intr}}
          = {Buf(q) : q \in {r \in Procs : pc[r] \in DOMAIN Intr}}
    BY <1>3, <2>1, <2>2
  <2>. QED BY <1>3, <2>1, <2>3 DEF IInv, QueueIsWaitedFor
<1>17. LockSleeperHasHolder'
  BY <1>2, <1>3 DEF IInv, LockSleeperHasHolder
<1>. QED BY <1>9, <1>10, <1>11, <1>12, <1>14, <1>15, <1>16, <1>17 DEF IInv

\* bget() finds the block cached.
LEMMA BgetHitStep == ASSUME IInv, NEW p \in Procs, NEW k \in Blocks, BgetHit(p, k) PROVE IInv'
<1>1. PICK i \in DOMAIN mru :
        /\ blockno[mru[i]] = k
        /\ refcnt' = [refcnt EXCEPT ![mru[i]] = @ + 1]
        /\ stack' = [stack EXCEPT ![p] = <<mru[i]>> \o @]
  BY DEF BgetHit
<1>2. TypeOK
  BY DEF IInv
<1> DEFINE b == mru[i]
<1>3. b \in Bufs /\ blockno[b] = k /\ k # NoBlock
  BY <1>1, <1>2, Constants DEF TypeOK
<1> HIDE DEF b
<1>4. /\ MayAsk(p, k) /\ pc' = [pc EXCEPT ![p] = "lock"]
      /\ UNCHANGED <<mru, blockno, valid, dirty, data, lock, idequeue, disk>>
  BY DEF BgetHit, GoTo, flags
<1>5. /\ refcnt' = [refcnt EXCEPT ![b] = refcnt[b] + 1]
      /\ stack' = [stack EXCEPT ![p] = <<b>> \o @]
      /\ blockno' = [blockno EXCEPT ![b] = k]
  BY <1>1, <1>2, <1>3, <1>4 DEF b, TypeOK
<1>6. \A c \in Bufs : c # b => blockno[c] # k /\ valid'[c] = valid[c] /\ dirty'[c] = dirty[c]
  BY <1>3, <1>4 DEF IInv, References
<1>7. valid' \in [Bufs -> BOOLEAN] /\ dirty' \in [Bufs -> BOOLEAN]
  BY <1>2, <1>4 DEF TypeOK
<1>. QED BY <1>3, <1>4, <1>5, <1>6, <1>7, GetStep

\* bget() gives the block a buffer that nobody needs.
LEMMA BgetRecycleStep ==
  ASSUME IInv, NEW p \in Procs, NEW k \in Blocks, BgetRecycle(p, k) PROVE IInv'
<1>1. PICK i \in Recyclable :
        /\ blockno' = [blockno EXCEPT ![mru[i]] = k]
        /\ valid' = [valid EXCEPT ![mru[i]] = FALSE]
        /\ dirty' = [dirty EXCEPT ![mru[i]] = FALSE]
        /\ refcnt' = [refcnt EXCEPT ![mru[i]] = 1]
        /\ stack' = [stack EXCEPT ![p] = <<mru[i]>> \o @]
  BY DEF BgetRecycle
<1>2. TypeOK
  BY DEF IInv
<1> DEFINE b == mru[i]
<1>3. b \in Bufs /\ refcnt[b] = 0
  BY <1>1, <1>2 DEF Recyclable, TypeOK
<1> HIDE DEF b
<1>4. /\ MayAsk(p, k) /\ pc' = [pc EXCEPT ![p] = "lock"]
      /\ UNCHANGED <<mru, data, lock, idequeue, disk>>
      /\ \A c \in Bufs : blockno[c] # k
  BY DEF BgetRecycle, GoTo, Caching
<1>5. /\ refcnt' = [refcnt EXCEPT ![b] = refcnt[b] + 1]
      /\ stack' = [stack EXCEPT ![p] = <<b>> \o @]
      /\ blockno' = [blockno EXCEPT ![b] = k]
  BY <1>1, <1>3 DEF b
<1>6. /\ valid' \in [Bufs -> BOOLEAN] /\ dirty' \in [Bufs -> BOOLEAN]
      /\ ~valid'[b] /\ ~dirty'[b]
      /\ \A c \in Bufs : c # b => blockno[c] # k /\ valid'[c] = valid[c] /\ dirty'[c] = dirty[c]
  BY <1>1, <1>2, <1>3, <1>4 DEF b, TypeOK
<1>. QED BY <1>3, <1>4, <1>5, <1>6, GetStep

\* A process gives its reference back; the last one moves the buffer to the front.
LEMMA UnrefStep == ASSUME IInv, NEW p \in Procs, Unref(p) PROVE IInv'
<1> DEFINE b0 == Buf(p)
           n0 == Len(stack[p])
           x == IF n0 = 1 THEN "idle" ELSE "resumed"
<1>1. /\ pc[p] = "unref" /\ refcnt' = [refcnt EXCEPT ![b0] = refcnt[b0] - 1]
      /\ stack' = [stack EXCEPT ![p] = Tail(stack[p])] /\ pc' = [pc EXCEPT ![p] = x]
      /\ mru' = MovedToFront(Place(b0)) \/ mru' = mru
      /\ UNCHANGED <<blockno, valid, dirty, data, lock, idequeue, disk>>
  BY DEF Unref, GoTo, flags
<1>2. TypeOK /\ pc \in [Procs -> AllPlaces]
  BY PlacesAre DEF IInv, TypeOK
<1>3. /\ stack[p] \in Seq(Bufs) /\ stack[p] # <<>> /\ 1 \in DOMAIN stack[p] /\ stack[p][1] = b0
      /\ b0 \in Bufs /\ lock[b0] # p /\ b0 \in Range(stack[p])
  BY <1>1, <1>2, Last DEF IInv, Unlocked
<1>4. /\ n0 \in Nat /\ n0 > 0 /\ DOMAIN stack[p] = 1..n0
      /\ Tail(stack[p]) \in Seq(Bufs) /\ Len(Tail(stack[p])) = n0 - 1
      /\ DOMAIN Tail(stack[p]) = 1..(n0 - 1)
      /\ \A i \in 1..(n0 - 1) : Tail(stack[p])[i] = stack[p][i + 1]
  BY <1>3, StackFacts
<1>5. /\ pc'[p] = x /\ stack'[p] = Tail(stack[p])
      /\ \A q \in Procs : q # p => /\ pc'[q] = pc[q] /\ stack'[q] = stack[q]
                                  /\ Buf(q)' = Buf(q)
  BY <1>1, <1>2 DEF TypeOK, Buf
<1>6. x \in {"idle", "resumed"} /\ (x = "idle" <=> n0 = 1)
  OBVIOUS
<1> HIDE DEF b0, n0, x
<1>7. \A i \in 1..(n0 - 1) :
        /\ stack'[p][i] = stack[p][i + 1] /\ i + 1 \in DOMAIN stack[p] /\ i + 1 > 1
        /\ stack[p][i + 1] \in Bufs /\ stack[p][i + 1] # b0
  <2>1. ASSUME NEW i \in 1..(n0 - 1)
        PROVE  /\ stack'[p][i] = stack[p][i + 1] /\ i + 1 \in DOMAIN stack[p] /\ i + 1 > 1
               /\ stack[p][i + 1] \in Bufs /\ stack[p][i + 1] # b0
    <3>1. stack'[p][i] = stack[p][i + 1] /\ i + 1 \in DOMAIN stack[p] /\ i + 1 > 1
      BY <1>4, <1>5
    <3>2. stack[p][i + 1] \in Bufs
      BY <1>3, <3>1, StackFacts
    <3>3. stack[p][i + 1] # b0
      BY <1>2, <1>3, <3>1, Distinct DEF IInv
    <3>. QED BY <3>1, <3>2, <3>3
  <2>. QED BY <2>1
<1>8. Range(stack'[p]) = Range(stack[p]) \ {b0}
  <2>1. ASSUME NEW c \in Range(stack'[p]) PROVE c \in Range(stack[p]) /\ c # b0
    <3>1. PICK i \in 1..(n0 - 1) : stack'[p][i] = c
      BY <1>4, <1>5, <2>1 DEF Range
    <3>. QED BY <1>7, <3>1 DEF Range
  <2>2. ASSUME NEW c \in Range(stack[p]), c # b0 PROVE c \in Range(stack'[p])
    <3>1. PICK i \in DOMAIN stack[p] : stack[p][i] = c
      BY <2>2 DEF Range
    <3>2. i # 1
      BY <1>3, <2>2, <3>1
    <3>3. i - 1 \in 1..(n0 - 1) /\ (i - 1) + 1 = i
      BY <1>4, <3>2
    <3>4. stack'[p][i - 1] = c
      BY <1>4, <1>5, <3>1, <3>3
    <3>. QED BY <1>4, <1>5, <3>3, <3>4 DEF Range
  <2>. QED BY <2>1, <2>2
<1>9. refcnt[b0] \in Nat /\ refcnt[b0] > 0
  <2>1. IsFiniteSet({q \in Procs : b0 \in Range(stack[q])})
    BY BcacheAssumption, FS_Subset
  <2>2. {q \in Procs : b0 \in Range(stack[q])} # {}
    BY <1>3
  <2>3. refcnt[b0] # 0
    BY <1>3, <2>1, <2>2, FiniteFacts DEF IInv, References
  <2>. QED BY <1>2, <1>3, <2>3 DEF TypeOK
<1>10. TypeOK'
  <2>1. pc' \in [Procs -> AllPlaces] /\ stack' \in [Procs -> Seq(Bufs)]
    BY <1>1, <1>2, <1>4, <1>6 DEF TypeOK, AllPlaces
  <2>2. refcnt' \in [Bufs -> Nat]
    BY <1>1, <1>2, <1>3, <1>9 DEF TypeOK
  <2>3. mru' \in [Bufs -> Bufs] /\ IsInjective(mru')
    BY <1>1, <1>2, <1>3, MovedIsList DEF TypeOK
  <2>. QED BY <1>1, <1>2, <2>1, <2>2, <2>3, PlacesAre DEF TypeOK
<1>11. References'
  <2>1. \A c, d \in Bufs : blockno'[c] = blockno'[d] /\ blockno'[c] # NoBlock => c = d
    BY <1>1 DEF IInv, References
  <2>2. ASSUME NEW c \in Bufs
        PROVE  refcnt'[c] = Cardinality({q \in Procs : c \in Range(stack'[q])})
    <3> DEFINE S == {q \in Procs : c \in Range(stack[q])}
    <3>1. IsFiniteSet(S) /\ refcnt[c] = Cardinality(S)
      BY BcacheAssumption, FS_Subset DEF IInv, References
    <3>2. CASE c = b0
      <4>1. {q \in Procs : c \in Range(stack'[q])} = S \ {p} /\ p \in S
        BY <1>3, <1>5, <1>8, <3>2
      <4> HIDE DEF S
      <4>2. Cardinality(S \ {p}) = Cardinality(S) - 1
        BY <3>1, <4>1, FiniteFacts
      <4>. QED BY <1>1, <1>2, <3>1, <3>2, <4>1, <4>2 DEF TypeOK
    <3>3. CASE c # b0
      <4>1. {q \in Procs : c \in Range(stack'[q])} = S
        BY <1>5, <1>8, <3>3
      <4>. QED BY <1>1, <1>2, <3>1, <3>3, <4>1 DEF TypeOK
    <3>. QED BY <3>2, <3>3
  <2>. QED BY <2>1, <2>2 DEF References
<1>12. LockIsReferenced'
  <2>1. ASSUME NEW c \in Bufs, lock[c] # Nobody
        PROVE  \E i \in DOMAIN stack'[lock[c]] : stack'[lock[c]][i] = c
    <3>1. PICK i \in DOMAIN stack[lock[c]] : stack[lock[c]][i] = c
      BY <2>1 DEF IInv, LockIsReferenced
    <3>2. CASE lock[c] = p
      <4>1. i # 1
        BY <1>3, <3>1, <3>2
      <4>2. i - 1 \in 1..(n0 - 1) /\ (i - 1) + 1 = i
        BY <1>4, <3>1, <3>2, <4>1
      <4>3. stack'[p][i - 1] = c
        BY <1>4, <1>5, <3>1, <3>2, <4>2
      <4>. QED BY <1>4, <1>5, <3>2, <4>2, <4>3
    <3>3. CASE lock[c] # p
      <4>1. lock[c] \in Procs
        BY <1>2, <2>1 DEF TypeOK
      <4>. QED BY <1>5, <3>1, <3>3, <4>1
    <3>. QED BY <3>2, <3>3
  <2>. QED BY <1>1, <2>1 DEF LockIsReferenced
<1>13. Stacks'
  <2>1. ASSUME NEW q \in Procs, q # p
        PROVE  /\ stack'[q] = <<>> <=> pc'[q] = "idle"
               /\ \A i \in DOMAIN stack'[q] :
                    /\ blockno'[stack'[q][i]] \in Blocks
                    /\ \A j \in DOMAIN stack'[q] :
                         i # j => stack'[q][i] # stack'[q][j]
                    /\ lock'[stack'[q][i]] = q <=> i > 1 \/ pc'[q] \notin Unlocked
                    /\ i > 1 => valid'[stack'[q][i]]
    BY <1>1, <1>5, <2>1 DEF IInv, Stacks
  <2>2. ASSUME NEW i \in DOMAIN stack'[p]
        PROVE  /\ blockno'[stack'[p][i]] \in Blocks
               /\ lock'[stack'[p][i]] = p <=> i > 1 \/ pc'[p] \notin Unlocked
               /\ i > 1 => valid'[stack'[p][i]]
    <3>1. i \in 1..(n0 - 1)
      BY <1>4, <1>5
    <3>2. /\ blockno[stack[p][i + 1]] \in Blocks /\ lock[stack[p][i + 1]] = p
          /\ valid[stack[p][i + 1]]
      BY <1>7, <3>1 DEF IInv, Stacks
    <3>3. pc'[p] \notin Unlocked
      BY <1>5, <1>6 DEF Unlocked
    <3>. QED BY <1>1, <1>7, <3>1, <3>2, <3>3
  <2>3. ASSUME NEW i \in DOMAIN stack'[p], NEW j \in DOMAIN stack'[p], i # j
        PROVE  stack'[p][i] # stack'[p][j]
    <3>1. i \in 1..(n0 - 1) /\ j \in 1..(n0 - 1) /\ i + 1 # j + 1
      BY <1>4, <1>5, <2>3
    <3>2. stack[p][i + 1] # stack[p][j + 1]
      BY <1>7, <3>1 DEF IInv, Stacks
    <3>. QED BY <1>5, <1>7, <3>1, <3>2
  <2>4. stack'[p] = <<>> <=> pc'[p] = "idle"
    <3>1. stack'[p] = <<>> <=> n0 = 1
      <4>1. Tail(stack[p]) = <<>> <=> Len(Tail(stack[p])) = 0
        BY <1>4, StackFacts
      <4>2. n0 \in Nat /\ Len(Tail(stack[p])) = n0 - 1
        BY <1>4
      <4>. QED BY <1>5, <4>1, <4>2
    <3>. QED BY <1>5, <1>6, <3>1
  <2>. QED BY <2>1, <2>2, <2>3, <2>4 DEF Stacks
<1>14. Flags'
  <2>1. x = "resumed" => valid[Buf(p)']
    <3>1. ASSUME x = "resumed" PROVE valid[Buf(p)']
      <4>1. 1 \in 1..(n0 - 1)
        BY <1>4, <1>6, <3>1
      <4>2. Buf(p)' = stack'[p][1]
        BY <1>4, <1>5, <4>1, StackFacts DEF Buf
      <4>3. Buf(p)' = stack[p][1 + 1] /\ 1 + 1 \in DOMAIN stack[p] /\ 1 + 1 > 1
        BY <1>7, <4>1, <4>2
      <4>. QED BY <4>3 DEF IInv, Stacks
    <3>. QED BY <3>1
  <2>. QED BY <1>1, <1>5, <1>6, <2>1 DEF IInv, Flags
<1>15. ReadsSucceed => CleanIsOnDisk'
  <2> SUFFICES ASSUME ReadsSucceed PROVE CleanIsOnDisk'
    OBVIOUS
  <2>1. ASSUME NEW c \in Bufs, valid'[c], ~dirty'[c]
        PROVE  data'[c] = disk'[blockno'[c]] \/ \E q \in Procs : pc'[q] = "modified" /\ Buf(q)' = c
    <3>1. \A q \in Procs : pc[q] = "modified" => q # p
      BY <1>1
    <3>. QED BY <1>1, <1>5, <2>1, <3>1 DEF IInv, CleanIsOnDisk
  <2>. QED BY <2>1 DEF CleanIsOnDisk
<1>16. QueueIsWaitedFor'
  <2>1. \A q \in Procs : pc'[q] \in DOMAIN Intr <=> (pc[q] \in DOMAIN Intr /\ q # p)
    BY <1>5, <1>6, Places
  <2>2. \A q \in Procs : pc[q] \in DOMAIN Intr => q # p
    BY <1>1, Places
  <2>3. {Buf(q)' : q \in {r \in Procs : pc'[r] \in DOMAIN Intr}}
          = {Buf(q) : q \in {r \in Procs : pc[r] \in DOMAIN Intr}}
    BY <1>5, <2>1, <2>2
  <2>. QED BY <1>1, <1>5, <2>1, <2>3 DEF IInv, QueueIsWaitedFor
<1>17. LockSleeperHasHolder'
  BY <1>1, <1>5, <1>6 DEF IInv, LockSleeperHasHolder
<1>. QED BY <1>10, <1>11, <1>12, <1>13, <1>14, <1>15, <1>16, <1>17 DEF IInv

\* The interrupt of the active request: its one waiter goes on, its buffer is
\* valid, clean and, when the disk has not failed, equal to its block.
LEMMA IdeintrStep == ASSUME IInv, Ideintr PROVE IInv'
<1> DEFINE b0 == Head(idequeue)
           k0 == blockno[b0]
<1>1. TypeOK /\ pc \in [Procs -> AllPlaces]
  BY PlacesAre DEF IInv, TypeOK
<1>2. /\ idequeue # <<>> /\ idequeue' = Tail(idequeue) /\ pc' = Woken(b0, Intr)
      /\ valid' = [valid EXCEPT ![b0] = TRUE] /\ dirty' = [dirty EXCEPT ![b0] = FALSE]
      /\ UNCHANGED <<mru, blockno, refcnt, lock, stack>>
  BY DEF Ideintr, cache
<1>3. /\ dirty[b0] => disk' = [disk EXCEPT ![k0] = data[b0]] /\ data' = data
      /\ ~dirty[b0] => /\ disk' = disk
                       /\ data' = data \/ data' = [data EXCEPT ![b0] = disk[k0]]
                       /\ ReadsSucceed => data' = [data EXCEPT ![b0] = disk[k0]]
  <2>1. disk' = IF dirty[b0] THEN [disk EXCEPT ![blockno[b0]] = data[b0]] ELSE disk
    BY DEF Ideintr
  <2>2. PICK ok \in ReadOK :
          data' = IF dirty[b0] \/ ~ok THEN data ELSE [data EXCEPT ![b0] = disk[blockno[b0]]]
    BY DEF Ideintr
  <2>3. ReadsSucceed => ok
    BY <2>2 DEF ReadsSucceed
  <2>. QED BY <2>1, <2>2, <2>3
<1>4. /\ idequeue \in Seq(Bufs) /\ Len(idequeue) \in Nat /\ Len(idequeue) > 0
      /\ DOMAIN idequeue = 1..Len(idequeue) /\ 1 \in DOMAIN idequeue
      /\ b0 = idequeue[1] /\ b0 \in Bufs
  BY <1>1, <1>2, StackFacts DEF TypeOK
<1>5. PICK p0 \in Procs : pc[p0] \in DOMAIN Intr /\ Buf(p0) = b0
  <2>1. b0 \in Range(idequeue)
    BY <1>4 DEF Range
  <2>. QED BY <2>1 DEF IInv, QueueIsWaitedFor
<1>6. lock[b0] = p0 /\ k0 \in Blocks /\ pc[p0] \in {"read_asleep", "write_asleep"}
  BY <1>1, <1>5, Last, Places DEF IInv, QueueIsWaitedFor
<1>7. dirty[b0] <=> pc[p0] = "write_asleep"
  BY <1>1, <1>4, <1>5, <1>6 DEF IInv, Flags
<1> HIDE DEF b0, k0
<1>8. \A q \in Procs : q # p0 /\ pc[q] \in DOMAIN Intr => Buf(q) # b0
  BY <1>6 DEF IInv, QueueIsWaitedFor
<1>9. /\ pc'[p0] = Intr[pc[p0]] /\ \A q \in Procs : q # p0 => pc'[q] = pc[q]
      /\ pc'[p0] \in {"read_awake", "write_awake"}
  <2>1. \A q \in Procs :
          pc'[q] = IF pc[q] \in DOMAIN Intr /\ Buf(q) = b0 THEN Intr[pc[q]] ELSE pc[q]
    BY <1>2 DEF Woken
  <2>2. pc'[p0] = Intr[pc[p0]]
    BY <1>5, <2>1
  <2>. QED BY <1>6, <1>8, <2>1, <2>2, Places
<1>10. \A q \in Procs : Buf(q)' = Buf(q)
  BY <1>2 DEF Buf
<1>11. /\ valid'[b0] /\ ~dirty'[b0]
       /\ \A b \in Bufs : b # b0 =>
            valid'[b] = valid[b] /\ dirty'[b] = dirty[b] /\ data'[b] = data[b]
  BY <1>1, <1>2, <1>3, <1>4 DEF TypeOK
<1>12. \A k \in Blocks : k # k0 => disk'[k] = disk[k]
  BY <1>1, <1>3, <1>6 DEF TypeOK
<1>13. \A q \in Procs : q # p0 /\ pc[q] # "idle" /\ pc[q] \notin Unlocked => Buf(q) # b0
  <2>1. pc[p0] # "idle" /\ pc[p0] \notin Unlocked
    BY <1>6 DEF Unlocked
  <2>. QED BY <1>1, <1>5, <2>1, Exclusive DEF IInv
<1>14. TypeOK'
  <2>1. pc' \in [Procs -> AllPlaces]
    <3>1. \A q \in Procs : pc'[q] \in AllPlaces
      BY <1>1, <1>9 DEF AllPlaces
    <3>2. pc' = [q \in Procs |-> pc'[q]]
      BY <1>2 DEF Woken
    <3>. QED BY <3>1, <3>2
  <2>2. data' \in [Bufs -> Contents] /\ disk' \in [Blocks -> Contents]
    BY <1>1, <1>3, <1>4, <1>6 DEF TypeOK
  <2>3. valid' \in [Bufs -> BOOLEAN] /\ dirty' \in [Bufs -> BOOLEAN]
    BY <1>1, <1>2, <1>4 DEF TypeOK
  <2>4. idequeue' \in Seq(Bufs)
    BY <1>2, <1>4, StackFacts
  <2>. QED BY <1>1, <1>2, <2>1, <2>2, <2>3, <2>4, PlacesAre DEF TypeOK
<1>15. References' /\ LockIsReferenced'
  BY <1>2 DEF IInv, References, LockIsReferenced
<1>16. Stacks'
  <2>1. \A q \in Procs : /\ pc'[q] = "idle" <=> pc[q] = "idle"
                         /\ pc'[q] \in Unlocked <=> pc[q] \in Unlocked
    BY <1>6, <1>9 DEF Unlocked
  <2>2. \A q \in Procs : \A i \in DOMAIN stack[q] : valid[stack[q][i]] => valid'[stack[q][i]]
    <3>1. \A q \in Procs : \A i \in DOMAIN stack[q] : stack[q][i] \in Bufs
      BY <1>1, StackFacts DEF TypeOK
    <3>. QED BY <1>11, <3>1
  <2>. QED BY <1>2, <2>1, <2>2 DEF IInv, Stacks
<1>17. Flags'
  <2>1. \A b \in Bufs : (dirty'[b] => valid'[b]) /\ (valid'[b] => blockno'[b] \in Blocks)
    BY <1>2, <1>6, <1>11 DEF IInv, Flags, k0
  <2>2. ASSUME NEW q \in Procs, q # p0
        PROVE  /\ pc'[q] \in {"use", "resumed", "modified", "written"} => valid'[Buf(q)]
               /\ pc'[q] \in {"read", "read_asleep"} => ~valid'[Buf(q)]
               /\ pc'[q] \in {"write", "write_asleep"} => dirty'[Buf(q)]
               /\ pc'[q] \in {"read_awake", "write_awake"} => valid'[Buf(q)] /\ ~dirty'[Buf(q)]
    <3>1. pc'[q] = pc[q]
      BY <1>9, <2>2
    <3>2. CASE pc[q] # "idle" /\ pc[q] \notin Unlocked
      <4>1. Buf(q) # b0 /\ Buf(q) \in Bufs
        BY <1>1, <1>13, <2>2, <3>2, Last DEF IInv
      <4>. QED BY <1>11, <3>1, <4>1 DEF IInv, Flags
    <3>3. CASE pc[q] = "idle" \/ pc[q] \in Unlocked
      BY <3>1, <3>3 DEF Unlocked
    <3>. QED BY <3>2, <3>3
  <2>. QED BY <1>5, <1>9, <1>10, <1>11, <2>1, <2>2 DEF Flags
<1>18. ReadsSucceed => CleanIsOnDisk'
  <2> SUFFICES ASSUME ReadsSucceed PROVE CleanIsOnDisk'
    OBVIOUS
  <2>1. ASSUME NEW b \in Bufs, valid'[b], ~dirty'[b]
        PROVE  data'[b] = disk'[blockno[b]] \/ \E q \in Procs : pc'[q] = "modified" /\ Buf(q) = b
    <3>1. CASE b = b0
      <4>1. data'[b0] = disk'[k0]
        BY <1>1, <1>3, <1>4, <1>6 DEF TypeOK
      <4>. QED BY <3>1, <4>1 DEF k0
    <3>2. CASE b # b0
      <4>1. valid[b] /\ ~dirty[b] /\ data'[b] = data[b]
        BY <1>11, <2>1, <3>2
      <4>2. blockno[b] \in Blocks /\ blockno[b] # k0
        BY <1>4, <1>6, <3>2, <4>1, Constants DEF IInv, Flags, References, k0
      <4>3. \A q \in Procs : pc[q] = "modified" => pc'[q] = "modified"
        BY <1>6, <1>9
      <4>. QED BY <1>12, <4>1, <4>2, <4>3 DEF IInv, CleanIsOnDisk
    <3>. QED BY <3>1, <3>2
  <2>. QED BY <1>2, <1>10, <2>1 DEF CleanIsOnDisk
<1>19. QueueIsWaitedFor'
  <2>1. \A q \in Procs : pc'[q] \in DOMAIN Intr <=> pc[q] \in DOMAIN Intr /\ q # p0
    BY <1>9, Places
  <2>2. \A i, j \in DOMAIN idequeue : idequeue[i] = idequeue[j] => i = j
    BY DEF IInv, QueueIsWaitedFor, IsInjective
  <2>3. /\ DOMAIN idequeue' = 1..(Len(idequeue) - 1)
        /\ \A i \in 1..(Len(idequeue) - 1) : idequeue'[i] = idequeue[i + 1]
    BY <1>2, <1>4, StackFacts
  <2>4. \A i \in 1..(Len(idequeue) - 1) : i + 1 \in DOMAIN idequeue /\ i + 1 # 1
    BY <1>4
  <2>5. IsInjective(idequeue')
    <3>1. ASSUME NEW i \in DOMAIN idequeue', NEW j \in DOMAIN idequeue', idequeue'[i] = idequeue'[j]
          PROVE  i = j
      <4>1. i + 1 = j + 1
        BY <2>2, <2>3, <2>4, <3>1
      <4>. QED BY <2>3, <4>1
    <3>. QED BY <3>1 DEF IsInjective
  <2>6. Range(idequeue') = Range(idequeue) \ {b0}
    <3>1. ASSUME NEW c \in Range(idequeue') PROVE c \in Range(idequeue) /\ c # b0
      <4>1. PICK i \in 1..(Len(idequeue) - 1) : idequeue'[i] = c
        BY <2>3, <3>1 DEF Range
      <4>2. idequeue[i + 1] = c /\ i + 1 \in DOMAIN idequeue /\ i + 1 # 1
        BY <2>3, <2>4, <4>1
      <4>. QED BY <1>4, <2>2, <4>2 DEF Range
    <3>2. ASSUME NEW c \in Range(idequeue), c # b0 PROVE c \in Range(idequeue')
      <4>1. PICK i \in DOMAIN idequeue : idequeue[i] = c
        BY <3>2 DEF Range
      <4>2. i # 1
        BY <1>4, <3>2, <4>1
      <4>3. i - 1 \in 1..(Len(idequeue) - 1) /\ (i - 1) + 1 = i
        BY <1>4, <4>2
      <4>4. idequeue'[i - 1] = c /\ i - 1 \in DOMAIN idequeue'
        BY <2>3, <4>1, <4>3
      <4>. QED BY <4>4 DEF Range
    <3>. QED BY <3>1, <3>2
  <2>7. {Buf(q)' : q \in {r \in Procs : pc'[r] \in DOMAIN Intr}} = Range(idequeue')
    <3>1. Range(idequeue) = {Buf(q) : q \in {r \in Procs : pc[r] \in DOMAIN Intr}}
      BY DEF IInv, QueueIsWaitedFor
    <3>2. {Buf(q)' : q \in {r \in Procs : pc'[r] \in DOMAIN Intr}}
            = {Buf(q) : q \in {r \in Procs : pc[r] \in DOMAIN Intr /\ r # p0}}
      BY <1>10, <2>1
    <3>. QED BY <1>5, <1>8, <2>6, <3>1, <3>2
  <2>. QED BY <1>2, <1>10, <2>1, <2>5, <2>7 DEF IInv, QueueIsWaitedFor
<1>20. LockSleeperHasHolder'
  BY <1>2, <1>9, <1>10 DEF IInv, LockSleeperHasHolder
<1>. QED BY <1>14, <1>15, <1>16, <1>17, <1>18, <1>19, <1>20 DEF IInv

\* The log goes on with the other of its two buffers.
LEMMA TurnStep == ASSUME IInv, NEW p \in Procs, Turn(p) PROVE IInv'
<1> DEFINE x == IF pc[p] = "use" THEN "resumed" ELSE "written"
<1>1. /\ pc[p] \in {"use", "written"} /\ Len(stack[p]) = 2 /\ pc' = [pc EXCEPT ![p] = x]
      /\ stack' = [stack EXCEPT ![p] = <<stack[p][2], stack[p][1]>>]
      /\ UNCHANGED <<mru, blockno, refcnt, valid, dirty, data, lock, idequeue, disk>>
  BY DEF Turn, GoTo, cache, flags
<1>2. TypeOK /\ pc \in [Procs -> AllPlaces] /\ stack \in [Procs -> Seq(Bufs)]
  BY PlacesAre DEF IInv, TypeOK
<1>3. x \in {"resumed", "written"}
  OBVIOUS
<1> HIDE DEF x
<1>4. /\ pc'[p] = x /\ \A q \in Procs : q # p => pc'[q] = pc[q]
      /\ \A q \in Procs : q # p => stack'[q] = stack[q] /\ Buf(q)' = Buf(q)
  BY <1>1, <1>2 DEF Buf
<1>5. /\ DOMAIN stack[p] = 1..2 /\ stack[p][1] \in Bufs /\ stack[p][2] \in Bufs
      /\ stack[p] # <<>> /\ Buf(p) = stack[p][1]
  BY <1>1, <1>2, StackFacts DEF Buf
<1>6. /\ stack'[p] \in Seq(Bufs) /\ DOMAIN stack'[p] = 1..2 /\ stack'[p] # <<>>
      /\ stack'[p][1] = stack[p][2] /\ stack'[p][2] = stack[p][1]
  BY <1>1, <1>2, <1>5
<1>7. Buf(p)' = stack[p][2]
  BY <1>6, StackFacts DEF Buf
<1>8. /\ lock[stack[p][1]] = p /\ lock[stack[p][2]] = p
      /\ valid[stack[p][1]] /\ valid[stack[p][2]]
      /\ blockno[stack[p][1]] \in Blocks /\ blockno[stack[p][2]] \in Blocks
      /\ stack[p][1] # stack[p][2]
  BY <1>1, <1>5 DEF IInv, Stacks, Flags, Unlocked
<1>9. \A q \in Procs : Range(stack'[q]) = Range(stack[q])
  <2>1. Range(stack'[p]) = {stack[p][1], stack[p][2]}
    BY <1>6 DEF Range
  <2>2. Range(stack[p]) = {stack[p][1], stack[p][2]}
    BY <1>5 DEF Range
  <2>. QED BY <1>4, <2>1, <2>2
<1>10. TypeOK'
  <2>1. pc' \in [Procs -> AllPlaces] /\ stack' \in [Procs -> Seq(Bufs)]
    BY <1>1, <1>2, <1>3, <1>5, <1>6 DEF AllPlaces
  <2>. QED BY <1>1, <1>2, <2>1, PlacesAre DEF TypeOK
<1>11. References'
  <2>1. \A b \in Bufs : {q \in Procs : b \in Range(stack'[q])} = {q \in Procs : b \in Range(stack[q])}
    BY <1>9
  <2>. QED BY <1>1, <2>1 DEF IInv, References
<1>12. LockIsReferenced'
  <2>1. ASSUME NEW b \in Bufs, lock[b] # Nobody
        PROVE  \E i \in DOMAIN stack'[lock[b]] : stack'[lock[b]][i] = b
    <3>1. lock[b] \in Procs
      BY <1>2, <2>1 DEF TypeOK
    <3>2. b \in Range(stack[lock[b]])
      BY <2>1 DEF IInv, LockIsReferenced, Range
    <3>3. b \in Range(stack'[lock[b]])
      BY <1>9, <3>1, <3>2
    <3>. QED BY <3>3 DEF Range
  <2>. QED BY <1>1, <2>1 DEF LockIsReferenced
<1>13. Stacks'
  <2>1. ASSUME NEW q \in Procs, q # p
        PROVE  /\ stack'[q] = <<>> <=> pc'[q] = "idle"
               /\ \A i \in DOMAIN stack'[q] :
                    /\ blockno'[stack'[q][i]] \in Blocks
                    /\ \A j \in DOMAIN stack'[q] : i # j => stack'[q][i] # stack'[q][j]
                    /\ lock'[stack'[q][i]] = q <=> i > 1 \/ pc'[q] \notin Unlocked
                    /\ i > 1 => valid'[stack'[q][i]]
    BY <1>1, <1>4, <2>1 DEF IInv, Stacks
  <2>2. ASSUME NEW i \in DOMAIN stack'[p]
        PROVE  /\ blockno'[stack'[p][i]] \in Blocks
               /\ \A j \in DOMAIN stack'[p] : i # j => stack'[p][i] # stack'[p][j]
               /\ lock'[stack'[p][i]] = p <=> i > 1 \/ pc'[p] \notin Unlocked
               /\ i > 1 => valid'[stack'[p][i]]
    BY <1>1, <1>3, <1>4, <1>6, <1>8 DEF Unlocked
  <2>3. ~(stack'[p] = <<>>) /\ pc'[p] # "idle"
    BY <1>3, <1>4, <1>6
  <2>. QED BY <2>1, <2>2, <2>3 DEF Stacks
<1>14. Flags'
  <2>1. ASSUME NEW q \in Procs, q # p
        PROVE  pc'[q] = pc[q] /\ Buf(q)' = Buf(q)
    BY <1>4, <2>1
  <2>. QED BY <1>1, <1>3, <1>4, <1>7, <1>8, <2>1 DEF IInv, Flags
<1>15. ReadsSucceed => CleanIsOnDisk'
  <2> SUFFICES ASSUME ReadsSucceed PROVE CleanIsOnDisk'
    OBVIOUS
  <2>1. \A q \in Procs : pc[q] = "modified" => q # p
    BY <1>1
  <2>. QED BY <1>1, <1>4, <2>1 DEF IInv, CleanIsOnDisk
<1>16. QueueIsWaitedFor'
  <2>1. \A q \in Procs : /\ pc'[q] \in DOMAIN Intr <=> pc[q] \in DOMAIN Intr
                         /\ pc[q] \in DOMAIN Intr => q # p
    BY <1>1, <1>3, <1>4, Places
  <2>2. {Buf(q)' : q \in {r \in Procs : pc'[r] \in DOMAIN Intr}}
          = {Buf(q) : q \in {r \in Procs : pc[r] \in DOMAIN Intr}}
    BY <1>4, <2>1
  <2>. QED BY <1>1, <1>4, <2>1, <2>2 DEF IInv, QueueIsWaitedFor
<1>17. LockSleeperHasHolder'
  BY <1>1, <1>3, <1>4 DEF IInv, LockSleeperHasHolder
<1>. QED BY <1>10, <1>11, <1>12, <1>13, <1>14, <1>15, <1>16, <1>17 DEF IInv

\* Every step keeps the invariant.
LEMMA NextIInv == IInv /\ [Next]_vars => IInv'
<1>1. ASSUME IInv, UNCHANGED vars PROVE IInv'
  BY <1>1 DEF vars, IInv, TypeOK, References, Stacks, LockIsReferenced, Flags, CleanIsOnDisk,
    QueueIsWaitedFor, LockSleeperHasHolder, Buf
<1>2. ASSUME IInv, Ideintr PROVE IInv'
  BY <1>2, IdeintrStep
<1>3. ASSUME IInv, NEW p \in Procs, Bget(p) PROVE IInv'
  BY <1>3, BgetHitStep, BgetRecycleStep DEF Bget
<1>4. ASSUME IInv, NEW p \in Procs, Acquire(p) \/ Brelse(p) PROVE IInv'
  BY <1>4, AcquireSleepStep, AcquireSleepWaitStep, ReleaseSleepStep, UnrefStep
  DEF Acquire, Brelse
<1>5. ASSUME IInv, NEW p \in Procs,
             Modify(p) \/ Turn(p) \/ Write(p) \/ Iderw(p) \/ IderwReturn(p)
      PROVE  IInv'
  BY <1>5, ModifyStep, TurnStep, WriteStep, IderwStep, IderwReturnStep
<1>. QED BY <1>1, <1>2, <1>3, <1>4, <1>5 DEF Next

\* Also when reads fail, a block has one buffer and its count is that of its
\* users, the queue is what the processes wait for, nobody sleeps on a free lock
\* and bget() finds no buffer only when all are in use (bio.c:66-124, ide.c:136).
THEOREM CacheLosesNothing ==
  Spec => [](/\ TypeOK /\ References /\ QueueIsWaitedFor /\ LockSleeperHasHolder
             /\ PanicsOnlyWhenFull)
<1>1. Init => IInv
  BY InitIInv
<1>2. IInv /\ [Next]_vars => IInv'
  BY NextIInv
<1>3. IInv => /\ TypeOK /\ References /\ QueueIsWaitedFor /\ LockSleeperHasHolder
              /\ PanicsOnlyWhenFull
  BY NoneIsLost DEF IInv
<1>. QED BY <1>1, <1>2, <1>3, PTL DEF Spec

\* When no read fails, the cache, its locks and the queue of the disk agree at
\* every step: nothing is lost, and a clean buffer is equal to its block (bio.c:78).
THEOREM CacheIsSafe == ASSUME ReadsSucceed PROVE Spec => []BcacheInv
<1>1. Init => IInv
  BY InitIInv
<1>2. IInv /\ [Next]_vars => IInv'
  BY NextIInv
<1>3. IInv => BcacheInv
  BY NoneIsLost DEF IInv, BcacheInv
<1>. QED BY <1>1, <1>2, <1>3, PTL DEF Spec

-----------------------------------------------------------------------------
(* The cache implements BlockStore *)

Seen == [k \in Blocks |-> ContentOf(k)]
Held == [k \in Blocks |-> HolderOf(k)]

\* What the holder of a block sees, by way of the one buffer it has, if any.
View ==
  /\ \A b \in Bufs : blockno[b] \in Blocks =>
       /\ ContentOf(blockno[b]) = IF valid[b] THEN data[b] ELSE disk[blockno[b]]
       /\ HolderOf(blockno[b]) = lock[b]
  /\ \A k \in Blocks : (\A b \in Bufs : blockno[b] # k) =>
       ContentOf(k) = disk[k] /\ HolderOf(k) = Nobody

\* The view follows from the invariant.
LEMMA ViewIs == IInv => View
<1> SUFFICES ASSUME IInv PROVE View
  OBVIOUS
<1>1. ASSUME NEW b \in Bufs, blockno[b] \in Blocks
      PROVE  /\ ContentOf(blockno[b]) = IF valid[b] THEN data[b] ELSE disk[blockno[b]]
             /\ HolderOf(blockno[b]) = lock[b]
  <2>1. Caching(blockno[b]) = {b}
    BY <1>1, Constants DEF IInv, References, Caching
  <2>2. dirty[b] => valid[b]
    BY DEF IInv, Flags
  <2>. QED BY <2>1, <2>2 DEF ContentOf, HolderOf
<1>2. ASSUME NEW k \in Blocks, \A b \in Bufs : blockno[b] # k
      PROVE  ContentOf(k) = disk[k] /\ HolderOf(k) = Nobody
  <2>1. Caching(k) = {}
    BY <1>2 DEF Caching
  <2>. QED BY <2>1 DEF ContentOf, HolderOf
<1>. QED BY <1>1, <1>2 DEF View

\* A step that changes one buffer leaves the other blocks as they were.
LEMMA OtherBlocks ==
  ASSUME View, View', NEW b \in Bufs, UNCHANGED blockno,
         \A c \in Bufs : c # b => UNCHANGED <<valid[c], data[c], lock[c]>>,
         \A k \in Blocks : k # blockno[b] => UNCHANGED disk[k]
  PROVE  \A k \in Blocks : k # blockno[b] =>
           ContentOf(k)' = ContentOf(k) /\ HolderOf(k)' = HolderOf(k)
<1>1. SUFFICES ASSUME NEW k \in Blocks, k # blockno[b]
               PROVE  ContentOf(k)' = ContentOf(k) /\ HolderOf(k)' = HolderOf(k)
  OBVIOUS
<1>2. CASE \A c \in Bufs : blockno[c] # k
  BY <1>1, <1>2 DEF View
<1>3. ASSUME NEW c \in Bufs, blockno[c] = k
      PROVE  ContentOf(k)' = ContentOf(k) /\ HolderOf(k)' = HolderOf(k)
  <2>1. c # b /\ blockno'[c] = k
    BY <1>1, <1>3
  <2>2. ContentOf(k) = (IF valid[c] THEN data[c] ELSE disk[k]) /\ HolderOf(k) = lock[c]
    BY <1>3 DEF View
  <2>3. /\ ContentOf(k)' = IF valid'[c] THEN data'[c] ELSE disk'[k]
        /\ HolderOf(k)' = lock'[c]
    BY <2>1 DEF View
  <2>. QED BY <1>1, <2>1, <2>2, <2>3
<1>. QED BY <1>2, <1>3

\* What the holder of the block of a buffer sees after a step.
LEMMA NextView ==
  ASSUME View', NEW b \in Bufs, NEW k \in Blocks, blockno'[b] = k
  PROVE  /\ ContentOf(k)' = IF valid'[b] THEN data'[b] ELSE disk'[k]
         /\ HolderOf(k)' = lock'[b]
BY DEF View

\* The store of the initial state.
LEMMA InitStore == Init => Store!Init
<1> SUFFICES ASSUME Init PROVE Store!Init
  OBVIOUS
<1>1. View
  BY InitIInv, ViewIs
<1>2. \A b \in Bufs : blockno[b] = NoBlock
  BY DEF Init
<1>3. disk = [k \in Blocks |-> 0]
  BY DEF Init
<1>4. \A k \in Blocks : ContentOf(k) = 0 /\ HolderOf(k) = Nobody
  BY <1>1, <1>2, <1>3, Constants DEF View
<1>. QED BY <1>3, <1>4 DEF Store!Init

\* A step of a holder, of the disk or of a lock is one of the store, or changes
\* nothing that a holder or the disk sees.
LEMMA HeldRefines ==
  ASSUME IInv, IInv', NEW p \in Procs,
         AcquireSleep(p) \/ ReleaseSleep(p) \/ Modify(p) \/ Write(p)
  PROVE  Store!Next \/ UNCHANGED <<Seen, Held, disk>>
<1>1. View /\ View' /\ TypeOK
  <2>1. IInv' => View'
    BY ViewIs, PTL
  <2>. QED BY <2>1, ViewIs DEF IInv
<1>2. pc[p] # "idle" /\ UNCHANGED <<blockno, disk>>
  BY DEF AcquireSleep, ReleaseSleep, Modify, Write, LogWrite, Bwrite, cache
<1>3. PICK b0 \in Bufs, k0 \in Blocks : b0 = Buf(p) /\ k0 = blockno[b0]
  BY <1>1, <1>2, Last DEF IInv
<1>4. /\ ContentOf(k0) = IF valid[b0] THEN data[b0] ELSE disk[k0]
      /\ HolderOf(k0) = lock[b0]
  BY <1>1, <1>3 DEF View
<1>5. /\ ContentOf(k0)' = IF valid'[b0] THEN data'[b0] ELSE disk[k0]
      /\ HolderOf(k0)' = lock'[b0]
  BY <1>1, <1>2, <1>3, NextView
<1>6. ASSUME \A c \in Bufs : c # b0 => UNCHANGED <<valid[c], data[c], lock[c]>>
      PROVE  \A k \in Blocks : k # k0 =>
               ContentOf(k)' = ContentOf(k) /\ HolderOf(k)' = HolderOf(k)
  BY <1>1, <1>2, <1>3, <1>6, OtherBlocks
<1>7. ASSUME AcquireSleep(p) PROVE Store!Take(p, k0)
  <2>1. /\ lock[b0] = Nobody /\ lock' = [lock EXCEPT ![b0] = p] /\ UNCHANGED <<valid, data>>
    BY <1>3, <1>7 DEF AcquireSleep, flags
  <2>2. lock'[b0] = p /\ \A c \in Bufs : c # b0 => lock'[c] = lock[c]
    BY <1>1, <1>3, <2>1 DEF TypeOK
  <2>3. /\ \A k \in Blocks : ContentOf(k)' = ContentOf(k)
        /\ \A k \in Blocks : HolderOf(k)' = IF k = k0 THEN p ELSE HolderOf(k)
    BY <1>4, <1>5, <1>6, <2>1, <2>2
  <2>. QED BY <1>2, <1>3, <1>4, <2>1, <2>3 DEF Store!Take
<1>8. ASSUME ReleaseSleep(p) PROVE Store!Drop(p, k0)
  <2>1. /\ pc[p] \in {"use", "resumed", "written"} /\ lock' = [lock EXCEPT ![b0] = Nobody]
        /\ UNCHANGED <<valid, data>>
    BY <1>3, <1>8 DEF ReleaseSleep, flags
  <2>2. lock'[b0] = Nobody /\ \A c \in Bufs : c # b0 => lock'[c] = lock[c]
    BY <1>1, <1>3, <2>1 DEF TypeOK
  <2>3. /\ \A k \in Blocks : ContentOf(k)' = ContentOf(k)
        /\ \A k \in Blocks : HolderOf(k)' = IF k = k0 THEN Nobody ELSE HolderOf(k)
    BY <1>4, <1>5, <1>6, <2>1, <2>2
  <2>4. lock[b0] = p
    BY <1>1, <1>2, <1>3, <2>1, Last DEF IInv, Unlocked
  <2>. QED BY <1>2, <1>3, <1>4, <2>3, <2>4 DEF Store!Drop
<1>9. ASSUME Modify(p) PROVE \E v \in Contents : Store!Update(p, k0, v)
  <2> DEFINE v0 == (data[b0] + 1) % Values
  <2>1. /\ pc[p] \in {"use", "resumed"} /\ data' = [data EXCEPT ![b0] = v0]
        /\ UNCHANGED <<valid, lock>>
    BY <1>3, <1>9 DEF Modify, flags
  <2>2. v0 \in Contents
    BY <1>1, <1>3, Constants DEF TypeOK
  <2> HIDE DEF v0
  <2>3. data'[b0] = v0 /\ \A c \in Bufs : c # b0 => data'[c] = data[c]
    BY <1>1, <1>3, <2>1 DEF TypeOK
  <2>4. lock[b0] = p /\ valid[b0]
    BY <1>1, <1>2, <1>3, <2>1, Last DEF IInv, Flags, Unlocked
  <2>5. /\ \A k \in Blocks : ContentOf(k)' = IF k = k0 THEN v0 ELSE ContentOf(k)
        /\ \A k \in Blocks : HolderOf(k)' = HolderOf(k)
    BY <1>4, <1>5, <1>6, <2>1, <2>3, <2>4
  <2>6. Store!Update(p, k0, v0)
    BY <1>2, <1>3, <1>4, <2>4, <2>5 DEF Store!Update
  <2>. QED BY <2>2, <2>6
<1>10. ASSUME Write(p) PROVE UNCHANGED <<Seen, Held, disk>>
  <2>1. UNCHANGED <<valid, data, lock>>
    BY <1>10 DEF Write, LogWrite, Bwrite
  <2>2. \A k \in Blocks : ContentOf(k)' = ContentOf(k) /\ HolderOf(k)' = HolderOf(k)
    BY <1>3, <1>4, <1>5, <1>6, <2>1
  <2>. QED BY <1>2, <2>2 DEF Seen, Held
<1>. QED BY <1>3, <1>7, <1>8, <1>9, <1>10 DEF Store!Next

\* A transfer to the disk is a step of the store; one from the disk is none: the
\* buffer was not valid, and its holder sees the block.
LEMMA DiskRefines ==
  ASSUME ReadsSucceed, IInv, IInv', Ideintr
  PROVE  Store!Next \/ UNCHANGED <<Seen, Held, disk>>
<1>1. View /\ View' /\ TypeOK
  <2>1. IInv' => View'
    BY ViewIs, PTL
  <2>. QED BY <2>1, ViewIs DEF IInv
<1>2. PICK b0 \in Bufs : b0 = Head(idequeue) /\ b0 \in Range(idequeue)
  BY <1>1, StackFacts DEF TypeOK, Range, Ideintr
<1>3. PICK p0 \in Procs : pc[p0] \in DOMAIN Intr /\ Buf(p0) = b0
  BY <1>2 DEF IInv, QueueIsWaitedFor
<1>4. PICK k0 \in Blocks : k0 = blockno[b0]
  BY <1>1, <1>3, Last, Places DEF IInv
<1>5. lock[b0] = p0 /\ (valid[b0] <=> dirty[b0])
  <2>1. pc[p0] \in {"read_asleep", "write_asleep"}
    BY <1>3, Places
  <2>. QED BY <1>1, <1>2, <1>3, <2>1, Last DEF IInv, QueueIsWaitedFor, Flags
<1>6. /\ UNCHANGED <<blockno, lock>> /\ valid' = [valid EXCEPT ![b0] = TRUE]
      /\ disk' = IF dirty[b0] THEN [disk EXCEPT ![k0] = data[b0]] ELSE disk
      /\ data' = IF dirty[b0] THEN data ELSE [data EXCEPT ![b0] = disk[k0]]
  BY <1>2, <1>4 DEF Ideintr, ReadsSucceed, cache
<1>7. /\ valid'[b0] /\ data'[b0] = disk'[k0]
      /\ \A c \in Bufs : c # b0 => UNCHANGED <<valid[c], data[c], lock[c]>>
      /\ \A k \in Blocks : k # k0 => UNCHANGED disk[k]
  BY <1>1, <1>5, <1>6 DEF TypeOK
<1>8. \A k \in Blocks : k # k0 => ContentOf(k)' = ContentOf(k) /\ HolderOf(k)' = HolderOf(k)
  BY <1>1, <1>4, <1>6, <1>7, OtherBlocks
<1>9. /\ ContentOf(k0) = IF valid[b0] THEN data[b0] ELSE disk[k0]
      /\ HolderOf(k0) = p0
  BY <1>1, <1>4, <1>5 DEF View
<1>10. ContentOf(k0)' = data'[b0] /\ HolderOf(k0)' = p0
  BY <1>1, <1>4, <1>5, <1>6, <1>7, NextView
<1>11. data'[b0] = ContentOf(k0)
  BY <1>1, <1>5, <1>6, <1>9 DEF TypeOK
<1>12. \A k \in Blocks : ContentOf(k)' = ContentOf(k) /\ HolderOf(k)' = HolderOf(k)
  BY <1>8, <1>9, <1>10, <1>11
<1>13. CASE dirty[b0]
  <2>1. disk' = [disk EXCEPT ![k0] = ContentOf(k0)]
    BY <1>5, <1>6, <1>9, <1>13
  <2>2. Store!WriteThrough(p0, k0)
    BY <1>9, <1>12, <2>1 DEF Store!WriteThrough
  <2>. QED BY <2>2 DEF Store!Next
<1>14. CASE ~dirty[b0]
  BY <1>6, <1>12, <1>14 DEF Seen, Held
<1>. QED BY <1>13, <1>14

\* Recycling a buffer changes nothing: its content is on the disk, and nobody has
\* it locked.
LEMMA RecycleIsStutter ==
  ASSUME ReadsSucceed, IInv, IInv', NEW p \in Procs, NEW k \in Blocks, BgetRecycle(p, k)
  PROVE  UNCHANGED <<Seen, Held, disk>>
<1>1. View /\ View' /\ TypeOK
  <2>1. IInv' => View'
    BY ViewIs, PTL
  <2>. QED BY <2>1, ViewIs DEF IInv
<1>2. PICK i \in Recyclable :
        blockno' = [blockno EXCEPT ![mru[i]] = k] /\ valid' = [valid EXCEPT ![mru[i]] = FALSE]
  BY DEF BgetRecycle
<1>3. PICK b \in Bufs : b = mru[i]
  BY <1>1, <1>2 DEF Recyclable, TypeOK
<1>4. refcnt[b] = 0 /\ ~dirty[b] /\ UNCHANGED <<data, lock, disk>> /\ \A c \in Bufs : blockno[c] # k
  BY <1>2, <1>3 DEF Recyclable, BgetRecycle, Caching
<1>5. lock[b] = Nobody /\ \A q \in Procs : \A j \in DOMAIN stack[q] : stack[q][j] # b
  BY <1>1, <1>4, Unreferenced DEF IInv
<1>6. \A q \in Procs : pc[q] = "modified" => Buf(q) # b
  BY <1>1, <1>5, Last DEF IInv
<1>7. valid[b] => data[b] = disk[blockno[b]]
  BY <1>4, <1>6 DEF IInv, CleanIsOnDisk
<1>8. /\ blockno'[b] = k /\ ~valid'[b]
      /\ \A c \in Bufs : c # b => blockno'[c] = blockno[c] /\ valid'[c] = valid[c]
  BY <1>1, <1>2, <1>3 DEF TypeOK
<1>9. ASSUME NEW j \in Blocks PROVE ContentOf(j)' = ContentOf(j) /\ HolderOf(j)' = HolderOf(j)
  <2>1. CASE j = k
    <3>1. ContentOf(k) = disk[k] /\ HolderOf(k) = Nobody
      BY <1>1, <1>4 DEF View
    <3>2. ContentOf(k)' = disk[k] /\ HolderOf(k)' = Nobody
      BY <1>1, <1>4, <1>5, <1>8, NextView
    <3>. QED BY <2>1, <3>1, <3>2
  <2>2. CASE j # k /\ \E c \in Bufs : c # b /\ blockno[c] = j
    <3>1. PICK c \in Bufs : c # b /\ blockno[c] = j
      BY <2>2
    <3>2. ContentOf(j) = (IF valid[c] THEN data[c] ELSE disk[j]) /\ HolderOf(j) = lock[c]
      BY <1>1, <3>1 DEF View
    <3>3. ContentOf(j)' = (IF valid'[c] THEN data'[c] ELSE disk'[j]) /\ HolderOf(j)' = lock'[c]
      BY <1>1, <1>8, <3>1, NextView
    <3>. QED BY <1>4, <1>8, <3>1, <3>2, <3>3
  <2>3. CASE j # k /\ \A c \in Bufs : c # b => blockno[c] # j
    <3>1. \A c \in Bufs : blockno'[c] # j
      BY <1>8, <2>3
    <3>2. ContentOf(j)' = disk[j] /\ HolderOf(j)' = Nobody
      BY <1>1, <1>4, <3>1 DEF View
    <3>3. ContentOf(j) = disk[j] /\ HolderOf(j) = Nobody
      <4>1. CASE blockno[b] = j
        BY <1>1, <1>5, <1>7, <4>1 DEF View
      <4>2. CASE blockno[b] # j
        BY <1>1, <2>3, <4>2 DEF View
      <4>. QED BY <4>1, <4>2
    <3>. QED BY <3>2, <3>3
  <2>. QED BY <2>1, <2>2, <2>3
<1>. QED BY <1>4, <1>9 DEF Seen, Held

\* Every step of the cache is a step of the store or changes nothing of it.
LEMMA NextStore ==
  ASSUME ReadsSucceed, IInv, IInv', [Next]_vars
  PROVE  [Store!Next]_(Store!store)
<1>1. SUFFICES ASSUME ~Store!Next PROVE UNCHANGED <<Seen, Held, disk>>
  BY DEF Store!store, Seen, Held
<1>2. ASSUME UNCHANGED <<blockno, valid, dirty, data, lock, disk>>
      PROVE  UNCHANGED <<Seen, Held, disk>>
  BY <1>2 DEF Seen, Held, ContentOf, HolderOf, Caching
<1>3. CASE UNCHANGED vars
  BY <1>2, <1>3 DEF vars
<1>4. CASE Ideintr
  BY <1>1, <1>4, DiskRefines
<1>5. ASSUME NEW p \in Procs, NEW k \in Blocks, BgetRecycle(p, k)
      PROVE  UNCHANGED <<Seen, Held, disk>>
  BY <1>5, RecycleIsStutter
<1>6. ASSUME NEW p \in Procs, NEW k \in Blocks, BgetHit(p, k)
      PROVE  UNCHANGED <<Seen, Held, disk>>
  BY <1>2, <1>6 DEF BgetHit, flags
<1>7. ASSUME NEW p \in Procs, AcquireSleep(p) \/ ReleaseSleep(p) \/ Modify(p) \/ Write(p)
      PROVE  UNCHANGED <<Seen, Held, disk>>
  BY <1>1, <1>7, HeldRefines
<1>8. ASSUME NEW p \in Procs,
             AcquireSleepWait(p) \/ Turn(p) \/ Iderw(p) \/ IderwReturn(p) \/ Unref(p)
      PROVE  UNCHANGED <<Seen, Held, disk>>
  BY <1>2, <1>8 DEF AcquireSleepWait, Turn, Iderw, IderwReturn, Unref, cache, flags
<1>. QED BY <1>3, <1>4, <1>5, <1>6, <1>7, <1>8 DEF Next, Bget, Acquire, Brelse

\* When no read fails, bread() hands a block to one process at a time, with what
\* was last left in it, through hits, recycling, pinning and transfers, and what
\* bwrite() has written is on the disk (bio.c:7-16).
THEOREM CacheImplementsStore == ASSUME ReadsSucceed PROVE Spec => ImplementsStore
<1>1. Init => IInv
  BY InitIInv
<1>2. IInv /\ [Next]_vars => IInv'
  BY NextIInv
<1>3. Init => Store!Init
  BY InitStore
<1>4. IInv /\ IInv' /\ [Next]_vars => [Store!Next]_(Store!store)
  BY NextStore
<1>. QED BY <1>1, <1>2, <1>3, <1>4, PTL DEF Spec, ImplementsStore, Store!Spec

=============================================================================
