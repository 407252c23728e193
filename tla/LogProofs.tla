------------------------------ MODULE LogProofs ------------------------------
(***************************************************************************)
(* Theorems about Log: no call overruns the log, what is not home is       *)
(* pinned, who sleeps has a waker, and a crash leaves all or nothing of    *)
(* the calls that committed together, for any number of processes and      *)
(* blocks and any sizes that leave the log room (LogHasRoom).              *)
(***************************************************************************)
EXTENDS Log, TLAPS, FiniteSetTheorems, FunctionTheorems

-----------------------------------------------------------------------------
(* The inductive invariant *)

Active == {o \in Ops : pc[o] \in {"op", "log_write"}}
CommitPlaces == {"write_log", "install", "committed"}
InLog(b) == \E i \in DOMAIN lh : lh[i] = b

\* What the calls in progress have written and the log has: their reservations
\* are used up by at most this many blocks.
Used == {e \in Ops \X Blocks : e[2] \in wrote[e[1]] /\ InLog(e[2])}

\* A call writes at most OpBlocks blocks, and has them in the log when it is not
\* about to put the last one there.
CallsOK ==
  \A o \in Ops :
    /\ o \notin Active => wrote[o] = {}
    /\ IsFiniteSet(wrote[o]) /\ Cardinality(wrote[o]) <= OpBlocks
    /\ \A b \in wrote[o] : InLog(b) \/ writing[o] = b
    /\ writing[o] # NoBlock <=> pc[o] = "log_write"
    /\ writing[o] # NoBlock => writing[o] \in wrote[o]
    /\ \A p \in Ops : writing[o] = writing[p] /\ writing[o] # NoBlock => o = p

\* One process commits, and only when no call is in progress.
OneCommitter ==
  /\ outstanding = Cardinality(Active)
  /\ committing <=> \E o \in Ops : pc[o] \in CommitPlaces
  /\ committing => outstanding = 0
  /\ \A o, p \in Ops : pc[o] \in CommitPlaces /\ pc[p] \in CommitPlaces => o = p
  /\ boot = "up" /\ outstanding = 0 /\ ~committing => lh = <<>>

\* The log has room for what the calls in progress may still write.  A call alone
\* in it has the whole log to itself, or has been left by another one, that gave
\* back what it did not write.
Reserved ==
  boot = "up" =>
    /\ Len(lh) + outstanding * MAXOPBLOCKS <= LOGSIZE + Cardinality(Used)
    /\ outstanding = 1 =>
         \/ Len(lh) <= Cardinality(Used)
         \/ Len(lh) + MAXOPBLOCKS + (MAXOPBLOCKS - OpBlocks) <= LOGSIZE + Cardinality(Used)

\* Buffers are pinned from log_write() until they are home; a commit goes over
\* the blocks of the log one by one.
Pinned ==
  boot = "up" =>
    /\ \A b \in Blocks : dirty[b] => InLog(b)
    /\ \A b \in Blocks : cache[b] # home[b] => dirty[b] \/ \E o \in Ops : writing[o] = b
    /\ (\A o \in Ops : pc[o] # "install") =>
         head = <<>> /\ \A i \in DOMAIN lh : dirty[lh[i]]
    /\ \A o \in Ops :
         /\ pc[o] = "write_log" =>
              \A i \in DOMAIN lh : i < tail => logb[i] = cache[lh[i]]
         /\ pc[o] = "install" =>
              /\ head = lh
              /\ \A i \in DOMAIN lh :
                   /\ logb[i] = cache[lh[i]]
                   /\ ~dirty[lh[i]] <=> i < tail
         /\ pc[o] = "committed" => lh = <<>>

\* At boot nothing runs until the log is installed.
Booting ==
  boot # "up" =>
    /\ outstanding = 0 /\ ~committing
    /\ pc = [o \in Ops |-> "idle"]
    /\ cache = home
    /\ dirty = [b \in Blocks |-> FALSE]
    /\ boot = "install" => lh = head /\ \A i \in DOMAIN lh : i < tail => home[lh[i]] = logb[i]

IInv ==
  /\ TypeOK
  /\ Len(head) < LogBlocks /\ IsInjective(head)
  /\ NoLogPanic
  /\ CallsOK /\ OneCommitter /\ Reserved /\ Pinned /\ Booting /\ SleeperHasWaker

-----------------------------------------------------------------------------
(* Counting *)

\* The empty sequence, a sequence as a function, and its extension by one.
LEMMA SeqFacts ==
  /\ <<>> \in Seq(Blocks) /\ Len(<<>>) = 0 /\ DOMAIN <<>> = {}
  /\ \A s \in Seq(Blocks) :
       /\ Len(s) \in Nat /\ DOMAIN s = 1..Len(s)
       /\ \A i \in 1..Len(s) : s[i] \in Blocks
       /\ s # <<>> => Len(s) > 0
       /\ \A b \in Blocks :
            /\ Append(s, b) \in Seq(Blocks) /\ Len(Append(s, b)) = Len(s) + 1
            /\ DOMAIN Append(s, b) = 1..(Len(s) + 1)
            /\ \A i \in 1..(Len(s) + 1) :
                 Append(s, b)[i] = IF i <= Len(s) THEN s[i] ELSE b
OBVIOUS

\* A finite set can be numbered from 1.
LEMMA Numbering ==
  ASSUME NEW S, IsFiniteSet(S), NEW k \in Nat, Cardinality(S) <= k
  PROVE  \E f \in [S -> 1..k] : \A x, y \in S : f[x] = f[y] => x = y
<1> DEFINE n == Cardinality(S)
<1>1. n \in Nat /\ ExistsBijection(1..n, S)
  BY FS_CardinalityType
<1>2. ExistsBijection(S, 1..n)
  BY <1>1, Fun_ExistsBijSymmetric
<1>3. PICK f \in Bijection(S, 1..n) : TRUE
  BY <1>2, Fun_ExistsBij
<1>4. f \in [S -> 1..n] /\ \A x, y \in S : f[x] = f[y] => x = y
  BY <1>3 DEF Bijection, Injection, IsInjective
<1>5. 1..n \subseteq 1..k
  BY <1>1
<1>6. f \in [S -> 1..k]
  BY <1>4, <1>5
<1>. QED BY <1>4, <1>6

\* If each of the members of A has at most k things, there are at most k for
\* each member in all.
LEMMA PairsBound ==
  ASSUME NEW A, IsFiniteSet(A), NEW B, NEW w \in [A -> SUBSET B], NEW k \in Nat,
         \A a \in A : IsFiniteSet(w[a]) /\ Cardinality(w[a]) <= k,
         NEW P \in SUBSET (A \X B), \A e \in P : e[2] \in w[e[1]]
  PROVE  /\ IsFiniteSet(P) /\ Cardinality(P) \in Nat
         /\ Cardinality(P) <= Cardinality(A) * k
<1> DEFINE Good(a, f) == f \in [w[a] -> 1..k] /\ \A x, y \in w[a] : f[x] = f[y] => x = y
           num == [a \in A |-> CHOOSE f : Good(a, f)]
           h == [e \in P |-> <<e[1], num[e[1]][e[2]]>>]
<1>1. ASSUME NEW a \in A PROVE Good(a, num[a])
  <2>1. \E f : Good(a, f)
    BY Numbering
  <2>. QED BY <2>1
<1> HIDE DEF num
<1>2. h \in [P -> A \X (1..k)]
  <2>1. ASSUME NEW e \in P PROVE <<e[1], num[e[1]][e[2]]>> \in A \X (1..k)
    <3>1. e[1] \in A /\ e[2] \in w[e[1]]
      OBVIOUS
    <3>2. num[e[1]] \in [w[e[1]] -> 1..k]
      BY <3>1, <1>1
    <3>. QED BY <3>1, <3>2
  <2>. QED BY <2>1
<1>3. ASSUME NEW d \in P, NEW e \in P, h[d] = h[e] PROVE d = e
  <2>1. d[1] = e[1] /\ num[d[1]][d[2]] = num[e[1]][e[2]]
    BY <1>3
  <2>2. d[1] \in A /\ d[2] \in w[d[1]] /\ e[2] \in w[d[1]]
    BY <2>1
  <2>3. d[2] = e[2]
    BY <1>1, <2>1, <2>2
  <2>. QED BY <2>1, <2>3
<1>4. h \in Injection(P, A \X (1..k))
  BY <1>2, <1>3, Fun_IsInj
<1>5. IsFiniteSet(1..k) /\ Cardinality(1..k) = k
  BY FS_Interval
<1>6. IsFiniteSet(A \X (1..k)) /\ Cardinality(A \X (1..k)) = Cardinality(A) * k
  BY <1>5, FS_Product
<1>7. IsFiniteSet(P) /\ Cardinality(P) <= Cardinality(A \X (1..k))
  BY <1>4, <1>6, FS_Injection
<1>. QED BY <1>6, <1>7, FS_CardinalityType

\* A part of a finite set, and a finite set with one member more or less.
LEMMA FiniteFacts ==
  ASSUME NEW S, IsFiniteSet(S)
  PROVE  /\ Cardinality(S) \in Nat
         /\ \A T \in SUBSET S : IsFiniteSet(T) /\ Cardinality(T) <= Cardinality(S)
                                /\ Cardinality(T) \in Nat
         /\ \A x : /\ IsFiniteSet(S \cup {x}) /\ IsFiniteSet(S \ {x})
                   /\ x \in S => Cardinality(S \ {x}) = Cardinality(S) - 1
                   /\ x \notin S => Cardinality(S \cup {x}) = Cardinality(S) + 1
BY FS_CardinalityType, FS_Subset, FS_AddElement, FS_RemoveElement

\* What the calls have written is finite, at most OpBlocks for each of them.
LEMMA WrittenBound ==
  ASSUME TypeOK, CallsOK, outstanding = Cardinality(Active),
         NEW P \in SUBSET (Ops \X Blocks), \A e \in P : e[2] \in wrote[e[1]]
  PROVE  /\ IsFiniteSet(P) /\ Cardinality(P) \in Nat /\ IsFiniteSet(Active)
         /\ Cardinality(P) <= outstanding * OpBlocks
<1>1. IsFiniteSet(Active) /\ OpBlocks \in Nat
  BY LogAssumption, FS_Subset DEF Active
<1> DEFINE w == [o \in Active |-> wrote[o]]
<1>2. w \in [Active -> SUBSET Blocks]
  BY DEF TypeOK, Active
<1>3. \A o \in Active : IsFiniteSet(w[o]) /\ Cardinality(w[o]) <= OpBlocks
  BY DEF CallsOK, Active
<1>4. P \in SUBSET (Active \X Blocks) /\ \A e \in P : e[2] \in w[e[1]]
  <2>1. \A e \in P : e[1] \in Active
    BY DEF CallsOK
  <2>. QED BY <2>1
<1> HIDE DEF w
<1>5. /\ IsFiniteSet(P) /\ Cardinality(P) \in Nat
      /\ Cardinality(P) <= Cardinality(Active) * OpBlocks
  BY <1>1, <1>2, <1>3, <1>4, PairsBound
<1>. QED BY <1>1, <1>5

-----------------------------------------------------------------------------
(* Consequences of the invariant *)

\* Whoever is in a call is counted.
LEMMA Counted ==
  ASSUME IInv
  PROVE  /\ IsFiniteSet(Active) /\ outstanding \in Nat
         /\ \A o \in Ops : o \in Active => outstanding > 0 /\ ~committing
         /\ outstanding = 0 => Active = {}
<1>1. IsFiniteSet(Active) /\ outstanding = Cardinality(Active)
  BY LogAssumption, FS_Subset DEF Active, IInv, OneCommitter
<1>2. Cardinality(Active) \in Nat /\ (Cardinality(Active) = 0 <=> Active = {})
  BY <1>1, FS_CardinalityType, FS_EmptySet
<1>. QED BY <1>1, <1>2 DEF IInv, OneCommitter

\* While a process commits, or the machine boots, no call is in progress.
LEMMA NobodyInside ==
  ASSUME IInv, boot # "up" \/ committing \/ \E o \in Ops : pc[o] \in CommitPlaces
  PROVE  /\ outstanding = 0 /\ Active = {}
         /\ wrote = [o \in Ops |-> {}] /\ writing = [o \in Ops |-> NoBlock]
         /\ Used = {}
<1>1. outstanding = 0 /\ Active = {}
  BY Counted DEF IInv, OneCommitter, Booting
<1>2. \A o \in Ops : wrote[o] = {} /\ writing[o] = NoBlock
  BY <1>1 DEF IInv, CallsOK, Active
<1>3. wrote = [o \in Ops |-> {}] /\ writing = [o \in Ops |-> NoBlock]
  BY <1>2 DEF IInv, TypeOK
<1>. QED BY <1>1, <1>2, <1>3 DEF Used

\* A committing process has the log to itself: the machine is up, and every
\* other process is outside.
LEMMA CommitterAlone ==
  ASSUME IInv, NEW o \in Ops, pc[o] \in CommitPlaces
  PROVE  /\ boot = "up" /\ committing
         /\ \A p \in Ops : p # o => pc[p] \in {"idle", "begin", "asleep"}
<1>1. boot = "up" /\ committing
  BY DEF IInv, OneCommitter, Booting, CommitPlaces
<1>2. Active = {}
  BY <1>1, NobodyInside
<1>. QED BY <1>1, <1>2 DEF IInv, TypeOK, OneCommitter, NoLogPanic, Active, CommitPlaces

\* Reservations of M for two or more calls, of which each writes at most K.
LEMMA Reservation ==
  ASSUME NEW n \in Nat, NEW M \in Nat, NEW K \in Nat, NEW L \in Nat, NEW S \in Nat, NEW U \in Nat,
         L + n * M <= S + U, U <= n * K, K < M, n > 1
  PROVE  L <= S - (2 * (M - K))
<1>1. PICK j \in Nat : n = j + 2
  BY SMT
<1>2. n * M = j * M + M + M /\ n * K = j * K + K + K
  BY <1>1
<1>3. j * K <= j * M
  BY SMT
<1>4. j * K \in Nat /\ j * M \in Nat
  BY SMT
<1>. QED BY <1>2, <1>3, <1>4

\* The log has room while somebody is in a call: in the log on disk, and in the
\* log header.
LEMMA RoomInLog ==
  ASSUME LogHasRoom, TypeOK, CallsOK, OneCommitter, Reserved, boot = "up", outstanding > 0
  PROVE  Len(lh) < LogBlocks - 1 /\ Len(lh) < LOGSIZE
<1>1. Used \in SUBSET (Ops \X Blocks) /\ \A e \in Used : e[2] \in wrote[e[1]]
  BY DEF Used
<1>2. Cardinality(Used) \in Nat /\ Cardinality(Used) <= outstanding * OpBlocks
  BY <1>1, WrittenBound DEF OneCommitter
<1>3. Len(lh) \in Nat /\ outstanding \in Nat
  BY SeqFacts DEF TypeOK
<1>4. /\ MAXOPBLOCKS \in Nat /\ OpBlocks \in Nat /\ LOGSIZE \in Nat /\ LogBlocks \in Nat
      /\ OpBlocks < MAXOPBLOCKS
  BY LogAssumption DEF LogHasRoom
<1>5. CASE outstanding > 1
  <2>1. Len(lh) <= LOGSIZE - (2 * (MAXOPBLOCKS - OpBlocks))
    BY <1>2, <1>3, <1>4, <1>5, Reservation DEF Reserved
  <2>. QED BY <1>3, <1>4, <2>1 DEF LogHasRoom
<1>6. CASE outstanding = 1
  <2>1. Cardinality(Used) <= OpBlocks
    BY <1>2, <1>4, <1>6
  <2>2. \/ Len(lh) <= OpBlocks
        \/ Len(lh) + MAXOPBLOCKS + (MAXOPBLOCKS - OpBlocks) <= LOGSIZE + OpBlocks
    BY <1>2, <1>3, <1>4, <1>6, <2>1 DEF Reserved
  <2>3. MAXOPBLOCKS <= LOGSIZE
    BY LogAssumption
  <2>. QED BY <1>3, <1>4, <2>2, <2>3 DEF LogHasRoom
<1>. QED BY <1>3, <1>5, <1>6

-----------------------------------------------------------------------------
(* The invariant holds of the initial state and through the steps of a call *)

\* The empty log, with nobody inside.
LEMMA InitIInv == Init => IInv
<1> SUFFICES ASSUME Init PROVE IInv
  OBVIOUS
<1>1. Active = {} /\ Used = {} /\ Cardinality(Active) = 0
  BY FS_EmptySet DEF Init, Active, Used
<1>2. 0 \in Contents
  BY LogAssumption DEF Contents
<1>3. TypeOK /\ Len(head) < LogBlocks /\ IsInjective(head)
  <2>1. Len(<<>>) < LogBlocks /\ IsInjective(<<>>) /\ <<>> \in Seq(Blocks)
    BY LogAssumption, SeqFacts DEF IsInjective
  <2>2. /\ home \in [Blocks -> Contents] /\ cache \in [Blocks -> Contents]
        /\ logb \in [LogSlots -> Contents] /\ dirty \in [Blocks -> BOOLEAN]
    BY <1>2 DEF Init
  <2>3. head = <<>> /\ lh = <<>> /\ outstanding = 0 /\ committing = FALSE /\ tail = 1 /\ boot = "up"
    BY DEF Init
  <2>4. /\ pc \in [Ops -> {"idle", "begin", "asleep", "op", "log_write", "write_log",
                           "install", "committed", "panic"}]
        /\ writing \in [Ops -> Blocks \cup {NoBlock}] /\ wrote \in [Ops -> SUBSET Blocks]
    BY DEF Init
  <2>5. head \in Seq(Blocks) /\ lh \in Seq(Blocks) /\ Len(lh) < LogBlocks
    BY <2>1, <2>3
  <2>6. IsInjective(head) /\ IsInjective(lh) /\ Len(head) < LogBlocks
    BY <2>1, <2>3
  <2>7. outstanding \in Nat /\ tail \in Nat \ {0}
    BY <2>3
  <2>8. committing \in BOOLEAN
    BY DEF Init
  <2>. QED BY <2>2, <2>3, <2>4, <2>5, <2>6, <2>7, <2>8 DEF TypeOK
<1>4. NoLogPanic /\ SleeperHasWaker /\ Booting
  BY DEF Init, NoLogPanic, SleeperHasWaker, Booting
<1>5. CallsOK
  <2>1. IsFiniteSet({}) /\ Cardinality({}) = 0 /\ 0 <= OpBlocks
    BY FS_EmptySet, LogAssumption
  <2>. QED BY <2>1 DEF Init, CallsOK
<1>6. OneCommitter
  BY <1>1 DEF Init, OneCommitter, CommitPlaces
<1>7. Reserved
  BY <1>1, SeqFacts, LogAssumption, FS_EmptySet DEF Init, Reserved
<1>8. Pinned
  BY SeqFacts DEF Init, Pinned
<1>. QED BY <1>3, <1>4, <1>5, <1>6, <1>7, <1>8 DEF IInv

\* Processes outside the calls that move between idle, begin and asleep.
LEMMA WaitingStep ==
  ASSUME IInv, SleeperHasWaker', boot = "up",
         pc' \in [Ops -> {"idle", "begin", "asleep", "op", "log_write", "write_log",
                          "install", "committed", "panic"}],
         \A p \in Ops : pc'[p] # pc[p] => {pc[p], pc'[p]} \subseteq {"idle", "begin", "asleep"},
         UNCHANGED <<disk, buffers, lh, outstanding, committing, writing, wrote, tail, boot>>
  PROVE  IInv'
<1>1. UNCHANGED <<home, logb, head, cache, dirty, lh, outstanding, committing,
                  writing, wrote, tail, boot>>
  BY DEF disk, buffers
<1>2. \A p \in Ops, x \in {"op", "log_write", "write_log", "install", "committed", "panic"} :
        pc'[p] = x <=> pc[p] = x
  OBVIOUS
<1>3. Active' = Active /\ Used' = Used
  BY <1>1, <1>2 DEF Active, Used, InLog
<1>4. TypeOK' /\ Len(head') < LogBlocks /\ IsInjective(head')
  BY <1>1 DEF IInv, TypeOK
<1>5. NoLogPanic'
  BY <1>2 DEF IInv, NoLogPanic
<1>6. CallsOK'
  BY <1>1, <1>2, <1>3 DEF IInv, CallsOK, InLog
<1>7. OneCommitter'
  BY <1>1, <1>2, <1>3 DEF IInv, OneCommitter, CommitPlaces
<1>8. Reserved' /\ Booting'
  BY <1>1, <1>3 DEF IInv, Reserved, Booting
<1>9. Pinned'
  BY <1>1, <1>2 DEF IInv, Pinned, InLog
<1>. QED BY <1>4, <1>5, <1>6, <1>7, <1>8, <1>9 DEF IInv

\* begin_op() is called.
LEMMA BeginCallStep == ASSUME IInv, NEW o \in Ops, BeginCall(o) PROVE IInv'
<1>1. /\ boot = "up" /\ pc[o] = "idle" /\ pc' = [pc EXCEPT ![o] = "begin"]
      /\ UNCHANGED <<disk, buffers, lh, outstanding, committing, writing, wrote, tail, boot>>
  BY DEF BeginCall, At, GoTo
<1>2. pc \in [Ops -> {"idle", "begin", "asleep", "op", "log_write", "write_log",
                      "install", "committed", "panic"}]
  BY DEF IInv, TypeOK
<1>3. SleeperHasWaker'
  BY <1>1, <1>2 DEF IInv, SleeperHasWaker
<1>. QED BY <1>1, <1>2, <1>3, WaitingStep

\* begin_op() finds no room and sleeps: a call or a commit is in progress, for
\* the log of an idle system is empty.
LEMMA BeginSleepStep == ASSUME IInv, NEW o \in Ops, BeginSleep(o) PROVE IInv'
<1>1. /\ boot = "up" /\ pc[o] = "begin" /\ pc' = [pc EXCEPT ![o] = "asleep"] /\ ~MayBegin
      /\ UNCHANGED <<disk, buffers, lh, outstanding, committing, writing, wrote, tail, boot>>
  BY DEF BeginSleep, At, GoTo
<1>2. pc \in [Ops -> {"idle", "begin", "asleep", "op", "log_write", "write_log",
                      "install", "committed", "panic"}]
  BY DEF IInv, TypeOK
<1>3. outstanding > 0 \/ committing
  <2>1. SUFFICES ASSUME outstanding = 0, ~committing PROVE MayBegin
    BY <1>1, Counted
  <2>2. lh = <<>>
    BY <1>1, <2>1 DEF IInv, OneCommitter
  <2>. QED BY <2>1, <2>2, SeqFacts, LogAssumption DEF MayBegin
<1>4. SleeperHasWaker'
  BY <1>1, <1>3 DEF SleeperHasWaker
<1>. QED BY <1>1, <1>2, <1>4, WaitingStep

\* begin_op() reserves the blocks of a call.
LEMMA BeginOpStep == ASSUME IInv, NEW o \in Ops, BeginOp(o) PROVE IInv'
<1>1. /\ boot = "up" /\ pc[o] = "begin" /\ pc' = [pc EXCEPT ![o] = "op"] /\ MayBegin
      /\ outstanding' = outstanding + 1
      /\ UNCHANGED <<home, logb, head, cache, dirty, lh, committing, writing, wrote, tail, boot>>
  BY DEF BeginOp, At, GoTo, disk, buffers
<1>2. TypeOK /\ outstanding \in Nat /\ IsFiniteSet(Active)
  BY Counted DEF IInv
<1>3. pc' \in [Ops -> {"idle", "begin", "asleep", "op", "log_write", "write_log",
                       "install", "committed", "panic"}]
  BY <1>1, <1>2 DEF TypeOK
<1>4. /\ pc'[o] = "op"
      /\ \A p \in Ops : p # o => pc'[p] = pc[p]
  BY <1>1, <1>2 DEF TypeOK
<1>5. Active' = Active \cup {o} /\ o \notin Active
  BY <1>1, <1>4 DEF Active
<1>6. Used' = Used
  BY <1>1 DEF Used, InLog
<1>7. TypeOK' /\ Len(head') < LogBlocks /\ IsInjective(head')
  BY <1>1, <1>2, <1>3 DEF IInv, TypeOK
<1>8. NoLogPanic' /\ SleeperHasWaker' /\ Booting'
  BY <1>1, <1>2, <1>4 DEF IInv, NoLogPanic, SleeperHasWaker, Booting
<1>9. CallsOK'
  BY <1>1, <1>4, <1>5 DEF IInv, CallsOK, InLog
<1>10. OneCommitter'
  <2>1. outstanding' = Cardinality(Active')
    BY <1>1, <1>2, <1>5, FiniteFacts DEF IInv, OneCommitter
  <2>2. ~committing
    BY <1>1 DEF MayBegin
  <2>3. \A p \in Ops : pc'[p] \notin CommitPlaces
    BY <1>4, <2>2 DEF IInv, OneCommitter, CommitPlaces
  <2>. QED BY <1>1, <1>2, <2>1, <2>2, <2>3 DEF OneCommitter
<1>11. Reserved'
  <2>1. Cardinality(Used) \in Nat
    <3>1. Used \in SUBSET (Ops \X Blocks) /\ \A e \in Used : e[2] \in wrote[e[1]]
      BY DEF Used
    <3>. QED BY <3>1, WrittenBound DEF IInv, OneCommitter
  <2>2. /\ Len(lh) \in Nat /\ LOGSIZE \in Nat /\ (outstanding + 1) * MAXOPBLOCKS \in Nat
        /\ outstanding \in Nat
    BY <1>2, SeqFacts, LogAssumption DEF TypeOK
  <2>3. outstanding = 0 => Len(lh) = 0
    BY <1>1, SeqFacts DEF IInv, OneCommitter, MayBegin, At
  <2>. QED BY <1>1, <1>6, <2>1, <2>2, <2>3 DEF Reserved, MayBegin
<1>12. Pinned'
  BY <1>1, <1>4 DEF IInv, Pinned, InLog
<1>. QED BY <1>7, <1>8, <1>9, <1>10, <1>11, <1>12 DEF IInv

\* A call changes a buffer and makes the tests of log_write(): they find room.
LEMMA ModifyStep ==
  ASSUME LogHasRoom, IInv, NEW o \in Ops, NEW b \in Blocks, Modify(o, b)
  PROVE  IInv'
<1>1. /\ boot = "up" /\ pc[o] = "op"
      /\ \A p \in Ops : writing[p] # b
      /\ Cardinality(wrote[o] \cup {b}) <= OpBlocks /\ cache[b] < MaxContent
      /\ cache' = [cache EXCEPT ![b] = @ + 1]
      /\ wrote' = [wrote EXCEPT ![o] = @ \cup {b}]
      /\ writing' = [writing EXCEPT ![o] = b]
      /\ UNCHANGED <<home, logb, head, dirty, lh, outstanding, committing, tail, boot>>
  BY DEF Modify, At, disk
<1>2. /\ outstanding > 0 /\ ~committing /\ outstanding \in Nat
      /\ Len(lh) < LogBlocks - 1 /\ Len(lh) < LOGSIZE
  BY <1>1, Counted, RoomInLog DEF IInv, Active
<1>3. pc' = [pc EXCEPT ![o] = "log_write"]
  <2>1. ~(Len(lh) >= LOGSIZE \/ Len(lh) >= LogBlocks - 1 \/ outstanding < 1)
    BY <1>2, SeqFacts, LogAssumption DEF IInv, TypeOK
  <2>. QED BY <2>1 DEF Modify, GoTo
<1>4. TypeOK
  BY DEF IInv
<1>5. /\ pc'[o] = "log_write" /\ \A p \in Ops : p # o => pc'[p] = pc[p]
      /\ writing'[o] = b /\ \A p \in Ops : p # o => writing'[p] = writing[p]
      /\ wrote'[o] = wrote[o] \cup {b} /\ \A p \in Ops : p # o => wrote'[p] = wrote[p]
      /\ \A c \in Blocks : c # b => cache'[c] = cache[c]
  BY <1>1, <1>3, <1>4 DEF TypeOK
<1>6. Active' = Active /\ o \in Active
  BY <1>1, <1>5 DEF Active
<1>7. TypeOK' /\ Len(head') < LogBlocks /\ IsInjective(head')
  <2>1. cache' \in [Blocks -> Contents]
    BY <1>1, <1>4, LogAssumption DEF TypeOK, Contents
  <2>2. /\ pc' \in [Ops -> {"idle", "begin", "asleep", "op", "log_write", "write_log",
                            "install", "committed", "panic"}]
        /\ writing' \in [Ops -> Blocks \cup {NoBlock}] /\ wrote' \in [Ops -> SUBSET Blocks]
    BY <1>1, <1>3, <1>4 DEF TypeOK
  <2>. QED BY <1>1, <1>4, <2>1, <2>2 DEF IInv, TypeOK
<1>8. NoLogPanic' /\ SleeperHasWaker' /\ Booting'
  BY <1>1, <1>2, <1>5 DEF IInv, NoLogPanic, SleeperHasWaker, Booting
<1>9. CallsOK'
  <2>1. IsFiniteSet(wrote[o] \cup {b})
    BY FiniteFacts DEF IInv, CallsOK
  <2>2. b # NoBlock /\ writing[o] = NoBlock
    BY <1>1, LogAssumption DEF IInv, CallsOK
  <2>3. \A c : InLog(c)' <=> InLog(c)
    BY <1>1 DEF InLog
  <2>4. \A p \in Ops : /\ p \notin Active' => wrote'[p] = {}
                       /\ IsFiniteSet(wrote'[p]) /\ Cardinality(wrote'[p]) <= OpBlocks
    BY <1>1, <1>5, <1>6, <2>1 DEF IInv, CallsOK
  <2>5. \A p \in Ops : \A c \in wrote'[p] : (\E i \in DOMAIN lh' : lh'[i] = c) \/ writing'[p] = c
    <3>1. \A c \in wrote[o] : c # NoBlock
      BY <1>4, LogAssumption DEF TypeOK
    <3>. QED BY <1>1, <1>5, <2>2, <3>1 DEF IInv, CallsOK, InLog
  <2>6. \A p \in Ops : /\ writing'[p] # NoBlock <=> pc'[p] = "log_write"
                       /\ writing'[p] # NoBlock => writing'[p] \in wrote'[p]
    BY <1>5, <2>2 DEF IInv, CallsOK
  <2>7. \A p, q \in Ops : writing'[p] = writing'[q] /\ writing'[p] # NoBlock => p = q
    BY <1>1, <1>5 DEF IInv, CallsOK
  <2>. QED BY <2>4, <2>5, <2>6, <2>7 DEF CallsOK, InLog
<1>10. OneCommitter'
  BY <1>1, <1>2, <1>5, <1>6 DEF IInv, OneCommitter, CommitPlaces
<1>11. Reserved'
  <2>1. Used \in SUBSET (Ops \X Blocks) /\ \A e \in Used : e[2] \in wrote[e[1]]
    BY DEF Used
  <2>2. IsFiniteSet(Used) /\ Cardinality(Used) \in Nat
    BY <2>1, WrittenBound DEF IInv, OneCommitter
  <2>3. Used \subseteq Used' /\ Used' \subseteq Used \cup {<<o, b>>}
    BY <1>1, <1>5 DEF Used, InLog
  <2>4. IsFiniteSet(Used') /\ Cardinality(Used') \in Nat
    BY <2>2, <2>3, FiniteFacts
  <2>5. Cardinality(Used) <= Cardinality(Used')
    BY <2>3, <2>4, FiniteFacts
  <2>6. /\ Len(lh) \in Nat /\ LOGSIZE \in Nat /\ outstanding * MAXOPBLOCKS \in Nat
        /\ MAXOPBLOCKS \in Nat /\ OpBlocks \in Nat
    BY <1>2, <1>4, SeqFacts, LogAssumption DEF TypeOK
  <2>. QED BY <1>1, <2>2, <2>4, <2>5, <2>6 DEF IInv, Reserved
<1>12. Pinned'
  <2>1. \A p \in Ops : pc[p] \notin CommitPlaces /\ pc'[p] \notin CommitPlaces
    BY <1>2, <1>5 DEF IInv, OneCommitter, CommitPlaces
  <2>2. \A c : InLog(c)' <=> InLog(c)
    BY <1>1 DEF InLog
  <2>3. \A c \in Blocks : cache'[c] # home'[c] => dirty'[c] \/ \E p \in Ops : writing'[p] = c
    <3>1. TAKE c \in Blocks
    <3>2. CASE c = b
      BY <1>5, <3>2
    <3>3. CASE c # b
      <4>1. \A p \in Ops : writing[p] = c => p # o
        BY <1>1, LogAssumption DEF IInv, CallsOK
      <4>. QED BY <1>1, <1>5, <3>3, <4>1 DEF IInv, Pinned
    <3>. QED BY <3>2, <3>3
  <2>. QED BY <1>1, <2>1, <2>2, <2>3 DEF IInv, Pinned, CommitPlaces
<1>. QED BY <1>7, <1>8, <1>9, <1>10, <1>11, <1>12 DEF IInv

\* The block a process is writing is in the log after log_write(), and the
\* reservation of the process pays for it.
LEMMA LogWriteStep ==
  ASSUME LogHasRoom, IInv, NEW o \in Ops, LogWrite(o)
  PROVE  IInv'
<1> DEFINE b == writing[o]
<1>1. /\ boot = "up" /\ pc[o] = "log_write" /\ pc' = [pc EXCEPT ![o] = "op"]
      /\ lh' = IF InLog(b) THEN lh ELSE Append(lh, b)
      /\ dirty' = [dirty EXCEPT ![b] = TRUE]
      /\ writing' = [writing EXCEPT ![o] = NoBlock]
      /\ UNCHANGED <<home, logb, head, cache, outstanding, committing, wrote, tail, boot>>
  BY DEF LogWrite, At, GoTo, disk, InLog
<1>2. TypeOK /\ b \in Blocks /\ b \in wrote[o]
  BY <1>1 DEF IInv, TypeOK, CallsOK
<1>3. /\ outstanding > 0 /\ ~committing /\ outstanding \in Nat
      /\ Len(lh) < LogBlocks - 1 /\ Len(lh) < LOGSIZE
  BY <1>1, Counted, RoomInLog DEF IInv, Active
<1> HIDE DEF b
<1>4. /\ pc'[o] = "op" /\ \A p \in Ops : p # o => pc'[p] = pc[p]
      /\ writing'[o] = NoBlock /\ \A p \in Ops : p # o => writing'[p] = writing[p]
      /\ dirty'[b] = TRUE /\ \A c \in Blocks : c # b => dirty'[c] = dirty[c]
  BY <1>1, <1>2 DEF TypeOK
<1>5. Active' = Active /\ o \in Active
  BY <1>1, <1>4 DEF Active
<1>6. lh \in Seq(Blocks) /\ IsInjective(lh)
  BY <1>2 DEF TypeOK
<1>7. /\ lh' \in Seq(Blocks) /\ Len(lh') < LogBlocks /\ IsInjective(lh')
      /\ \A c : InLog(c)' <=> InLog(c) \/ c = b
      /\ \A i \in DOMAIN lh' : lh'[i] = b \/ \E j \in DOMAIN lh : lh[j] = lh'[i]
      /\ Len(lh) \in Nat /\ Len(lh') = IF InLog(b) THEN Len(lh) ELSE Len(lh) + 1
  <2>1. CASE InLog(b)
    BY <1>1, <1>2, <2>1, SeqFacts DEF TypeOK, InLog
  <2>2. CASE ~InLog(b)
    <3>1. lh' = Append(lh, b)
      BY <1>1, <2>2
    <3>2. /\ Len(lh) \in Nat /\ DOMAIN lh = 1..Len(lh)
          /\ lh' \in Seq(Blocks) /\ Len(lh') = Len(lh) + 1 /\ DOMAIN lh' = 1..(Len(lh) + 1)
          /\ \A i \in 1..(Len(lh) + 1) : lh'[i] = IF i <= Len(lh) THEN lh[i] ELSE b
      BY <1>2, <1>6, <3>1, SeqFacts
    <3>3. Len(lh') < LogBlocks
      BY <1>3, <3>2, LogAssumption
    <3>4. IsInjective(lh')
      BY <1>6, <2>2, <3>2 DEF IsInjective, InLog
    <3>5. ASSUME NEW c PROVE InLog(c)' <=> InLog(c) \/ c = b
      BY <3>2 DEF InLog
    <3>6. \A i \in DOMAIN lh' : lh'[i] = b \/ \E j \in DOMAIN lh : lh[j] = lh'[i]
      BY <3>2
    <3>. QED BY <2>2, <3>2, <3>3, <3>4, <3>5, <3>6
  <2>. QED BY <2>1, <2>2
<1>8. TypeOK' /\ Len(head') < LogBlocks /\ IsInjective(head')
  <2>1. /\ dirty' \in [Blocks -> BOOLEAN] /\ writing' \in [Ops -> Blocks \cup {NoBlock}]
        /\ pc' \in [Ops -> {"idle", "begin", "asleep", "op", "log_write", "write_log",
                            "install", "committed", "panic"}]
    BY <1>1, <1>2 DEF TypeOK
  <2>. QED BY <1>1, <1>2, <1>7, <2>1 DEF IInv, TypeOK
<1>9. NoLogPanic' /\ SleeperHasWaker' /\ Booting'
  BY <1>1, <1>3, <1>4 DEF IInv, NoLogPanic, SleeperHasWaker, Booting
<1>10. CallsOK'
  <2>1. b = writing[o] /\ b # NoBlock
    BY <1>2, LogAssumption DEF b
  <2>. QED BY <1>1, <1>4, <1>5, <1>7, <2>1 DEF IInv, CallsOK
<1>11. OneCommitter'
  BY <1>1, <1>3, <1>4, <1>5 DEF IInv, OneCommitter, CommitPlaces
<1>12. Reserved'
  <2>1. Used \in SUBSET (Ops \X Blocks) /\ \A e \in Used : e[2] \in wrote[e[1]]
    BY DEF Used
  <2>2. IsFiniteSet(Used) /\ Cardinality(Used) \in Nat
    BY <2>1, WrittenBound DEF IInv, OneCommitter
  <2>3. /\ Len(lh) \in Nat /\ LOGSIZE \in Nat /\ outstanding * MAXOPBLOCKS \in Nat
        /\ MAXOPBLOCKS \in Nat /\ OpBlocks \in Nat
    BY <1>2, <1>3, SeqFacts, LogAssumption DEF TypeOK
  <2>4. CASE InLog(b)
    <3>1. Used' = Used
      BY <1>1, <1>7, <2>4 DEF Used
    <3>. QED BY <1>1, <1>7, <2>2, <2>3, <2>4, <3>1 DEF IInv, Reserved
  <2>5. CASE ~InLog(b)
    <3>1. \A p \in Ops : b \in wrote[p] => p = o
      BY <1>1, <2>5 DEF IInv, CallsOK, b
    <3>2. Used' = Used \cup {<<o, b>>}
      BY <1>1, <1>2, <1>7, <3>1 DEF Used
    <3>3. <<o, b>> \notin Used
      BY <2>5 DEF Used
    <3>4. Cardinality(Used') = Cardinality(Used) + 1
      BY <2>2, <3>2, <3>3, FiniteFacts
    <3>. QED BY <1>1, <1>7, <2>2, <2>3, <2>5, <3>4 DEF IInv, Reserved
  <2>. QED BY <2>4, <2>5
<1>13. Pinned'
  <2>1. \A p \in Ops : pc[p] \notin CommitPlaces /\ pc'[p] \notin CommitPlaces
    BY <1>3, <1>4 DEF IInv, OneCommitter, CommitPlaces
  <2>2. \A c \in Blocks : cache'[c] # home'[c] => dirty'[c] \/ \E p \in Ops : writing'[p] = c
    <3>1. TAKE c \in Blocks
    <3>2. CASE c = b
      BY <1>4, <3>2
    <3>3. CASE c # b
      BY <1>1, <1>4, <3>3 DEF IInv, Pinned, b
    <3>. QED BY <3>2, <3>3
  <2>3. \A c \in Blocks : dirty'[c] => InLog(c)'
    BY <1>1, <1>4, <1>7 DEF IInv, Pinned
  <2>4. head' = <<>> /\ \A i \in DOMAIN lh' : dirty'[lh'[i]]
    <3>1. head = <<>> /\ \A i \in DOMAIN lh : dirty[lh[i]]
      BY <1>1, <2>1 DEF IInv, Pinned, CommitPlaces
    <3>2. \A i \in DOMAIN lh : lh[i] \in Blocks
      BY <1>6, SeqFacts
    <3>. QED BY <1>1, <1>4, <1>7, <3>1, <3>2
  <2>. QED BY <1>1, <2>1, <2>2, <2>3, <2>4 DEF Pinned, CommitPlaces
<1>. QED BY <1>8, <1>9, <1>10, <1>11, <1>12, <1>13 DEF IInv

\* A call that ends before others gives its reservation back; what it wrote stays
\* in the log.
LEMMA EndOpLeaveStep ==
  ASSUME IInv, NEW o \in Ops, EndOpLeave(o)
  PROVE  IInv'
<1>1. /\ boot = "up" /\ pc[o] = "op" /\ outstanding > 1
      /\ outstanding' = outstanding - 1
      /\ wrote' = [wrote EXCEPT ![o] = {}]
      /\ UNCHANGED <<home, logb, head, cache, dirty, lh, committing, writing, tail, boot>>
  BY DEF EndOpLeave, At, disk, buffers
<1>2. TypeOK /\ ~committing /\ outstanding \in Nat /\ IsFiniteSet(Active)
  BY <1>1, Counted DEF IInv, Active
<1>3. /\ pc' = [Woken(pc) EXCEPT ![o] = "idle"]
  BY <1>2 DEF EndOpLeave
<1>4. /\ pc'[o] = "idle"
      /\ \A p \in Ops : p # o => pc'[p] = IF pc[p] = "asleep" THEN "begin" ELSE pc[p]
      /\ wrote'[o] = {} /\ \A p \in Ops : p # o => wrote'[p] = wrote[p]
  BY <1>1, <1>2, <1>3 DEF Woken, TypeOK
<1>5. Active' = Active \ {o} /\ o \in Active
  BY <1>1, <1>4 DEF Active
<1>6. TypeOK' /\ Len(head') < LogBlocks /\ IsInjective(head')
  <2>1. /\ wrote' \in [Ops -> SUBSET Blocks]
        /\ pc' \in [Ops -> {"idle", "begin", "asleep", "op", "log_write", "write_log",
                            "install", "committed", "panic"}]
    BY <1>1, <1>2, <1>3 DEF TypeOK, Woken
  <2>2. outstanding' \in Nat
    BY <1>1, <1>2
  <2>. QED BY <1>1, <1>2, <2>1, <2>2 DEF IInv, TypeOK
<1>7. NoLogPanic' /\ SleeperHasWaker' /\ Booting'
  BY <1>1, <1>4 DEF IInv, NoLogPanic, SleeperHasWaker, Booting
<1>8. CallsOK'
  <2>1. IsFiniteSet({}) /\ Cardinality({}) = 0 /\ 0 <= OpBlocks
    BY FS_EmptySet, LogAssumption
  <2>2. \A c : InLog(c)' <=> InLog(c)
    BY <1>1 DEF InLog
  <2>. QED BY <1>1, <1>4, <1>5, <2>1, <2>2 DEF IInv, CallsOK
<1>9. OneCommitter'
  <2>1. outstanding' = Cardinality(Active')
    BY <1>1, <1>2, <1>5, FiniteFacts DEF IInv, OneCommitter
  <2>2. \A p \in Ops : pc'[p] \notin CommitPlaces
    BY <1>2, <1>4 DEF IInv, OneCommitter, CommitPlaces
  <2>. QED BY <1>1, <1>2, <2>1, <2>2 DEF OneCommitter
<1>10. Reserved'
  <2>1. Used \in SUBSET (Ops \X Blocks) /\ \A e \in Used : e[2] \in wrote[e[1]]
    BY DEF Used
  <2>2. IsFiniteSet(Used) /\ Cardinality(Used) \in Nat
    BY <2>1, WrittenBound DEF IInv, OneCommitter
  <2> DEFINE D == {e \in Used : e[1] = o}
             w == [p \in {o} |-> wrote[p]]
  <2>3. Used' = Used \ D
    BY <1>1, <1>4 DEF Used, InLog
  <2>4. IsFiniteSet(D) /\ Cardinality(D) \in Nat /\ Cardinality(D) <= OpBlocks
    <3>1. w \in [{o} -> SUBSET Blocks] /\ OpBlocks \in Nat
      BY <1>2, LogAssumption DEF TypeOK
    <3>2. \A p \in {o} : IsFiniteSet(w[p]) /\ Cardinality(w[p]) <= OpBlocks
      BY DEF IInv, CallsOK
    <3>3. D \in SUBSET ({o} \X Blocks) /\ \A e \in D : e[2] \in w[e[1]]
      BY DEF Used
    <3>4. IsFiniteSet({o}) /\ Cardinality({o}) = 1
      BY FS_Singleton
    <3> HIDE DEF w, D
    <3>5. IsFiniteSet(D) /\ Cardinality(D) \in Nat /\ Cardinality(D) <= Cardinality({o}) * OpBlocks
      BY <3>1, <3>2, <3>3, <3>4, PairsBound
    <3>. QED BY <3>1, <3>4, <3>5
  <2>5. IsFiniteSet(Used') /\ Cardinality(Used') \in Nat
    BY <2>2, <2>3, FiniteFacts
  <2>6. Cardinality(Used) = Cardinality(Used') + Cardinality(D)
    <3>1. Used = Used' \cup D /\ Used' \cap D = {}
      BY <2>3
    <3> HIDE DEF D
    <3>2. Cardinality(Used' \cup D) = Cardinality(Used') + Cardinality(D) - Cardinality(Used' \cap D)
      BY <2>4, <2>5, FS_Union
    <3>3. Cardinality(Used' \cap D) = 0
      BY <3>1, FS_EmptySet
    <3>4. Cardinality(Used) = Cardinality(Used' \cup D)
      BY <3>1
    <3>. QED BY <3>2, <3>3, <3>4, <2>4, <2>5
  <2>7. /\ Len(lh) \in Nat /\ LOGSIZE \in Nat /\ MAXOPBLOCKS \in Nat /\ OpBlocks <= MAXOPBLOCKS
        /\ OpBlocks \in Nat
    BY <1>2, SeqFacts, LogAssumption DEF TypeOK
  <2>8. outstanding * MAXOPBLOCKS = (outstanding - 1) * MAXOPBLOCKS + MAXOPBLOCKS
        /\ (outstanding - 1) * MAXOPBLOCKS \in Nat
    BY <1>1, <1>2, <2>7
  <2>9. ASSUME boot' = "up"
        PROVE  /\ Len(lh) + (outstanding - 1) * MAXOPBLOCKS <= LOGSIZE + Cardinality(Used')
               /\ outstanding - 1 = 1 =>
                    Len(lh) + MAXOPBLOCKS + (MAXOPBLOCKS - OpBlocks) <= LOGSIZE + Cardinality(Used')
    <3> DEFINE X == (outstanding - 1) * MAXOPBLOCKS
    <3>1. boot = "up"
      BY <1>1, <2>9
    <3>2. Len(lh) + outstanding * MAXOPBLOCKS <= LOGSIZE + Cardinality(Used)
      BY <3>1 DEF IInv, Reserved
    <3>3. outstanding * MAXOPBLOCKS = X + MAXOPBLOCKS /\ X \in Nat
      BY <2>8
    <3> HIDE DEF X
    <3>4. Len(lh) + X <= LOGSIZE + Cardinality(Used')
      BY <3>2, <3>3, <2>4, <2>5, <2>6, <2>7
    <3>5. ASSUME outstanding - 1 = 1
          PROVE  Len(lh) + MAXOPBLOCKS + (MAXOPBLOCKS - OpBlocks) <= LOGSIZE + Cardinality(Used')
      <4>1. X = MAXOPBLOCKS
        BY <3>5, <2>7 DEF X
      <4>. QED BY <4>1, <3>2, <3>3, <2>4, <2>5, <2>6, <2>7
    <3>. QED BY <3>4, <3>5 DEF X
  <2>. QED BY <1>1, <2>9 DEF Reserved
<1>11. Pinned'
  <2>1. \A p \in Ops : pc[p] \notin CommitPlaces /\ pc'[p] \notin CommitPlaces
    BY <1>2, <1>4 DEF IInv, OneCommitter, CommitPlaces
  <2>. QED BY <1>1, <2>1 DEF IInv, Pinned, InLog, CommitPlaces
<1>. QED BY <1>6, <1>7, <1>8, <1>9, <1>10, <1>11 DEF IInv

\* The last call to end becomes the committer.
LEMMA EndOpCommitStep ==
  ASSUME IInv, NEW o \in Ops, EndOpCommit(o)
  PROVE  IInv'
<1>1. /\ boot = "up" /\ pc[o] = "op" /\ outstanding = 1 /\ outstanding' = 0
      /\ committing' = TRUE /\ tail' = 1
      /\ wrote' = [wrote EXCEPT ![o] = {}]
      /\ UNCHANGED <<home, logb, head, cache, dirty, lh, writing, boot>>
  BY DEF EndOpCommit, At, disk, buffers
<1>2. TypeOK /\ ~committing /\ IsFiniteSet(Active)
  BY <1>1, Counted DEF IInv, Active
<1>3. pc' = [pc EXCEPT ![o] = IF lh = <<>> THEN "committed" ELSE "write_log"]
  BY <1>2 DEF EndOpCommit, GoTo
<1>4. /\ pc'[o] = IF lh = <<>> THEN "committed" ELSE "write_log"
      /\ \A p \in Ops : p # o => pc'[p] = pc[p]
      /\ wrote'[o] = {} /\ \A p \in Ops : p # o => wrote'[p] = wrote[p]
  BY <1>1, <1>2, <1>3 DEF TypeOK
<1>5. Active' = Active \ {o} /\ o \in Active
  BY <1>1, <1>4 DEF Active
<1>6. Cardinality(Active') = 0 /\ Active' = {}
  <2>1. Cardinality(Active) = 1
    BY <1>1 DEF IInv, OneCommitter
  <2>2. IsFiniteSet(Active') /\ Cardinality(Active') = 0
    BY <1>2, <1>5, <2>1, FiniteFacts
  <2>. QED BY <2>2, FS_EmptySet
<1>7. TypeOK' /\ Len(head') < LogBlocks /\ IsInjective(head')
  <2>1. /\ wrote' \in [Ops -> SUBSET Blocks]
        /\ pc' \in [Ops -> {"idle", "begin", "asleep", "op", "log_write", "write_log",
                            "install", "committed", "panic"}]
    BY <1>1, <1>2, <1>3 DEF TypeOK
  <2>2. outstanding' \in Nat /\ tail' \in Nat \ {0} /\ committing' \in BOOLEAN
    BY <1>1
  <2>. QED BY <1>1, <1>2, <2>1, <2>2 DEF IInv, TypeOK
<1>8. NoLogPanic' /\ SleeperHasWaker' /\ Booting'
  BY <1>1, <1>4 DEF IInv, NoLogPanic, SleeperHasWaker, Booting
<1>9. CallsOK'
  <2>1. IsFiniteSet({}) /\ Cardinality({}) = 0 /\ 0 <= OpBlocks
    BY FS_EmptySet, LogAssumption
  <2>2. \A c : InLog(c)' <=> InLog(c)
    BY <1>1 DEF InLog
  <2>3. \A p \in Ops : wrote'[p] = {}
    BY <1>4, <1>5, <1>6 DEF IInv, CallsOK
  <2>4. \A p \in Ops : writing[p] = NoBlock /\ pc'[p] # "log_write"
    BY <1>1, <1>4, <1>6 DEF IInv, CallsOK, Active
  <2>. QED BY <1>1, <2>1, <2>2, <2>3, <2>4 DEF CallsOK
<1>10. OneCommitter'
  <2>1. \A p \in Ops : pc'[p] \in CommitPlaces <=> p = o
    BY <1>2, <1>4 DEF IInv, OneCommitter, CommitPlaces
  <2>. QED BY <1>1, <1>6, <2>1 DEF OneCommitter
<1>11. Reserved'
  <2>1. Used \in SUBSET (Ops \X Blocks) /\ \A e \in Used : e[2] \in wrote[e[1]]
    BY DEF Used
  <2>2. Cardinality(Used) \in Nat /\ Cardinality(Used) <= 1 * OpBlocks
    BY <1>1, <2>1, WrittenBound DEF IInv, OneCommitter
  <2>3. Used' = {} /\ Cardinality(Used') = 0
    BY <1>4, <1>5, <1>6, FS_EmptySet DEF Used, IInv, CallsOK
  <2>4. /\ Len(lh) \in Nat /\ LOGSIZE \in Nat /\ MAXOPBLOCKS \in Nat /\ OpBlocks <= MAXOPBLOCKS
        /\ OpBlocks \in Nat
    BY <1>2, SeqFacts, LogAssumption DEF TypeOK
  <2>. QED BY <1>1, <2>2, <2>3, <2>4 DEF IInv, Reserved
<1>12. Pinned'
  <2>1. \A p \in Ops : pc'[p] \in CommitPlaces <=> p = o
    BY <1>2, <1>4 DEF IInv, OneCommitter, CommitPlaces
  <2>2. \A p \in Ops : pc[p] \notin CommitPlaces
    BY <1>2 DEF IInv, OneCommitter
  <2>3. \A i \in DOMAIN lh : ~(i < 1)
    BY <1>2, SeqFacts DEF TypeOK
  <2>. QED BY <1>1, <1>4, <2>1, <2>2, <2>3 DEF IInv, Pinned, InLog, CommitPlaces
<1>. QED BY <1>7, <1>8, <1>9, <1>10, <1>11, <1>12 DEF IInv

-----------------------------------------------------------------------------
(* The invariant through commit, crash and recovery *)

\* The steps of a committer that leave pc alone, or move the committer from one
\* place of the commit to another.
LEMMA CommitFrame ==
  ASSUME IInv, NEW o \in Ops, pc[o] \in CommitPlaces,
         NEW x \in CommitPlaces, pc' = [pc EXCEPT ![o] = x],
         lh' \in {lh, <<>>},
         UNCHANGED <<outstanding, committing, writing, wrote, boot>>
  PROVE  /\ NoLogPanic' /\ CallsOK' /\ OneCommitter' /\ Reserved' /\ Booting'
         /\ SleeperHasWaker'
         /\ pc' \in [Ops -> {"idle", "begin", "asleep", "op", "log_write", "write_log",
                             "install", "committed", "panic"}]
<1>1. /\ boot = "up" /\ committing /\ outstanding = 0 /\ Active = {} /\ Used = {}
      /\ \A p \in Ops : wrote[p] = {} /\ writing[p] = NoBlock
      /\ \A p \in Ops : p # o => pc[p] \in {"idle", "begin", "asleep"}
  BY CommitterAlone, NobodyInside
<1>2. pc'[o] = x /\ \A p \in Ops : p # o => pc'[p] = pc[p]
  BY DEF IInv, TypeOK
<1>3. Active' = {} /\ Used' = {}
  BY <1>1, <1>2 DEF Active, Used, CommitPlaces
<1>4. NoLogPanic' /\ Booting' /\ SleeperHasWaker'
  BY <1>1, <1>2 DEF IInv, NoLogPanic, Booting, SleeperHasWaker, CommitPlaces
<1>5. CallsOK'
  <2>1. IsFiniteSet({}) /\ Cardinality({}) = 0 /\ 0 <= OpBlocks
    BY FS_EmptySet, LogAssumption
  <2>. QED BY <1>1, <1>2, <2>1 DEF CallsOK, CommitPlaces
<1>6. OneCommitter'
  <2>1. \A p \in Ops : pc'[p] \in CommitPlaces <=> p = o
    BY <1>1, <1>2 DEF CommitPlaces
  <2>. QED BY <1>1, <1>3, <2>1, FS_EmptySet DEF OneCommitter
<1>7. Reserved'
  <2>1. Len(lh) \in Nat /\ LOGSIZE \in Nat /\ Len(<<>>) = 0 /\ MAXOPBLOCKS \in Nat
    BY SeqFacts, LogAssumption DEF IInv, TypeOK
  <2>. QED BY <1>1, <1>3, <2>1, FS_EmptySet DEF IInv, Reserved
<1>8. pc' \in [Ops -> {"idle", "begin", "asleep", "op", "log_write", "write_log",
                       "install", "committed", "panic"}]
  BY DEF IInv, TypeOK, CommitPlaces
<1>. QED BY <1>4, <1>5, <1>6, <1>7, <1>8

\* One block is copied to the log.
LEMMA WriteLogStep == ASSUME IInv, NEW o \in Ops, WriteLog(o) PROVE IInv'
<1>1. /\ boot = "up" /\ pc[o] = "write_log" /\ tail <= Len(lh)
      /\ logb' = [logb EXCEPT ![tail] = cache[lh[tail]]] /\ tail' = tail + 1
      /\ UNCHANGED <<home, head, cache, dirty, lh, outstanding, committing, pc, writing, wrote, boot>>
  BY DEF WriteLog, At, buffers
<1>2. TypeOK /\ pc[o] \in CommitPlaces /\ pc' = [pc EXCEPT ![o] = "write_log"]
  BY <1>1 DEF IInv, TypeOK, CommitPlaces
<1>3. /\ Len(lh) \in Nat /\ DOMAIN lh = 1..Len(lh) /\ tail \in 1..Len(lh) /\ lh[tail] \in Blocks
      /\ tail \in LogSlots /\ DOMAIN lh \subseteq LogSlots
  BY <1>1, <1>2, SeqFacts, LogAssumption DEF TypeOK, LogSlots
<1>4. TypeOK' /\ Len(head') < LogBlocks /\ IsInjective(head')
  <2>1. logb' \in [LogSlots -> Contents] /\ tail' \in Nat \ {0}
    BY <1>1, <1>2, <1>3 DEF TypeOK
  <2>. QED BY <1>1, <1>2, <2>1 DEF IInv, TypeOK
<1>5. NoLogPanic' /\ CallsOK' /\ OneCommitter' /\ Reserved' /\ Booting' /\ SleeperHasWaker'
  <2>1. "write_log" \in CommitPlaces
    BY DEF CommitPlaces
  <2>. QED BY <1>1, <1>2, <2>1, CommitFrame
<1>6. Pinned'
  <2>1. \A p \in Ops : p # o => pc[p] \notin CommitPlaces
    BY <1>2 DEF IInv, OneCommitter
  <2>2. \A i \in DOMAIN lh : i < tail' => logb'[i] = cache[lh[i]]
    <3>1. \A i \in DOMAIN lh : i < tail => logb[i] = cache[lh[i]]
      BY <1>1 DEF IInv, Pinned
    <3>. QED BY <1>1, <1>2, <1>3, <3>1 DEF TypeOK
  <2>. QED BY <1>1, <2>1, <2>2 DEF IInv, Pinned, InLog, CommitPlaces
<1>. QED BY <1>4, <1>5, <1>6 DEF IInv

\* The header makes the copied blocks the transaction.
LEMMA WriteHeadStep == ASSUME IInv, NEW o \in Ops, WriteHead(o) PROVE IInv'
<1>1. /\ boot = "up" /\ pc[o] = "write_log" /\ tail > Len(lh)
      /\ head' = lh /\ tail' = 1 /\ pc' = [pc EXCEPT ![o] = "install"]
      /\ UNCHANGED <<home, logb, cache, dirty, lh, outstanding, committing, writing, wrote, boot>>
  BY DEF WriteHead, At, GoTo, buffers
<1>2. TypeOK /\ pc[o] \in CommitPlaces
  BY <1>1 DEF IInv, CommitPlaces
<1>3. Len(lh) \in Nat /\ DOMAIN lh = 1..Len(lh)
  BY <1>2, SeqFacts DEF TypeOK
<1>4. /\ NoLogPanic' /\ CallsOK' /\ OneCommitter' /\ Reserved' /\ Booting' /\ SleeperHasWaker'
      /\ pc' \in [Ops -> {"idle", "begin", "asleep", "op", "log_write", "write_log",
                          "install", "committed", "panic"}]
  <2>1. "install" \in CommitPlaces
    BY DEF CommitPlaces
  <2>. QED BY <1>1, <1>2, <2>1, CommitFrame
<1>5. TypeOK' /\ Len(head') < LogBlocks /\ IsInjective(head')
  BY <1>1, <1>2, <1>4 DEF IInv, TypeOK
<1>6. Pinned'
  <2>1. \A p \in Ops : p # o => pc[p] \notin CommitPlaces /\ pc'[p] \notin CommitPlaces
    BY <1>1, <1>2 DEF IInv, OneCommitter, TypeOK
  <2>2. \A i \in DOMAIN lh : logb[i] = cache[lh[i]] /\ dirty[lh[i]] /\ ~(i < 1)
    BY <1>1, <1>2, <1>3, <2>1 DEF IInv, Pinned, CommitPlaces, TypeOK
  <2>3. pc'[o] = "install"
    BY <1>1, <1>2 DEF TypeOK
  <2>. QED BY <1>1, <2>1, <2>2, <2>3 DEF IInv, Pinned, InLog, CommitPlaces
<1>. QED BY <1>4, <1>5, <1>6 DEF IInv

\* One block is copied home.
LEMMA InstallTransStep == ASSUME IInv, NEW o \in Ops, InstallTrans(o) PROVE IInv'
<1>1. /\ boot = "up" /\ pc[o] = "install" /\ tail <= Len(lh)
      /\ home' = [home EXCEPT ![lh[tail]] = logb[tail]]
      /\ cache' = [cache EXCEPT ![lh[tail]] = logb[tail]]
      /\ dirty' = [dirty EXCEPT ![lh[tail]] = FALSE]
      /\ tail' = tail + 1
      /\ UNCHANGED <<logb, head, lh, outstanding, committing, pc, writing, wrote, boot>>
  BY DEF InstallTrans, InstallBlock, At
<1>2. TypeOK /\ pc[o] \in CommitPlaces /\ pc' = [pc EXCEPT ![o] = "install"]
  BY <1>1 DEF IInv, TypeOK, CommitPlaces
<1>3. /\ Len(lh) \in Nat /\ DOMAIN lh = 1..Len(lh) /\ tail \in 1..Len(lh) /\ lh[tail] \in Blocks
      /\ tail \in LogSlots /\ \A i \in DOMAIN lh : lh[i] \in Blocks
  BY <1>1, <1>2, SeqFacts, LogAssumption DEF TypeOK, LogSlots
<1>4. TypeOK' /\ Len(head') < LogBlocks /\ IsInjective(head')
  <2>1. /\ home' \in [Blocks -> Contents] /\ cache' \in [Blocks -> Contents]
        /\ dirty' \in [Blocks -> BOOLEAN] /\ tail' \in Nat \ {0}
    BY <1>1, <1>2, <1>3 DEF TypeOK
  <2>. QED BY <1>1, <1>2, <2>1 DEF IInv, TypeOK
<1>5. NoLogPanic' /\ CallsOK' /\ OneCommitter' /\ Reserved' /\ Booting' /\ SleeperHasWaker'
  <2>1. "install" \in CommitPlaces
    BY DEF CommitPlaces
  <2>. QED BY <1>1, <1>2, <2>1, CommitFrame
<1>6. Pinned'
  <2>1. \A p \in Ops : p # o => pc[p] \notin CommitPlaces
    BY <1>2 DEF IInv, OneCommitter
  <2>2. head = lh /\ \A i \in DOMAIN lh : /\ logb[i] = cache[lh[i]]
                                          /\ ~dirty[lh[i]] <=> i < tail
    BY <1>1 DEF IInv, Pinned
  <2>3. cache' = cache
    BY <1>1, <1>2, <1>3, <2>2 DEF TypeOK
  <2>4. \A c \in Blocks :
          /\ c = lh[tail] => home'[c] = cache[c] /\ ~dirty'[c]
          /\ c # lh[tail] => home'[c] = home[c] /\ dirty'[c] = dirty[c]
    BY <1>1, <1>2, <1>3, <2>2 DEF TypeOK
  <2>5. \A i \in DOMAIN lh : lh[i] = lh[tail] => i = tail
    BY <1>2, <1>3 DEF TypeOK, IsInjective
  <2>6. ASSUME NEW i \in DOMAIN lh PROVE ~dirty'[lh[i]] <=> i < tail + 1
    <3>1. CASE i = tail
      BY <1>3, <2>4, <3>1
    <3>2. CASE i # tail
      <4>1. dirty'[lh[i]] = dirty[lh[i]]
        BY <1>3, <2>4, <2>5, <3>2
      <4>2. i < tail <=> i < tail + 1
        BY <1>3, <3>2
      <4>. QED BY <2>2, <4>1, <4>2
    <3>. QED BY <3>1, <3>2
  <2>7. \A c \in Blocks : dirty'[c] => InLog(c)
    BY <1>1, <2>4 DEF IInv, Pinned
  <2>8. \A c \in Blocks : cache[c] # home'[c] => dirty'[c] \/ \E p \in Ops : writing[p] = c
    BY <1>1, <2>4 DEF IInv, Pinned
  <2>. QED BY <1>1, <2>1, <2>2, <2>3, <2>6, <2>7, <2>8 DEF Pinned, CommitPlaces, InLog
<1>. QED BY <1>4, <1>5, <1>6 DEF IInv

\* The transaction is erased when all its blocks are home.
LEMMA ClearHeadStep == ASSUME IInv, NEW o \in Ops, ClearHead(o) PROVE IInv'
<1>1. /\ boot = "up" /\ pc[o] = "install" /\ tail > Len(lh)
      /\ lh' = <<>> /\ head' = <<>> /\ pc' = [pc EXCEPT ![o] = "committed"]
      /\ UNCHANGED <<home, logb, cache, dirty, outstanding, committing, writing, wrote, tail, boot>>
  BY DEF ClearHead, At, GoTo, buffers
<1>2. TypeOK /\ pc[o] \in CommitPlaces
  BY <1>1 DEF IInv, CommitPlaces
<1>3. Len(lh) \in Nat /\ DOMAIN lh = 1..Len(lh)
  BY <1>2, SeqFacts DEF TypeOK
<1>4. /\ NoLogPanic' /\ CallsOK' /\ OneCommitter' /\ Reserved' /\ Booting' /\ SleeperHasWaker'
      /\ pc' \in [Ops -> {"idle", "begin", "asleep", "op", "log_write", "write_log",
                          "install", "committed", "panic"}]
  <2>1. "committed" \in CommitPlaces
    BY DEF CommitPlaces
  <2>. QED BY <1>1, <1>2, <2>1, CommitFrame
<1>5. TypeOK' /\ Len(head') < LogBlocks /\ IsInjective(head')
  <2>1. Len(<<>>) < LogBlocks /\ IsInjective(<<>>) /\ <<>> \in Seq(Blocks)
    BY LogAssumption, SeqFacts DEF IsInjective
  <2>. QED BY <1>1, <1>2, <1>4, <2>1 DEF TypeOK
<1>6. Pinned'
  <2>1. \A p \in Ops : p # o => pc[p] \notin CommitPlaces /\ pc'[p] \notin CommitPlaces
    BY <1>1, <1>2 DEF IInv, OneCommitter, TypeOK
  <2>2. pc'[o] = "committed"
    BY <1>1, <1>2 DEF TypeOK
  <2>3. \A i \in DOMAIN lh : ~dirty[lh[i]]
    BY <1>1, <1>2, <1>3 DEF IInv, Pinned, TypeOK
  <2>4. \A c \in Blocks : ~dirty[c]
    BY <1>1, <2>3 DEF IInv, Pinned, InLog
  <2>5. \A i : i \notin DOMAIN lh'
    BY <1>1, SeqFacts
  <2>. QED BY <1>1, <2>1, <2>2, <2>4, <2>5 DEF IInv, Pinned, InLog, CommitPlaces
<1>. QED BY <1>4, <1>5, <1>6 DEF IInv

\* The commit is over: whoever sleeps in begin_op() is woken.
LEMMA EndCommitStep == ASSUME IInv, NEW o \in Ops, EndCommit(o) PROVE IInv'
<1>1. /\ boot = "up" /\ pc[o] = "committed" /\ ~committing' /\ committing' \in BOOLEAN
      /\ pc' = [Woken(pc) EXCEPT ![o] = "idle"]
      /\ UNCHANGED <<home, logb, head, cache, dirty, lh, outstanding, writing, wrote, tail, boot>>
  BY DEF EndCommit, At, disk, buffers
<1>2. TypeOK /\ pc[o] \in CommitPlaces
  BY <1>1 DEF IInv, CommitPlaces
<1>3. /\ outstanding = 0 /\ Active = {} /\ Used = {} /\ lh = <<>>
      /\ \A p \in Ops : wrote[p] = {} /\ writing[p] = NoBlock
  BY <1>1, <1>2, NobodyInside DEF IInv, Pinned
<1>4. \A p \in Ops : pc'[p] \in {"idle", "begin"}
  <2>1. \A p \in Ops : p # o => pc[p] \in {"idle", "begin", "asleep"}
    BY <1>2, CommitterAlone
  <2>. QED BY <1>1, <1>2, <2>1 DEF TypeOK, Woken
<1>5. Active' = {} /\ Used' = {}
  BY <1>1, <1>3, <1>4 DEF Active, Used
<1>6. TypeOK' /\ Len(head') < LogBlocks /\ IsInjective(head')
  <2>1. pc' \in [Ops -> {"idle", "begin", "asleep", "op", "log_write", "write_log",
                         "install", "committed", "panic"}]
    BY <1>1, <1>2 DEF TypeOK, Woken
  <2>. QED BY <1>1, <1>2, <2>1 DEF IInv, TypeOK
<1>7. NoLogPanic' /\ SleeperHasWaker' /\ Booting'
  BY <1>1, <1>4 DEF NoLogPanic, SleeperHasWaker, Booting
<1>8. CallsOK'
  <2>1. IsFiniteSet({}) /\ Cardinality({}) = 0 /\ 0 <= OpBlocks
    BY FS_EmptySet, LogAssumption
  <2>2. \A p \in Ops : wrote'[p] = {} /\ writing'[p] = NoBlock /\ pc'[p] # "log_write"
    BY <1>1, <1>3, <1>4
  <2>. QED BY <2>1, <2>2 DEF CallsOK
<1>9. OneCommitter'
  BY <1>1, <1>3, <1>4, <1>5, FS_EmptySet DEF OneCommitter, CommitPlaces
<1>10. Reserved'
  BY <1>1, <1>3, <1>5, FS_EmptySet, SeqFacts, LogAssumption DEF Reserved
<1>11. Pinned'
  <2>1. head = <<>>
    BY <1>1, <1>2, CommitterAlone DEF IInv, Pinned
  <2>. QED BY <1>1, <1>2, <1>4, <2>1 DEF IInv, Pinned, InLog
<1>. QED BY <1>6, <1>7, <1>8, <1>9, <1>10, <1>11 DEF IInv

\* A buffer that may be recycled is equal to its block: it does not matter
\* whether it is.
LEMMA EvictIsStutter == ASSUME IInv, NEW b \in Blocks, Evict(b) PROVE UNCHANGED vars
<1>1. /\ boot = "up" /\ ~dirty[b] /\ \A o \in Ops : writing[o] # b
      /\ cache' = [cache EXCEPT ![b] = home[b]]
      /\ UNCHANGED <<home, logb, head, dirty, lh, outstanding, committing, pc, writing, wrote, tail, boot>>
  BY DEF Evict, disk
<1>2. cache[b] = home[b]
  BY <1>1 DEF IInv, Pinned
<1>3. cache' = cache
  BY <1>1, <1>2 DEF IInv, TypeOK
<1>. QED BY <1>1, <1>3 DEF vars

\* Nothing runs after a crash, and every buffer is what the disk holds.
LEMMA CrashStep == ASSUME IInv, Crash PROVE IInv'
<1>1. /\ cache' = home /\ dirty' = [b \in Blocks |-> FALSE] /\ lh' = <<>>
      /\ outstanding' = 0 /\ ~committing' /\ committing' \in BOOLEAN
      /\ pc' = [o \in Ops |-> "idle"] /\ writing' = [o \in Ops |-> NoBlock]
      /\ wrote' = [o \in Ops |-> {}] /\ tail' = 1 /\ boot' = "read_head"
      /\ UNCHANGED <<home, logb, head>>
  BY DEF Crash, disk
<1>2. TypeOK
  BY DEF IInv
<1>3. Active' = {}
  BY <1>1 DEF Active
<1>4. TypeOK' /\ Len(head') < LogBlocks /\ IsInjective(head')
  <2>1. Len(<<>>) < LogBlocks /\ IsInjective(<<>>) /\ <<>> \in Seq(Blocks)
    BY LogAssumption, SeqFacts DEF IsInjective
  <2>2. /\ pc' \in [Ops -> {"idle", "begin", "asleep", "op", "log_write", "write_log",
                            "install", "committed", "panic"}]
        /\ writing' \in [Ops -> Blocks \cup {NoBlock}] /\ wrote' \in [Ops -> SUBSET Blocks]
        /\ dirty' \in [Blocks -> BOOLEAN] /\ outstanding' \in Nat /\ tail' \in Nat \ {0}
    BY <1>1
  <2>. QED BY <1>1, <1>2, <2>1, <2>2 DEF IInv, TypeOK
<1>5. NoLogPanic' /\ SleeperHasWaker' /\ Booting' /\ Reserved' /\ Pinned'
  BY <1>1 DEF NoLogPanic, SleeperHasWaker, Booting, Reserved, Pinned
<1>6. CallsOK'
  BY <1>1, FS_EmptySet, LogAssumption DEF CallsOK
<1>7. OneCommitter'
  BY <1>1, <1>3, FS_EmptySet DEF OneCommitter, CommitPlaces
<1>. QED BY <1>4, <1>5, <1>6, <1>7 DEF IInv

\* What stays true while recovery goes from one step to the next.
LEMMA BootFrame ==
  ASSUME IInv, boot # "up", TypeOK', Len(head') < LogBlocks /\ IsInjective(head'),
         Booting', boot' # "up" \/ (Pinned' /\ lh' = <<>>),
         UNCHANGED <<outstanding, committing, pc, writing, wrote>>
  PROVE  IInv'
<1>1. /\ outstanding = 0 /\ ~committing /\ Active = {} /\ \A o \in Ops : pc[o] = "idle"
      /\ \A o \in Ops : wrote[o] = {} /\ writing[o] = NoBlock
  BY NobodyInside DEF IInv, Booting
<1>2. Active' = {} /\ Used' = {}
  BY <1>1 DEF Active, Used
<1>3. NoLogPanic' /\ SleeperHasWaker'
  BY <1>1 DEF NoLogPanic, SleeperHasWaker
<1>4. CallsOK'
  <2>1. IsFiniteSet({}) /\ Cardinality({}) = 0 /\ 0 <= OpBlocks
    BY FS_EmptySet, LogAssumption
  <2>. QED BY <1>1, <2>1 DEF CallsOK
<1>5. OneCommitter'
  BY <1>1, <1>2, FS_EmptySet DEF OneCommitter, CommitPlaces
<1>6. Reserved'
  BY <1>1, <1>2, FS_EmptySet, SeqFacts, LogAssumption DEF Reserved
<1>7. Pinned'
  BY DEF Pinned
<1>. QED BY <1>3, <1>4, <1>5, <1>6, <1>7 DEF IInv

\* Recovery reads the header.
LEMMA ReadHeadStep == ASSUME IInv, ReadHead PROVE IInv'
<1>1. /\ boot = "read_head" /\ lh' = head /\ tail' = 1 /\ boot' = "install"
      /\ UNCHANGED <<home, logb, head, cache, dirty, outstanding, committing, pc, writing, wrote>>
  BY DEF ReadHead, disk, buffers
<1>2. TypeOK' /\ Len(head') < LogBlocks /\ IsInjective(head')
  BY <1>1 DEF IInv, TypeOK
<1>3. Booting'
  <2>1. \A i \in DOMAIN head : ~(i < 1)
    BY SeqFacts DEF IInv, TypeOK
  <2>. QED BY <1>1, <2>1 DEF IInv, Booting
<1>. QED BY <1>1, <1>2, <1>3, BootFrame

\* Recovery copies one block home.
LEMMA RecoverInstallStep == ASSUME IInv, RecoverInstall PROVE IInv'
<1>1. /\ boot = "install" /\ tail <= Len(lh)
      /\ home' = [home EXCEPT ![lh[tail]] = logb[tail]]
      /\ cache' = [cache EXCEPT ![lh[tail]] = logb[tail]]
      /\ dirty' = [dirty EXCEPT ![lh[tail]] = FALSE]
      /\ tail' = tail + 1
      /\ UNCHANGED <<logb, head, lh, outstanding, committing, pc, writing, wrote, boot>>
  BY DEF RecoverInstall, InstallBlock
<1>2. TypeOK
  BY DEF IInv
<1>3. /\ Len(lh) \in Nat /\ DOMAIN lh = 1..Len(lh) /\ tail \in 1..Len(lh) /\ lh[tail] \in Blocks
      /\ tail \in LogSlots /\ \A i \in DOMAIN lh : lh[i] \in Blocks
  BY <1>1, <1>2, SeqFacts, LogAssumption DEF TypeOK, LogSlots
<1>4. TypeOK' /\ Len(head') < LogBlocks /\ IsInjective(head')
  <2>1. /\ home' \in [Blocks -> Contents] /\ cache' \in [Blocks -> Contents]
        /\ dirty' \in [Blocks -> BOOLEAN] /\ tail' \in Nat \ {0}
    BY <1>1, <1>2, <1>3 DEF TypeOK
  <2>. QED BY <1>1, <1>2, <2>1 DEF IInv, TypeOK
<1>5. Booting'
  <2>1. dirty' = [b \in Blocks |-> FALSE] /\ cache' = home'
    BY <1>1, <1>3 DEF IInv, Booting
  <2>2. ASSUME NEW i \in DOMAIN lh, i < tail + 1 PROVE home'[lh[i]] = logb[i]
    <3>1. CASE i = tail
      BY <1>1, <1>2, <1>3, <3>1 DEF TypeOK
    <3>2. CASE i # tail
      <4>1. lh[i] # lh[tail]
        BY <1>2, <1>3, <3>2 DEF TypeOK, IsInjective
      <4>2. i < tail
        BY <1>3, <2>2, <3>2
      <4>. QED BY <1>1, <1>2, <1>3, <4>1, <4>2 DEF IInv, Booting, TypeOK
    <3>. QED BY <3>1, <3>2
  <2>. QED BY <1>1, <2>1, <2>2 DEF IInv, Booting
<1>. QED BY <1>1, <1>4, <1>5, BootFrame

\* Recovery erases the transaction and the machine is up.
LEMMA RecoverClearStep == ASSUME IInv, RecoverClear PROVE IInv'
<1>1. /\ boot = "install" /\ lh' = <<>> /\ head' = <<>> /\ boot' = "up"
      /\ UNCHANGED <<home, logb, cache, dirty, outstanding, committing, pc, writing, wrote, tail>>
  BY DEF RecoverClear, buffers
<1>2. TypeOK' /\ Len(head') < LogBlocks /\ IsInjective(head')
  <2>1. Len(<<>>) < LogBlocks /\ IsInjective(<<>>) /\ <<>> \in Seq(Blocks)
    BY LogAssumption, SeqFacts DEF IsInjective
  <2>. QED BY <1>1, <2>1 DEF IInv, TypeOK
<1>3. Booting'
  BY <1>1 DEF Booting
<1>4. Pinned'
  <2>1. (\A o \in Ops : pc'[o] = "idle") /\ cache' = home' /\ \A b \in Blocks : ~dirty'[b]
    BY <1>1 DEF IInv, Booting
  <2>2. \A i : i \notin DOMAIN lh'
    BY <1>1, SeqFacts
  <2>. QED BY <1>1, <2>1, <2>2 DEF Pinned
<1>. QED BY <1>1, <1>2, <1>3, <1>4, BootFrame

\* The invariant is inductive.
LEMMA NextIInv == ASSUME LogHasRoom, IInv, [Next]_vars PROVE IInv'
<1>1. ASSUME UNCHANGED vars PROVE IInv'
  BY <1>1 DEF vars, IInv, TypeOK, NoLogPanic, CallsOK, OneCommitter, Reserved, Pinned, Booting,
              SleeperHasWaker, Active, Used, InLog
<1>2. ASSUME NEW o \in Ops, BeginCall(o) \/ BeginOp(o) \/ BeginSleep(o) PROVE IInv'
  BY <1>2, BeginCallStep, BeginOpStep, BeginSleepStep
<1>3. ASSUME NEW o \in Ops, NEW b \in Blocks, Modify(o, b) PROVE IInv'
  BY <1>3, ModifyStep
<1>4. ASSUME NEW o \in Ops, LogWrite(o) \/ EndOp(o) PROVE IInv'
  BY <1>4, LogWriteStep, EndOpLeaveStep, EndOpCommitStep DEF EndOp
<1>5. ASSUME NEW o \in Ops, Commit(o) PROVE IInv'
  BY <1>5, WriteLogStep, WriteHeadStep, InstallTransStep, ClearHeadStep, EndCommitStep DEF Commit
<1>6. ASSUME NEW b \in Blocks, Evict(b) PROVE IInv'
  BY <1>1, <1>6, EvictIsStutter
<1>7. ASSUME Crash PROVE IInv'
  BY <1>7, CrashStep
<1>8. ASSUME Recover PROVE IInv'
  BY <1>8, ReadHeadStep, RecoverInstallStep, RecoverClearStep DEF Recover
<1>. QED BY <1>1, <1>2, <1>3, <1>4, <1>5, <1>6, <1>7, <1>8 DEF Next

-----------------------------------------------------------------------------
(* The theorems *)

\* What recovery makes of a header, the blocks of the log and the blocks at home.
RecoveredFrom(h, lb, hm) ==
  [b \in Blocks |-> IF \E i \in DOMAIN h : h[i] = b
                    THEN lb[CHOOSE i \in DOMAIN h : h[i] = b] ELSE hm[b]]

\* What recovery would give a block: its copy in the log if the header names it.
LEMMA RecoveredIs ==
  ASSUME IInv
  PROVE  /\ Recovered \in [Blocks -> Contents]
         /\ \A i \in DOMAIN head : Recovered[head[i]] = logb[i]
         /\ \A b \in Blocks : (\A i \in DOMAIN head : head[i] # b) => Recovered[b] = home[b]
         /\ head = <<>> => Recovered = home
<1>1. TypeOK /\ head \in Seq(Blocks) /\ IsInjective(head) /\ Len(head) < LogBlocks
  BY DEF IInv, TypeOK
<1>2. /\ DOMAIN head = 1..Len(head) /\ Len(head) \in Nat /\ DOMAIN head \subseteq LogSlots
      /\ \A i \in DOMAIN head : head[i] \in Blocks
  BY <1>1, SeqFacts, LogAssumption DEF LogSlots
<1>3. ASSUME NEW i \in DOMAIN head PROVE Recovered[head[i]] = logb[i]
  <2>1. \A j \in DOMAIN head : head[j] = head[i] => j = i
    BY <1>1 DEF IsInjective
  <2>2. (CHOOSE j \in DOMAIN head : head[j] = head[i]) = i
    BY <2>1
  <2>. QED BY <1>2, <2>2 DEF Recovered
<1>4. ASSUME NEW b \in Blocks, \A i \in DOMAIN head : head[i] # b PROVE Recovered[b] = home[b]
  BY <1>4 DEF Recovered
<1>5. Recovered \in [Blocks -> Contents]
  <2>1. ASSUME NEW b \in Blocks PROVE Recovered[b] \in Contents
    <3>1. CASE \E i \in DOMAIN head : head[i] = b
      BY <1>1, <1>2, <1>3, <3>1 DEF TypeOK
    <3>2. CASE \A i \in DOMAIN head : head[i] # b
      BY <1>1, <1>4, <3>2 DEF TypeOK
    <3>. QED BY <3>1, <3>2
  <2>2. Recovered = [b \in Blocks |-> Recovered[b]]
    BY DEF Recovered
  <2>. QED BY <2>1, <2>2
<1>6. ASSUME head = <<>> PROVE Recovered = home
  <2>1. \A b \in Blocks : Recovered[b] = home[b]
    BY <1>4, <1>6, SeqFacts
  <2>. QED BY <1>1, <1>5, <2>1 DEF TypeOK
<1>. QED BY <1>3, <1>4, <1>5, <1>6

\* When nobody is inside and no commit is in progress, the log is empty, no
\* buffer is dirty, and the disk has what the buffers have.
LEMMA InvariantImplies ==
  ASSUME IInv
  PROVE  LogInv /\ NoLogPanic
<1>1. QuiescentDurable
  <2>1. SUFFICES ASSUME boot = "up", outstanding = 0, ~committing PROVE Recovered = cache
    BY DEF QuiescentDurable
  <2>2. lh = <<>> /\ \A o \in Ops : pc[o] \notin CommitPlaces /\ writing[o] = NoBlock
    BY <2>1, Counted DEF IInv, OneCommitter, CallsOK, Active
  <2>3. head = <<>> /\ \A b \in Blocks : ~dirty[b]
    BY <2>1, <2>2, SeqFacts DEF IInv, Pinned, InLog, CommitPlaces
  <2>4. \A b \in Blocks : cache[b] = home[b]
    BY <2>1, <2>2, <2>3, LogAssumption DEF IInv, Pinned
  <2>5. cache = home
    BY <2>4 DEF IInv, TypeOK
  <2>. QED BY <2>3, <2>5, RecoveredIs
<1>2. NoLostBuffer
  BY DEF IInv, Pinned, NoLostBuffer
<1>. QED BY <1>1, <1>2 DEF IInv, LogInv

\* When the log has room for what the calls write: what is not home is pinned,
\* what was reported durable is, and a process asleep in begin_op() has a call
\* or a commit that will wake it (log.c:125-233).
THEOREM LogIsSafe == ASSUME LogHasRoom PROVE Spec => []LogInv
<1>1. Init => IInv
  BY InitIInv
<1>2. IInv /\ [Next]_vars => IInv'
  BY NextIInv
<1>3. IInv => LogInv
  BY InvariantImplies
<1>. QED BY <1>1, <1>2, <1>3, PTL DEF Spec

\* When the log has room for what the calls write, begin_op() reserves enough: no
\* log_write() panics, none comes outside a call, no call ends during a commit.
THEOREM ReservationIsEnough == ASSUME LogHasRoom PROVE Spec => []NoLogPanic
<1>1. Init => IInv
  BY InitIInv
<1>2. IInv /\ [Next]_vars => IInv'
  BY NextIInv
<1>3. IInv => NoLogPanic
  BY InvariantImplies
<1>. QED BY <1>1, <1>2, <1>3, PTL DEF Spec

-----------------------------------------------------------------------------
(* The log implements AtomicStore *)

\* The memory of the abstract store.
Mem == IF boot = "up" THEN cache ELSE Recovered

\* A step of the abstract store that changes nothing.
Stutters == Mem' = Mem /\ Recovered' = Recovered /\ Active' = Active

\* A step that leaves the disk, the buffers and the power alone.
LEMMA SameStore ==
  ASSUME UNCHANGED <<home, logb, head, cache, boot>>
  PROVE  Mem' = Mem /\ Recovered' = Recovered
BY DEF Mem, Recovered

\* The initial state is one of the store.
LEMMA InitStore == Init => Store!Init
<1> SUFFICES ASSUME Init PROVE Store!Init
  OBVIOUS
<1>1. Recovered = [b \in Blocks |-> 0]
  BY InitIInv, RecoveredIs DEF Init
<1>2. (IF boot = "up" THEN cache ELSE Recovered) = [b \in Blocks |-> 0]
  BY DEF Init
<1>3. {o \in Ops : pc[o] \in {"op", "log_write"}} = {}
  BY DEF Init
<1>. QED BY <1>1, <1>2, <1>3 DEF Store!Init

\* The steps of a call are steps of the store: begin_op() begins it, the change
\* of a buffer writes, end_op() ends it.
LEMMA CallRefines ==
  ASSUME LogHasRoom, IInv, IInv', NEW o \in Ops
  PROVE  /\ BeginCall(o) \/ BeginSleep(o) \/ LogWrite(o) => Stutters
         /\ BeginOp(o) => /\ o \notin Active /\ Active' = Active \cup {o}
                          /\ Mem' = Mem /\ Recovered' = Recovered
         /\ \A b \in Blocks : Modify(o, b) =>
              /\ o \in Active /\ Active' = Active /\ Recovered' = Recovered
              /\ \E v \in Contents : Mem' = [Mem EXCEPT ![b] = v]
         /\ EndOp(o) => /\ o \in Active /\ Active' = Active \ {o}
                        /\ Mem' = Mem /\ Recovered' = Recovered
<1>1. TypeOK
  BY DEF IInv
<1>2. ASSUME BeginCall(o) \/ BeginSleep(o) \/ LogWrite(o) PROVE Stutters
  <2>1. UNCHANGED <<home, logb, head, cache, boot>>
    BY <1>2 DEF BeginCall, BeginSleep, LogWrite, disk, buffers
  <2>2. Active' = Active
    BY <1>1, <1>2 DEF BeginCall, BeginSleep, LogWrite, At, GoTo, Active, TypeOK
  <2>. QED BY <2>1, <2>2, SameStore DEF Stutters
<1>3. ASSUME BeginOp(o)
      PROVE  o \notin Active /\ Active' = Active \cup {o} /\ Mem' = Mem /\ Recovered' = Recovered
  <2>1. UNCHANGED <<home, logb, head, cache, boot>>
    BY <1>3 DEF BeginOp, disk, buffers
  <2>2. o \notin Active /\ Active' = Active \cup {o}
    BY <1>1, <1>3 DEF BeginOp, At, GoTo, Active, TypeOK
  <2>. QED BY <2>1, <2>2, SameStore
<1>4. ASSUME NEW b \in Blocks, Modify(o, b)
      PROVE  /\ o \in Active /\ Active' = Active /\ Recovered' = Recovered
             /\ \E v \in Contents : Mem' = [Mem EXCEPT ![b] = v]
  <2>1. /\ boot = "up" /\ boot' = "up" /\ pc[o] = "op" /\ cache[b] < MaxContent
        /\ cache' = [cache EXCEPT ![b] = @ + 1]
        /\ UNCHANGED <<home, logb, head>>
    BY <1>4 DEF Modify, At, disk
  <2>2. Recovered' = Recovered
    BY <2>1 DEF Recovered
  <2>3. cache[b] + 1 \in Contents
    BY <1>1, <2>1, LogAssumption DEF TypeOK, Contents
  <2>4. Mem' = [Mem EXCEPT ![b] = cache[b] + 1]
    BY <2>1 DEF Mem
  <2>5. o \in Active /\ Active' = Active
    <3>1. \A p \in Ops : p # o => pc'[p] = pc[p]
      BY <1>1, <1>4 DEF Modify, GoTo, TypeOK
    <3>2. pc'[o] = "panic" \/ pc'[o] = "log_write"
      BY <1>1, <1>4 DEF Modify, GoTo, TypeOK
    <3>3. pc'[o] # "panic"
      BY DEF IInv, NoLogPanic
    <3>. QED BY <2>1, <3>1, <3>2, <3>3 DEF Active
  <2>. QED BY <2>2, <2>3, <2>4, <2>5
<1>5. ASSUME EndOp(o)
      PROVE  o \in Active /\ Active' = Active \ {o} /\ Mem' = Mem /\ Recovered' = Recovered
  <2>1. pc[o] = "op" /\ UNCHANGED <<home, logb, head, cache, boot>>
    BY <1>5 DEF EndOp, EndOpLeave, EndOpCommit, At, disk, buffers
  <2>2. pc'[o] \notin {"op", "log_write"}
    BY <1>1, <1>5 DEF EndOp, EndOpLeave, EndOpCommit, GoTo, TypeOK, Woken
  <2>3. \A p \in Ops : p # o => (pc'[p] \in {"op", "log_write"} <=> pc[p] \in {"op", "log_write"})
    BY <1>1, <1>5 DEF EndOp, EndOpLeave, EndOpCommit, GoTo, TypeOK, Woken
  <2>. QED BY <2>1, <2>2, <2>3, SameStore DEF Active
<1>. QED BY <1>2, <1>3, <1>4, <1>5

\* The steps of a commit change nothing of the store, but for the write of the
\* header, which makes durable what the calls wrote when none is in progress.
LEMMA CommitRefines ==
  ASSUME IInv, IInv', NEW o \in Ops
  PROVE  /\ WriteLog(o) \/ InstallTrans(o) \/ ClearHead(o) \/ EndCommit(o) => Stutters
         /\ WriteHead(o) =>
              Active = {} /\ Active' = Active /\ Recovered' = Mem /\ Mem' = Mem
<1>1. TypeOK /\ TypeOK'
  BY DEF IInv
<1>2. ASSUME WriteLog(o) PROVE Stutters
  <2>1. pc[o] = "write_log" /\ UNCHANGED <<home, head, cache, boot, pc>>
    BY <1>2 DEF WriteLog, At, buffers
  <2>2. boot = "up" /\ head = <<>>
    BY <2>1, CommitterAlone DEF IInv, OneCommitter, Pinned, CommitPlaces
  <2>3. Recovered' = Recovered
    BY <2>1, <2>2, SeqFacts DEF Recovered
  <2>. QED BY <2>1, <2>3 DEF Stutters, Mem, Active
<1>3. ASSUME InstallTrans(o) PROVE Stutters
  <2>1. /\ pc[o] = "install" /\ boot = "up" /\ tail \in DOMAIN lh
        /\ home' = [home EXCEPT ![lh[tail]] = logb[tail]]
        /\ cache' = [cache EXCEPT ![lh[tail]] = logb[tail]]
        /\ UNCHANGED <<logb, head, boot, pc>>
    BY <1>1, <1>3, SeqFacts DEF InstallTrans, InstallBlock, At, TypeOK
  <2>2. head = lh /\ logb[tail] = cache[lh[tail]]
    BY <2>1 DEF IInv, Pinned
  <2>3. cache' = cache
    BY <1>1, <2>1, <2>2 DEF TypeOK
  <2>4. \A b \in Blocks : (\A i \in DOMAIN head : head[i] # b) => home'[b] = home[b]
    BY <1>1, <2>1, <2>2 DEF TypeOK
  <2>5. Recovered' = Recovered
    BY <2>1, <2>4 DEF Recovered
  <2>. QED BY <2>1, <2>3, <2>5 DEF Stutters, Mem, Active
<1>4. ASSUME ClearHead(o) PROVE Stutters
  <2>1. /\ pc[o] = "install" /\ boot = "up" /\ tail > Len(lh) /\ head' = <<>>
        /\ pc' = [pc EXCEPT ![o] = "committed"]
        /\ UNCHANGED <<home, cache, boot>>
    BY <1>4 DEF ClearHead, At, GoTo, buffers
  <2>2. /\ head = lh /\ \A i \in DOMAIN lh : logb[i] = cache[lh[i]] /\ ~dirty[lh[i]]
        /\ \A i \in DOMAIN lh : lh[i] \in Blocks
    BY <1>1, <2>1, SeqFacts DEF IInv, Pinned, TypeOK
  <2>3. \A o2 \in Ops : writing[o2] = NoBlock
    BY <2>1, NobodyInside DEF CommitPlaces
  <2>4. \A i \in DOMAIN lh : cache[lh[i]] = home[lh[i]]
    BY <2>1, <2>2, <2>3, LogAssumption DEF IInv, Pinned
  <2>5. \A b \in Blocks : Recovered[b] = home[b]
    BY <2>2, <2>4, RecoveredIs
  <2>6. Recovered = home
    BY <1>1, <2>5, RecoveredIs DEF TypeOK
  <2>7. Recovered' = [b \in Blocks |-> home[b]]
    BY <2>1, SeqFacts DEF Recovered
  <2>8. Active' = Active
    BY <1>1, <2>1 DEF Active, TypeOK
  <2>. QED BY <1>1, <2>1, <2>6, <2>7, <2>8 DEF Stutters, Mem, TypeOK
<1>5. ASSUME EndCommit(o) PROVE Stutters
  <2>1. pc[o] = "committed" /\ UNCHANGED <<home, logb, head, cache, boot>>
    BY <1>5 DEF EndCommit, At, disk, buffers
  <2>2. Active' = Active
    BY <1>1, <1>5 DEF EndCommit, At, Woken, Active, TypeOK
  <2>. QED BY <2>1, <2>2, SameStore DEF Stutters
<1>6. ASSUME WriteHead(o)
      PROVE  Active = {} /\ Active' = Active /\ Recovered' = Mem /\ Mem' = Mem
  <2>1. /\ pc[o] = "write_log" /\ boot = "up" /\ tail > Len(lh) /\ head' = lh
        /\ pc' = [pc EXCEPT ![o] = "install"]
        /\ UNCHANGED <<home, logb, cache, boot>>
    BY <1>6 DEF WriteHead, At, GoTo, buffers
  <2>2. \A i \in DOMAIN lh : logb[i] = cache[lh[i]]
    BY <1>1, <2>1, SeqFacts DEF IInv, Pinned, TypeOK
  <2>3. Active = {} /\ \A p \in Ops : writing[p] = NoBlock
    BY <2>1, NobodyInside DEF CommitPlaces
  <2>4. Active' = Active
    BY <1>1, <2>1 DEF Active, TypeOK
  <2> DEFINE R == RecoveredFrom(lh, logb, home)
  <2>5. ASSUME NEW b \in Blocks PROVE R[b] = cache[b]
    <3>1. CASE \E i \in DOMAIN lh : lh[i] = b
      <4>1. R[b] = logb[CHOOSE i \in DOMAIN lh : lh[i] = b]
        BY <3>1 DEF RecoveredFrom
      <4>2. PICK k \in DOMAIN lh : lh[k] = b /\ R[b] = logb[k]
        BY <3>1, <4>1
      <4>. QED BY <2>2, <4>2
    <3>2. CASE ~\E i \in DOMAIN lh : lh[i] = b
      <4>1. R[b] = home[b]
        BY <3>2 DEF RecoveredFrom
      <4>2. home[b] = cache[b]
        BY <2>1, <2>3, <3>2, LogAssumption DEF IInv, Pinned, InLog
      <4>. QED BY <4>1, <4>2
    <3>. QED BY <3>1, <3>2
  <2>6. Recovered' = [b \in Blocks |-> cache[b]]
    <3>1. Recovered' = RecoveredFrom(head', logb', home')
      BY DEF Recovered, RecoveredFrom
    <3>2. Recovered' = R
      BY <2>1, <3>1
    <3>3. R = [b \in Blocks |-> R[b]]
      BY DEF RecoveredFrom
    <3> HIDE DEF R
    <3>. QED BY <2>5, <3>2, <3>3
  <2>7. Recovered' = cache
    BY <1>1, <2>6 DEF TypeOK
  <2>. QED BY <2>1, <2>3, <2>4, <2>7 DEF Mem
<1>. QED BY <1>2, <1>3, <1>4, <1>5, <1>6

\* Power is lost: the memory becomes what was durable.  Recovery then changes
\* nothing of the store, although it may be interrupted and started again.
LEMMA BootRefines ==
  ASSUME IInv, IInv'
  PROVE  /\ Crash => Recovered' = Recovered /\ Mem' = Recovered /\ Active' = {}
         /\ Recover => Stutters
<1>1. TypeOK /\ TypeOK'
  BY DEF IInv
<1>2. ASSUME Crash PROVE Recovered' = Recovered /\ Mem' = Recovered /\ Active' = {}
  <2>1. Recovered' = Recovered
    BY <1>2 DEF Crash, disk, Recovered
  <2>. QED BY <1>2, <2>1 DEF Crash, Mem, Active
<1>3. ASSUME ReadHead PROVE Stutters
  <2>1. /\ boot = "read_head" /\ boot' = "install"
        /\ UNCHANGED <<home, logb, head, cache, pc>>
    BY <1>3 DEF ReadHead, disk, buffers
  <2>2. Recovered' = Recovered
    BY <2>1 DEF Recovered
  <2>. QED BY <2>1, <2>2 DEF Stutters, Mem, Active
<1>4. ASSUME RecoverInstall PROVE Stutters
  <2>1. /\ boot = "install" /\ boot' = "install" /\ tail \in DOMAIN lh
        /\ home' = [home EXCEPT ![lh[tail]] = logb[tail]]
        /\ UNCHANGED <<logb, head, pc>>
    BY <1>1, <1>4, SeqFacts DEF RecoverInstall, InstallBlock, TypeOK
  <2>2. head = lh
    BY <2>1 DEF IInv, Booting
  <2>3. \A b \in Blocks : (\A i \in DOMAIN head : head[i] # b) => home'[b] = home[b]
    BY <1>1, <2>1, <2>2 DEF TypeOK
  <2>4. Recovered' = Recovered
    BY <2>1, <2>3 DEF Recovered
  <2>. QED BY <2>1, <2>4 DEF Stutters, Mem, Active
<1>5. ASSUME RecoverClear PROVE Stutters
  <2>1. /\ boot = "install" /\ boot' = "up" /\ tail > Len(lh) /\ head' = <<>>
        /\ UNCHANGED <<home, cache, pc>>
    BY <1>5 DEF RecoverClear, buffers
  <2>2. /\ head = lh /\ cache = home /\ \A i \in DOMAIN lh : home[lh[i]] = logb[i]
    BY <1>1, <2>1, SeqFacts DEF IInv, Booting, TypeOK
  <2>3. \A b \in Blocks : Recovered[b] = home[b]
    BY <2>2, RecoveredIs
  <2>4. Recovered = home
    BY <1>1, <2>3, RecoveredIs DEF TypeOK
  <2>5. Recovered' = [b \in Blocks |-> home[b]]
    BY <2>1, SeqFacts DEF Recovered
  <2>. QED BY <1>1, <2>1, <2>2, <2>4, <2>5 DEF Stutters, Mem, Active, TypeOK
<1>. QED BY <1>2, <1>3, <1>4, <1>5 DEF Recover

\* Every step of the log is a step of the store or changes nothing of it.
LEMMA NextStore ==
  ASSUME LogHasRoom, IInv, IInv', [Next]_vars
  PROVE  [Store!Next]_(Store!store)
<1> USE DEF Mem, Active
<1>1. ASSUME Stutters PROVE UNCHANGED Store!store
  BY <1>1 DEF Stutters, Store!store
<1>2. ASSUME UNCHANGED vars PROVE UNCHANGED Store!store
  BY <1>2 DEF vars, Store!store, Recovered
<1>3. ASSUME NEW o \in Ops, BeginOp(o) PROVE Store!Next
  BY <1>3, CallRefines DEF Store!Next, Store!Begin
<1>4. ASSUME NEW o \in Ops, NEW b \in Blocks, Modify(o, b) PROVE Store!Next
  BY <1>4, CallRefines DEF Store!Next, Store!Write
<1>5. ASSUME NEW o \in Ops, EndOp(o) PROVE Store!Next
  BY <1>5, CallRefines DEF Store!Next, Store!End
<1>6. ASSUME NEW o \in Ops, WriteHead(o) PROVE Store!Next
  BY <1>6, CommitRefines DEF Store!Next, Store!Commit
<1>7. ASSUME Crash PROVE Store!Next
  BY <1>7, BootRefines DEF Store!Next, Store!Crash
<1>8. ASSUME NEW o \in Ops, BeginCall(o) \/ BeginSleep(o) \/ LogWrite(o) PROVE UNCHANGED Store!store
  BY <1>1, <1>8, CallRefines
<1>9. ASSUME NEW o \in Ops, WriteLog(o) \/ InstallTrans(o) \/ ClearHead(o) \/ EndCommit(o)
      PROVE  UNCHANGED Store!store
  BY <1>1, <1>9, CommitRefines
<1>10. ASSUME NEW b \in Blocks, Evict(b) PROVE UNCHANGED Store!store
  BY <1>2, <1>10, EvictIsStutter
<1>11. ASSUME Recover PROVE UNCHANGED Store!store
  BY <1>1, <1>11, BootRefines
<1>. QED BY <1>2, <1>3, <1>4, <1>5, <1>6, <1>7, <1>8, <1>9, <1>10, <1>11 DEF Next, Commit

\* When the log has room for what the calls write, it implements an atomic store:
\* calls that commit together are durable together, and a crash, also during the
\* commit or the recovery, leaves all or nothing of them (log.c:10-18).
THEOREM LogImplementsStore == ASSUME LogHasRoom PROVE Spec => ImplementsStore
<1>1. Init => IInv
  BY InitIInv
<1>2. IInv /\ [Next]_vars => IInv'
  BY NextIInv
<1>3. Init => Store!Init
  BY InitStore
<1>4. IInv /\ IInv' /\ [Next]_vars => [Store!Next]_(Store!store)
  BY NextStore
<1>. QED BY <1>1, <1>2, <1>3, <1>4, PTL DEF Spec, ImplementsStore, Store!Spec

=============================================================================
