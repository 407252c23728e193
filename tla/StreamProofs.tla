---------------------------- MODULE StreamProofs -----------------------------
(***************************************************************************)
(* Theorems about Stream: nobody sleeps on the console or on the pipe that *)
(* could go on, an end of file is the end, and the two bounded buffers     *)
(* implement the terminal and the channel a program is promised, whatever  *)
(* the sizes of the buffers, the width of the counters, the number of      *)
(* shells and the bytes read at a time.                                    *)
(***************************************************************************)
EXTENDS Stream, FiniteSetTheorems, TLAPS

-----------------------------------------------------------------------------
(* Remainders *)

\* A number has one remainder.
LEMMA OneRemainder ==
  ASSUME NEW m \in Nat, m > 0, NEW j \in Int, NEW k \in Int,
         NEW a \in 0..(m - 1), NEW b \in 0..(m - 1), m * j + a = m * k + b
  PROVE  a = b
<1> DEFINE u == m * j
           v == m * k
<1>1. u \in Int /\ v \in Int /\ u + a = v + b
  OBVIOUS
<1>2. j < k => u + m <= v
  <2>1. SUFFICES ASSUME j < k PROVE u + m <= v
    OBVIOUS
  <2>2. m * (j + 1) <= m * k
    BY <2>1
  <2>3. m * (j + 1) = u + m
    OBVIOUS
  <2>. QED BY <2>2, <2>3
<1>3. k < j => v + m <= u
  <2>1. SUFFICES ASSUME k < j PROVE v + m <= u
    OBVIOUS
  <2>2. m * (k + 1) <= m * j
    BY <2>1
  <2>3. m * (k + 1) = v + m
    OBVIOUS
  <2>. QED BY <2>2, <2>3
<1>4. j = k => u = v
  OBVIOUS
<1> HIDE DEF u, v
<1>. QED BY <1>1, <1>2, <1>3, <1>4

\* What it is.
LEMMA RemainderIs ==
  ASSUME NEW m \in Nat, m > 0, NEW x \in Int
  PROVE  x % m \in 0..(m - 1) /\ x \div m \in Int /\ x = m * (x \div m) + (x % m)
OBVIOUS

\* A remainder is known by its place between two multiples.
LEMMA RemainderOf ==
  ASSUME NEW m \in Nat, m > 0, NEW k \in Int, NEW a \in 0..(m - 1)
  PROVE  (m * k + a) % m = a
<1> DEFINE x == m * k + a
           b == x % m
           j == x \div m
<1>1. x \in Int
  OBVIOUS
<1>2. b \in 0..(m - 1) /\ j \in Int /\ x = m * j + b
  <2> HIDE DEF x
  <2>. QED BY <1>1, RemainderIs
<1>3. m * j + b = m * k + a
  BY <1>2
<1> HIDE DEF x, j
<1>4. b \in 0..(m - 1)
  BY <1>2
<1> HIDE DEF b
<1>5. b = a
  BY <1>2, <1>3, <1>4, OneRemainder
<1>. QED BY <1>5 DEF b, x

\* Adding a multiple changes no remainder.
LEMMA RemainderShift ==
  ASSUME NEW m \in Nat, m > 0, NEW x \in Int, NEW k \in Int
  PROVE  (m * k + x) % m = x % m
<1> DEFINE a == x % m
           j == x \div m
<1>1. a \in 0..(m - 1) /\ j \in Int /\ x = m * j + a
  BY RemainderIs
<1>2. m * k + x = m * (k + j) + a
  <2>1. m * (k + j) = m * k + m * j
    BY <1>1
  <2> HIDE DEF a, j
  <2>2. m * k \in Int /\ m * j \in Int /\ m * (k + j) \in Int
    BY <1>1
  <2>. QED BY <1>1, <2>1, <2>2
<1>3. (m * (k + j) + a) % m = a
  <2>1. k + j \in Int
    BY <1>1
  <2> HIDE DEF a, j
  <2>. QED BY <1>1, <2>1, RemainderOf
<1>. QED BY <1>2, <1>3 DEF a

\* The remainder of a sum is that of the remainder and the rest.
LEMMA RemainderSum ==
  ASSUME NEW m \in Nat, m > 0, NEW x \in Int, NEW y \in Int
  PROVE  ((x % m) + y) % m = (x + y) % m /\ (y - (x % m)) % m = (y - x) % m
<1> DEFINE a == x % m
           j == x \div m
           p == m * j
<1>1. a \in Int /\ j \in Int /\ x = m * j + a
  BY RemainderIs
<1>2. p \in Int /\ x = p + a /\ m * (-j) = -p
  BY <1>1
<1>3. (m * j + (a + y)) % m = (a + y) % m
  <2>1. a + y \in Int
    BY <1>1
  <2> HIDE DEF a, j
  <2>. QED BY <1>1, <2>1, RemainderShift
<1>4. (m * (-j) + (y - a)) % m = (y - a) % m
  <2>1. -j \in Int /\ y - a \in Int
    BY <1>1
  <2> HIDE DEF a, j
  <2>. QED BY <2>1, RemainderShift
<1>5. x + y = p + (a + y) /\ y - x = (-p) + (y - a)
  <2> HIDE DEF a, p
  <2>. QED BY <1>1, <1>2
<1>. QED BY <1>2, <1>3, <1>4, <1>5 DEF a, p

\* So is the remainder of a remainder by a multiple.
LEMMA RemainderOfRemainder ==
  ASSUME NEW n \in Nat, n > 0, NEW m \in Nat, m > 0, m % n = 0, NEW x \in Int
  PROVE  (x % m) % n = x % n
<1> DEFINE a == x % m
           j == x \div m
           c == m \div n
<1>1. a \in Int /\ j \in Int /\ x = m * j + a
  BY RemainderIs
<1>2. c \in Int /\ m = n * c
  <2>1. m = n * c + (m % n) /\ c \in Int
    BY RemainderIs
  <2>2. n * c \in Int
    BY <2>1
  <2>. QED BY <2>1, <2>2
<1>3. m * j = n * (c * j) /\ c * j \in Int
  <2> HIDE DEF c, j, a
  <2>1. c * j \in Int
    BY <1>1, <1>2
  <2>2. (n * c) * j = n * (c * j)
    BY <1>1, <1>2
  <2>. QED BY <1>2, <2>1, <2>2
<1>4. (n * (c * j) + a) % n = a % n
  <2> DEFINE k == c * j
  <2>1. k \in Int
    BY <1>3
  <2> HIDE DEF k, a
  <2>2. (n * k + a) % n = a % n
    BY <1>1, <2>1, RemainderShift
  <2>. QED BY <2>2 DEF k
<1>. QED BY <1>1, <1>3, <1>4 DEF a

\* Less than one modulus apart, numbers with one remainder are equal.
LEMMA SameRemainder ==
  ASSUME NEW m \in Nat, m > 0, NEW x \in Int, NEW y \in Int,
         x % m = y % m, x - y < m, y - x < m
  PROVE  x = y
<1> DEFINE j == x \div m
           k == y \div m
           a == x % m
           u == m * j
           v == m * k
<1>1. j \in Int /\ k \in Int /\ a \in Int /\ x = u + a /\ y = v + a /\ u \in Int /\ v \in Int
  <2>1. j \in Int /\ k \in Int /\ a \in Int /\ x = u + a /\ y = v + a
    BY RemainderIs
  <2>. QED BY <2>1
<1>2. j < k => u + m <= v
  <2>1. SUFFICES ASSUME j < k PROVE u + m <= v
    OBVIOUS
  <2> HIDE DEF j, k
  <2>2. m * (j + 1) <= m * k
    BY <1>1, <2>1
  <2>3. m * (j + 1) = u + m
    BY <1>1
  <2>. QED BY <2>2, <2>3
<1>3. k < j => v + m <= u
  <2>1. SUFFICES ASSUME k < j PROVE v + m <= u
    OBVIOUS
  <2> HIDE DEF j, k
  <2>2. m * (k + 1) <= m * j
    BY <1>1, <2>1
  <2>3. m * (k + 1) = v + m
    BY <1>1
  <2>. QED BY <2>2, <2>3
<1> HIDE DEF j, k, a
<1>4. j = k => u = v
  OBVIOUS
<1> HIDE DEF u, v
<1>. QED BY <1>1, <1>2, <1>3, <1>4

-----------------------------------------------------------------------------
(* Counters that wrap around *)

\* The sizes, as the proofs use them.
LEMMA Sizes ==
  /\ UINT \in Nat /\ UINT > 0 /\ target \in Nat /\ target > 0 /\ WcN \in Nat /\ WcN > 0
  /\ INPUT_BUF \in Nat /\ INPUT_BUF > 0 /\ UINT % INPUT_BUF = 0 /\ INPUT_BUF < UINT
  /\ PIPESIZE \in Nat /\ PIPESIZE > 0 /\ UINT % PIPESIZE = 0 /\ PIPESIZE < UINT
BY ConsoleAssumption, PipeAssumption, StreamAssumption

Counter == 0..(UINT - 1)

\* A counter that is advanced or set back is a counter.
LEMMA CounterType ==
  ASSUME NEW x \in Int, NEW k \in Int
  PROVE  Plus(x, k) \in Counter /\ Minus(x, k) \in Counter
<1>1. x + k \in Int /\ x - k \in Int
  OBVIOUS
<1>. QED BY <1>1, Sizes, RemainderIs DEF Plus, Minus, Counter

\* A counter is its own remainder.
LEMMA CounterSelf ==
  ASSUME NEW x \in Counter
  PROVE  x % UINT = x /\ Plus(x, 0) = x
<1>1. x % UINT = x
  <2>1. x \in 0..(UINT - 1) /\ 0 \in Int
    BY DEF Counter
  <2>2. (UINT * 0 + x) % UINT = x
    BY <2>1, Sizes, RemainderOf
  <2>. QED BY <2>1, <2>2, Sizes
<1>2. x + 0 = x
  BY Sizes DEF Counter
<1>. QED BY <1>1, <1>2 DEF Plus

\* Two steps are one.
LEMMA PlusPlus ==
  ASSUME NEW x \in Int, NEW i \in Int, NEW j \in Int
  PROVE  /\ Plus(Plus(x, i), j) = Plus(x, i + j)
         /\ Minus(Plus(x, i), j) = Plus(x, i - j)
<1>1. x + i \in Int /\ -j \in Int
  OBVIOUS
<1>2. (((x + i) % UINT) + j) % UINT = ((x + i) + j) % UINT
  BY <1>1, Sizes, RemainderSum
<1>3. (((x + i) % UINT) + (-j)) % UINT = ((x + i) + (-j)) % UINT
  BY <1>1, Sizes, RemainderSum
<1>4. (x + i) % UINT \in Int
  BY <1>1, Sizes, RemainderIs
<1>5. ((x + i) % UINT) + (-j) = ((x + i) % UINT) - j
  <2> DEFINE a == (x + i) % UINT
  <2>1. a \in Int
    BY <1>4
  <2> HIDE DEF a
  <2>2. a + (-j) = a - j
    BY <2>1
  <2>. QED BY <2>2 DEF a
<1>6. (x + i) + j = x + (i + j) /\ (x + i) + (-j) = x + (i - j)
  OBVIOUS
<1>. QED BY <1>2, <1>3, <1>5, <1>6 DEF Plus, Minus

\* The distance of two counters leads from one to the other.
LEMMA DistanceLeads ==
  ASSUME NEW x \in Counter, NEW y \in Counter
  PROVE  Plus(x, Minus(y, x)) = y
<1>1. x \in Int /\ y \in Int /\ y - x \in Int
  BY Sizes DEF Counter
<1>2. (((y - x) % UINT) + x) % UINT = ((y - x) + x) % UINT
  BY <1>1, Sizes, RemainderSum
<1>3. (y - x) % UINT \in Int
  BY <1>1, Sizes, RemainderIs
<1>4. ((y - x) % UINT) + x = x + ((y - x) % UINT)
  <2> DEFINE a == (y - x) % UINT
  <2>1. a \in Int
    BY <1>3
  <2> HIDE DEF a
  <2>2. a + x = x + a
    BY <1>1, <2>1
  <2>. QED BY <2>2 DEF a
<1>5. (y - x) + x = y
  BY <1>1
<1>. QED BY <1>2, <1>4, <1>5, CounterSelf DEF Plus, Minus

\* Two places after x are as far apart as the steps to them.
LEMMA Distance ==
  ASSUME NEW x \in Int, NEW i \in Int, NEW j \in Int, i <= j, j - i < UINT
  PROVE  Minus(Plus(x, j), Plus(x, i)) = j - i
<1>1. x + j \in Int /\ x + i \in Int /\ j - i \in 0..(UINT - 1)
  BY Sizes
<1> DEFINE a == (x + i) % UINT
           b == (x + j) % UINT
<1>2. a \in Int /\ b \in Int
  BY <1>1, Sizes, RemainderIs
<1>3. -a \in Int
  BY <1>2
<1>4. (b + (-a)) % UINT = ((x + j) + (-a)) % UINT
  <2>1. \A u, v \in Int : ((u % UINT) + v) % UINT = (u + v) % UINT
    BY Sizes, RemainderSum
  <2> HIDE DEF a
  <2>. QED BY <2>1, <1>1, <1>3
<1>5. ((x + j) - a) % UINT = ((x + j) - (x + i)) % UINT
  <2>1. \A u, v \in Int : (v - (u % UINT)) % UINT = (v - u) % UINT
    BY Sizes, RemainderSum
  <2>. QED BY <2>1, <1>1
<1> HIDE DEF a, b
<1>6. b + (-a) = b - a /\ (x + j) + (-a) = (x + j) - a /\ (x + j) - (x + i) = j - i
  BY <1>2, <1>1
<1>7. (b - a) % UINT = (j - i) % UINT
  BY <1>4, <1>5, <1>6
<1>8. j - i \in Counter
  BY <1>1 DEF Counter
<1>9. (j - i) % UINT = j - i
  BY <1>8, CounterSelf
<1>. QED BY <1>7, <1>9 DEF Minus, Plus, a, b

\* From a counter itself.
LEMMA DistanceFrom ==
  ASSUME NEW x \in Counter, NEW j \in Counter
  PROVE  Minus(Plus(x, j), x) = j
<1>1. x \in Int /\ j \in Int /\ 0 \in Int /\ 0 <= j /\ j - 0 < UINT /\ j - 0 = j
  BY Sizes DEF Counter
<1>2. Minus(Plus(x, j), Plus(x, 0)) = j - 0
  BY <1>1, Distance
<1>. QED BY <1>1, <1>2, CounterSelf

\* Two counters are equal when their distance is none.
LEMMA DistanceNone ==
  ASSUME NEW x \in Counter, NEW y \in Counter
  PROVE  x = y <=> Minus(y, x) = 0
<1>1. 0 \in Counter
  BY Sizes DEF Counter
<1>2. x = y => Minus(y, x) = 0
  BY <1>1, DistanceFrom, CounterSelf
<1>3. Minus(y, x) = 0 => x = y
  BY DistanceLeads, CounterSelf
<1>. QED BY <1>2, <1>3

-----------------------------------------------------------------------------
(* The cells of a ring of m bytes *)

\* A ring whose size divides the range of the counters.
Ring(m) == m \in Nat /\ m > 0 /\ UINT % m = 0 /\ m < UINT

\* The cell of a place.
LEMMA CellOf ==
  ASSUME NEW m, Ring(m), NEW x \in Int, NEW i \in Int
  PROVE  Plus(x, i) % m = (x + i) % m /\ Plus(x, i) % m \in 0..(m - 1)
<1>1. x + i \in Int
  OBVIOUS
<1>2. ((x + i) % UINT) % m = (x + i) % m
  BY <1>1, Sizes, RemainderOfRemainder DEF Ring
<1>3. (x + i) % m \in 0..(m - 1)
  BY <1>1, RemainderIs DEF Ring
<1>. QED BY <1>2, <1>3 DEF Plus

\* Places less than a round apart have cells of their own.
LEMMA CellsApart ==
  ASSUME NEW m, Ring(m), NEW x \in Int, NEW i \in Int, NEW j \in Int,
         i - j < m, j - i < m, Plus(x, i) % m = Plus(x, j) % m
  PROVE  i = j
<1>1. x + i \in Int /\ x + j \in Int /\ (x + i) - (x + j) < m /\ (x + j) - (x + i) < m
  BY DEF Ring
<1>2. (x + i) % m = (x + j) % m
  BY CellOf
<1>3. x + i = x + j
  BY <1>1, <1>2, SameRemainder DEF Ring
<1>. QED BY <1>3

\* How far the cell of one place is from another place.
LEMMA CellDistance ==
  ASSUME NEW m, Ring(m), NEW x \in Int, NEW i \in Int, NEW n \in Int,
         n <= i, i < n + m
  PROVE  Minus(Plus(x, i) % m, Plus(x, n)) % m = i - n
<1> DEFINE c == (x + i) % m
           b == (x + n) % UINT
<1>1. x + i \in Int /\ x + n \in Int /\ i - n \in Int /\ i - n \in 0..(m - 1)
  BY DEF Ring
<1>2. c \in Int /\ b \in Int
  BY <1>1, RemainderIs, Sizes DEF Ring
<1>3. Minus(Plus(x, i) % m, Plus(x, n)) % m = (c - b) % m
  <2>1. Minus(Plus(x, i) % m, Plus(x, n)) = (c - b) % UINT
    BY CellOf DEF Minus, Plus
  <2>2. c - b \in Int
    <3> HIDE DEF c, b
    <3>. QED BY <1>2
  <2> HIDE DEF c, b
  <2>3. ((c - b) % UINT) % m = (c - b) % m
    BY <2>2, Sizes, RemainderOfRemainder DEF Ring
  <2>. QED BY <2>1, <2>3
<1>4. \A u, v \in Int : ((u % m) + v) % m = (u + v) % m /\ (v - (u % m)) % m = (v - u) % m
  BY RemainderSum DEF Ring
<1>5. (c - b) % m = (c - (b % m)) % m
  <2> HIDE DEF c, b
  <2>. QED BY <1>2, <1>4
<1>6. b % m = (x + n) % m
  BY <1>1, Sizes, RemainderOfRemainder DEF Ring
<1>7. (c - ((x + n) % m)) % m = (c - (x + n)) % m
  <2> HIDE DEF c
  <2>. QED BY <1>1, <1>2, <1>4
<1>8. (c + (-(x + n))) % m = ((x + i) + (-(x + n))) % m
  <2>1. -(x + n) \in Int
    BY <1>1
  <2>. QED BY <1>1, <1>4, <2>1
<1>9. c - (x + n) = c + (-(x + n)) /\ (x + i) + (-(x + n)) = i - n
  <2> HIDE DEF c
  <2>. QED BY <1>1, <1>2
<1>10. (i - n) % m = i - n
  <2> DEFINE d == i - n
  <2>1. d \in 0..(m - 1) /\ d \in Int
    BY <1>1
  <2> HIDE DEF d
  <2>2. (m * 0 + d) % m = d
    BY <2>1, RemainderOf DEF Ring
  <2>3. m * 0 + d = d
    BY <2>1 DEF Ring
  <2>4. d % m = d
    BY <2>2, <2>3
  <2>. QED BY <2>4 DEF d
<1> HIDE DEF c, b
<1>. QED BY <1>3, <1>5, <1>6, <1>7, <1>8, <1>9, <1>10

\* Every cell is that of one of the next m places.
LEMMA CellPlace ==
  ASSUME NEW m, Ring(m), NEW x \in Int, NEW c \in 0..(m - 1)
  PROVE  \E i \in 0..(m - 1) : Plus(x, i) % m = c
<1> DEFINE i == (c - x) % m
<1>1. c \in Int /\ c - x \in Int
  BY DEF Ring
<1>2. i \in 0..(m - 1)
  BY <1>1, RemainderIs DEF Ring
<1>3. i \in Int
  BY <1>2
<1>4. \A u, v \in Int : ((u % m) + v) % m = (u + v) % m
  BY RemainderSum DEF Ring
<1>5. (i + x) % m = ((c - x) + x) % m
  BY <1>1, <1>4
<1> HIDE DEF i
<1>6. i + x = x + i /\ (c - x) + x = c
  BY <1>1, <1>3
<1>7. c % m = c
  <2>1. (m * 0 + c) % m = c
    BY RemainderOf DEF Ring
  <2>2. m * 0 + c = c
    BY <1>1 DEF Ring
  <2>. QED BY <2>1, <2>2
<1>8. Plus(x, i) % m = c
  BY <1>3, <1>5, <1>6, <1>7, CellOf
<1>. QED BY <1>2, <1>8

-----------------------------------------------------------------------------
(* The invariant *)

Byte == Chars \cup {Blank, Empty}

StreamTypes ==
  /\ buf \in [0..(INPUT_BUF - 1) -> Chars \cup {Blank}]
  /\ r \in Counter /\ w \in Counter /\ e \in Counter
  /\ left \in [Tasks -> Nat]
  /\ data \in [0..(PIPESIZE - 1) -> Byte]
  /\ nread \in Counter /\ nwrite \in Counter
  /\ readopen \in BOOLEAN /\ writeopen \in BOOLEAN
  /\ ref \in [{"read", "write"} -> Nat]
  /\ kfreed \in {0, 1}
  /\ pc \in [Tasks -> Places] /\ killed \in [Tasks -> BOOLEAN]
  /\ ubuf \in [Tasks -> Seq(Byte)]

\* Who is where: only cat reads the console and writes, only wc reads the pipe.
Leaving == {"close", "pipeclose", "exited"}
Reading == {"con_read", "con_sleep", "con_asleep", "con_copy"}
Whereabouts ==
  /\ pc[Cat] \in Reading \cup Leaving \cup
       {"user", "con_done", "con_failed", "pw", "pw_sleep", "pw_asleep", "pw_done", "pw_failed"}
  /\ pc[Wc] \in Leaving \cup {"user", "pr", "pr_sleep", "pr_asleep", "pr_done", "pr_failed"}
  /\ \A p \in Shells : pc[p] \in Leaving

\* A read has room for what it may still take.
Buffers ==
  /\ Len(ubuf[Cat]) <= target /\ Len(ubuf[Wc]) <= WcN
  /\ \A p \in Shells : ubuf[p] = <<>>
  /\ pc[Cat] \in Reading => left[Cat] > 0 /\ Len(ubuf[Cat]) + left[Cat] = target

\* The last to close an end finds the others gone, and the end open.
Holding(S) == {p \in S : pc[p] \notin {"pipeclose", "exited"}}
EndInv(S, n, open) ==
  /\ n = Cardinality(Holding(S))
  /\ \A p \in S : pc[p] = "pipeclose" => \A q \in S \ {p} : pc[q] = "exited"
  /\ open <=> \E p \in S : pc[p] # "exited"
Ends ==
  /\ EndInv(Readers, ref["read"], readopen)
  /\ EndInv(Writers, ref["write"], writeopen)
  /\ kfreed = IF readopen \/ writeopen THEN 0 ELSE 1

\* What is in the input buffer: bytes submitted, bytes typed, and the byte after
\* k others.
Submitted == Minus(w, r)
Typed == Minus(e, r)
InputByte(k) == buf[Plus(r, k) % INPUT_BUF]

\* The line starts where what was submitted ends, and both fit; a line that is
\* still edited holds no byte that would have submitted it.
Lines ==
  /\ Submitted <= Typed /\ Typed <= INPUT_BUF
  /\ \A k \in Submitted..(Typed - 1) : InputByte(k) \notin {NewLine, CtrlD}

\* The byte of the pipe after k others.
PipeByte(k) == data[Plus(nread, k) % PIPESIZE]

\* The pipe never holds more than its cells.
Fits == Stored <= PIPESIZE

\* The places of who sleeps on the pipe.
Sleeping == {"pr_sleep", "pr_asleep", "pw_sleep", "pw_asleep"}

\* Nobody sleeps, or is about to, on a device that it could go on with; the lock
\* keeps it so until the sleep.
InputQuiet == \A p \in Tasks : pc[p] \in {"con_sleep", "con_asleep"} => r = w
PipeQuiet == \A p \in Tasks :
  /\ pc[p] \in {"pw_sleep", "pw_asleep"} => Stored = PIPESIZE /\ readopen
  /\ pc[p] \in {"pr_sleep", "pr_asleep"} =>
       /\ writeopen
       /\ Stored = 0 \/ (Stored = PIPESIZE /\ \E q \in Writers : GaveUp(q))

IInv ==
  /\ StreamTypes /\ Whereabouts /\ Buffers /\ Ends /\ Lines
  /\ Fits
  /\ InputQuiet /\ PipeQuiet /\ EofIsFinal

-----------------------------------------------------------------------------
(* What the invariant says of a process *)

\* Only cat and wc are anywhere but on their way out.
LEMMA Who ==
  ASSUME StreamTypes, Whereabouts, NEW p \in Tasks
  PROVE  /\ pc[p] \in Reading \cup {"con_done", "con_failed", "pw", "pw_sleep", "pw_asleep",
                                   "pw_done", "pw_failed"} => p = Cat
         /\ pc[p] \in {"pr", "pr_sleep", "pr_asleep", "pr_done", "pr_failed"} => p = Wc
         /\ pc[p] \notin Leaving => p \in {Cat, Wc}
<1>1. p = Cat \/ p = Wc \/ p \in Shells
  BY StreamAssumption
<1>. QED BY <1>1 DEF Whereabouts, Reading, Leaving

\* The processes of the two ends.
LEMMA TheTasks ==
  /\ Cat \in Tasks /\ Wc \in Tasks /\ Cat # Wc
  /\ Cat \in Writers /\ Wc \in Readers /\ Cat \notin Readers /\ Wc \notin Writers
  /\ Shells \subseteq Tasks /\ Cat \notin Shells /\ Wc \notin Shells
  /\ Writers \subseteq Tasks /\ Readers \subseteq Tasks
  /\ \A p \in Tasks : p \in {Cat, Wc} \cup Shells /\ (p \in Readers <=> p \notin Writers)
BY StreamAssumption, PipeAssumption

\* A wakeup moves who sleeps at the place, and nobody else.
LEMMA WokenIs ==
  ASSUME NEW q \in Tasks
  PROVE  /\ Woken("con_asleep")[q] = IF pc[q] = "con_asleep" THEN "con_read" ELSE pc[q]
         /\ Woken("pr_asleep")[q] = IF pc[q] = "pr_asleep" THEN "pr" ELSE pc[q]
         /\ Woken("pw_asleep")[q] = IF pc[q] = "pw_asleep" THEN "pw" ELSE pc[q]
BY DEF Woken, Resume

\* A wakeup and a step of p keep the places of the program.
LEMMA WokenType ==
  ASSUME StreamTypes, NEW p \in Tasks, NEW to \in Places,
         NEW place \in {"con_asleep", "pr_asleep", "pw_asleep"}
  PROVE  /\ Woken(place) \in [Tasks -> Places]
         /\ [Woken(place) EXCEPT ![p] = to] \in [Tasks -> Places]
         /\ \A q \in Tasks : [Woken(place) EXCEPT ![p] = to][q] =
              IF q = p THEN to ELSE Woken(place)[q]
<1>1. ASSUME NEW q \in Tasks PROVE Woken(place)[q] \in Places
  <2>1. pc[q] \in Places
    BY DEF StreamTypes
  <2>2. Woken(place)[q] \in {"con_read", "pr", "pw", pc[q]}
    BY WokenIs
  <2>. QED BY <2>1, <2>2 DEF Places
<1>2. Woken(place) = [q \in Tasks |-> Woken(place)[q]]
  BY DEF Woken
<1>3. Woken(place) \in [Tasks -> Places]
  BY <1>1, <1>2
<1>. QED BY <1>3

\* A page is freed when both ends are closed, and then everybody has gone.
LEMMA ClosedMeansGone ==
  ASSUME Ends
  PROVE  /\ ~writeopen => \A p \in Writers : pc[p] = "exited"
         /\ ~readopen => \A p \in Readers : pc[p] = "exited"
         /\ FreedWhenUnused
<1>1. (~writeopen => \A p \in Writers : pc[p] = "exited") /\ (~readopen => \A p \in Readers : pc[p] = "exited")
  BY DEF Ends, EndInv
<1>2. kfreed > 0 => ~readopen /\ ~writeopen
  BY DEF Ends
<1>. QED BY <1>1, <1>2 DEF FreedWhenUnused

-----------------------------------------------------------------------------
(* What a step keeps that does not touch it *)

\* Who closes and who has gone is the same.
StayAway == \A p \in Tasks :
  /\ pc'[p] = "exited" <=> pc[p] = "exited"
  /\ pc'[p] = "pipeclose" <=> pc[p] = "pipeclose"

\* The ends are kept by a step that closes nothing.
LEMMA EndsKept ==
  ASSUME Ends, StayAway, UNCHANGED <<ref, readopen, writeopen, kfreed>>
  PROVE  Ends'
<1>1. ASSUME NEW S, S \subseteq Tasks, NEW n, NEW open, EndInv(S, n, open)
      PROVE  EndInv(S, n, open)'
  <2>1. \A p \in S : (pc'[p] = "exited" <=> pc[p] = "exited") /\ (pc'[p] = "pipeclose" <=> pc[p] = "pipeclose")
    BY <1>1 DEF StayAway
  <2>2. {p \in S : pc'[p] \notin {"pipeclose", "exited"}} = {p \in S : pc[p] \notin {"pipeclose", "exited"}}
    BY <2>1
  <2>. QED BY <1>1, <2>1, <2>2 DEF EndInv, Holding
<1>2. EndInv(Readers, ref["read"], readopen)' /\ EndInv(Writers, ref["write"], writeopen)'
  BY <1>1, TheTasks DEF Ends
<1>. QED BY <1>2 DEF Ends

-----------------------------------------------------------------------------
(* What the console's steps do to the bytes of its buffer *)

\* Both counters as steps from r.
LEMMA InputPlaces ==
  ASSUME StreamTypes, Lines
  PROVE  /\ r \in Counter /\ r \in Int /\ Ring(INPUT_BUF)
         /\ Submitted \in 0..INPUT_BUF /\ Typed \in 0..INPUT_BUF /\ Submitted <= Typed
         /\ w = Plus(r, Submitted) /\ e = Plus(r, Typed)
         /\ r = w <=> Submitted = 0
         /\ e = w <=> Typed = Submitted
<1>1. r \in Counter /\ w \in Counter /\ e \in Counter /\ r \in Int /\ w \in Int /\ e \in Int
  BY Sizes DEF StreamTypes, Counter
<1>2. Submitted \in Counter /\ Typed \in Counter
  BY <1>1, CounterType DEF Submitted, Typed
<1>3. Submitted \in 0..INPUT_BUF /\ Typed \in 0..INPUT_BUF /\ Submitted <= Typed
  BY <1>2, Sizes DEF Lines, Counter
<1>4. w = Plus(r, Submitted) /\ e = Plus(r, Typed)
  BY <1>1, DistanceLeads DEF Submitted, Typed
<1>5. r = w <=> Submitted = 0
  BY <1>1, DistanceNone DEF Submitted
<1>6. e = w <=> Typed = Submitted
  BY <1>4 DEF Submitted, Typed
<1>7. Ring(INPUT_BUF)
  BY Sizes DEF Ring
<1>. QED BY <1>1, <1>3, <1>4, <1>5, <1>6, <1>7

\* Where a step from r leads, and what is there.
LEMMA InputSteps ==
  ASSUME StreamTypes, Lines, NEW i \in 0..INPUT_BUF, NEW j \in 0..INPUT_BUF
  PROVE  /\ Plus(r, i) \in Counter /\ Minus(Plus(r, i), r) = i
         /\ Plus(r, i) = Plus(r, j) => i = j
         /\ Plus(r, i) % INPUT_BUF \in 0..(INPUT_BUF - 1)
         /\ i < INPUT_BUF /\ j < INPUT_BUF /\ i # j => Plus(r, i) % INPUT_BUF # Plus(r, j) % INPUT_BUF
<1>1. i \in Counter /\ j \in Counter /\ i \in Int /\ j \in Int
  BY Sizes DEF Counter
<1>2. r \in Counter /\ r \in Int /\ Ring(INPUT_BUF)
  BY InputPlaces
<1>3. Minus(Plus(r, i), r) = i /\ Minus(Plus(r, j), r) = j
  BY <1>1, <1>2, DistanceFrom
<1>4. Plus(r, i) \in Counter /\ Plus(r, i) % INPUT_BUF \in 0..(INPUT_BUF - 1)
  BY <1>1, <1>2, CounterType, CellOf
<1>5. ASSUME i < INPUT_BUF, j < INPUT_BUF, Plus(r, i) % INPUT_BUF = Plus(r, j) % INPUT_BUF
      PROVE  i = j
  <2>1. i - j < INPUT_BUF /\ j - i < INPUT_BUF
    BY <1>5, Sizes
  <2>. QED BY <1>1, <1>2, <1>5, <2>1, CellsApart
<1>. QED BY <1>3, <1>4, <1>5

\* A key adds a byte, and submits the line when it ends it or fills the buffer.
LEMMA TypeCharMoves ==
  ASSUME StreamTypes, Lines, NEW c \in Chars, TypeChar(c)
  PROVE  /\ Typed < INPUT_BUF /\ Typed' = Typed + 1
         /\ Submits(c) <=> c \in {NewLine, CtrlD} \/ Typed + 1 = INPUT_BUF
         /\ Submitted' = IF Submits(c) THEN Typed + 1 ELSE Submitted
         /\ \A k \in 0..Typed : InputByte(k)' = IF k = Typed THEN c ELSE InputByte(k)
<1> DEFINE n == Typed
<1>1. n \in 0..INPUT_BUF /\ n < INPUT_BUF /\ n + 1 \in 0..INPUT_BUF /\ n \in Int
  BY InputPlaces, Sizes DEF TypeChar, HasRoom, Typed
<1>2. e = Plus(r, n) /\ r \in Int
  BY InputPlaces
<1>3. Plus(e, 1) = Plus(r, n + 1)
  <2> HIDE DEF n
  <2>. QED BY <1>1, <1>2, PlusPlus
<1>4. e' = Plus(r, n + 1) /\ r' = r /\ buf' = [buf EXCEPT ![Plus(r, n) % INPUT_BUF] = c]
  BY <1>2, <1>3 DEF TypeChar
<1>5. Typed' = n + 1
  <2> HIDE DEF n
  <2>. QED BY <1>1, <1>4, InputSteps DEF Typed
<1>6. Submits(c) <=> c \in {NewLine, CtrlD} \/ n + 1 = INPUT_BUF
  <2>1. INPUT_BUF \in 0..INPUT_BUF
    BY Sizes
  <2>2. Plus(r, n + 1) = Plus(r, INPUT_BUF) <=> n + 1 = INPUT_BUF
    <3> HIDE DEF n
    <3>. QED BY <1>1, <2>1, InputSteps
  <2> HIDE DEF n
  <2>. QED BY <1>3, <2>2 DEF Submits
<1>7. Submitted' = IF Submits(c) THEN n + 1 ELSE Submitted
  <2>1. CASE Submits(c)
    <3>1. w' = Plus(r, n + 1)
      BY <1>3, <2>1 DEF TypeChar
    <3> HIDE DEF n
    <3>. QED BY <1>1, <1>4, <2>1, <3>1, InputSteps DEF Submitted
  <2>2. CASE ~Submits(c)
    BY <1>4, <2>2 DEF TypeChar, Submitted
  <2>. QED BY <2>1, <2>2
<1>8. ASSUME NEW k \in 0..n
      PROVE  InputByte(k)' = IF k = n THEN c ELSE InputByte(k)
  <2> HIDE DEF n
  <2>1. k \in 0..INPUT_BUF /\ k < INPUT_BUF
    BY <1>1, Sizes
  <2>2. /\ Plus(r, k) % INPUT_BUF \in 0..(INPUT_BUF - 1)
        /\ k # n => Plus(r, k) % INPUT_BUF # Plus(r, n) % INPUT_BUF
    BY <1>1, <2>1, InputSteps
  <2>. QED BY <1>4, <2>2 DEF StreamTypes, InputByte
<1>. QED BY <1>1, <1>5, <1>6, <1>7, <1>8

\* Backspace takes the last byte of the line.
LEMMA BackspaceMoves ==
  ASSUME StreamTypes, Lines, Backspace
  PROVE  /\ Submitted < Typed /\ Typed' = Typed - 1 /\ Submitted' = Submitted
         /\ \A k \in 0..(Typed - 2) : InputByte(k)' = InputByte(k)
<1> DEFINE n == Typed
<1>1. n \in 1..INPUT_BUF /\ n - 1 \in 0..INPUT_BUF /\ n \in Int /\ Submitted < n
  BY InputPlaces, Sizes DEF Backspace
<1>2. Minus(e, 1) = Plus(r, n - 1)
  <2>1. e = Plus(r, n) /\ r \in Int
    BY InputPlaces
  <2> HIDE DEF n
  <2>. QED BY <1>1, <2>1, PlusPlus
<1>3. e' = Plus(r, n - 1) /\ r' = r /\ w' = w /\ buf' = [buf EXCEPT ![Plus(r, n - 1) % INPUT_BUF] = Blank]
  BY <1>2 DEF Backspace
<1>4. Typed' = n - 1 /\ Submitted' = Submitted
  <2> HIDE DEF n
  <2>. QED BY <1>1, <1>3, InputSteps DEF Typed, Submitted
<1>5. ASSUME NEW k \in 0..(n - 2)
      PROVE  InputByte(k)' = InputByte(k)
  <2> HIDE DEF n
  <2>1. k \in 0..INPUT_BUF /\ k < INPUT_BUF /\ k # n - 1 /\ n - 1 < INPUT_BUF
    BY <1>1, Sizes
  <2>2. Plus(r, k) % INPUT_BUF \in 0..(INPUT_BUF - 1) /\ Plus(r, k) % INPUT_BUF # Plus(r, n - 1) % INPUT_BUF
    BY <1>1, <2>1, InputSteps
  <2>. QED BY <1>3, <2>2 DEF StreamTypes, InputByte
<1>. QED BY <1>1, <1>4, <1>5

\* ^U takes the whole line: it does not stop before.
LEMMA KillLineMoves ==
  ASSUME StreamTypes, Lines, KillLine
  PROVE  /\ Submitted < Typed /\ Typed' = Submitted /\ Submitted' = Submitted
         /\ \A k \in 0..(Submitted - 1) : InputByte(k)' = InputByte(k)
         /\ buf' \in [0..(INPUT_BUF - 1) -> Chars \cup {Blank}]
<1> DEFINE m == Submitted
           n == Typed
<1>1. m \in 0..INPUT_BUF /\ n \in 0..INPUT_BUF /\ m < n /\ m \in Int /\ n \in Int
  BY InputPlaces, Sizes DEF KillLine
<1>2. w = Plus(r, m) /\ e = Plus(r, n) /\ r \in Int
  BY InputPlaces
<1>3. PICK k \in 1..INPUT_BUF :
        /\ KillLineStops(k)
        /\ \A j \in 0..(k - 1) : ~KillLineStops(j)
        /\ e' = Minus(e, k)
        /\ buf' = [i \in DOMAIN buf |-> IF \E j \in 1..k : i = Minus(e, j) % INPUT_BUF
                                        THEN Blank ELSE buf[i]]
  BY DEF KillLine
<1> HIDE DEF m, n
<1>4. \A j \in Int : Minus(e, j) = Plus(r, n - j)
  BY <1>1, <1>2, PlusPlus
<1>5. KillLineStops(n - m)
  <2>1. n - (n - m) = m /\ n - m \in Int
    BY <1>1
  <2>. QED BY <1>2, <1>4, <2>1 DEF KillLineStops
<1>6. k <= n - m
  <2>1. SUFFICES ASSUME n - m < k PROVE FALSE
    BY <1>1, Sizes
  <2>2. n - m \in 0..(k - 1)
    BY <1>1, <2>1, Sizes
  <2>. QED BY <1>3, <1>5, <2>2
<1>7. ~(k < n - m)
  <2>1. SUFFICES ASSUME k < n - m PROVE FALSE
    OBVIOUS
  <2>2. k \in Int /\ k + 1 \in Int /\ n - k \in 0..INPUT_BUF /\ n - k # m /\ n - (k + 1) \in m..(n - 1)
    BY <1>1, <2>1, Sizes
  <2>3. Minus(e, k) = Plus(r, n - k) /\ Minus(e, k + 1) = Plus(r, n - (k + 1))
    BY <1>4, <2>2
  <2>4. Plus(r, n - k) # Plus(r, m)
    BY <1>1, <2>2, InputSteps
  <2>5. InputByte(n - (k + 1)) = NewLine
    BY <1>2, <1>3, <2>3, <2>4 DEF KillLineStops, InputByte
  <2>. QED BY <2>2, <2>5 DEF Lines, m, n
<1>8. k = n - m
  BY <1>1, <1>6, <1>7, Sizes
<1>9. e' = Plus(r, m) /\ r' = r /\ w' = w
  <2>1. k \in Int /\ n - k = m
    BY <1>1, <1>8
  <2>. QED BY <1>3, <1>4, <2>1 DEF KillLine
<1>10. Typed' = m /\ Submitted' = Submitted
  BY <1>1, <1>9, InputSteps DEF Typed, Submitted
<1>11. ASSUME NEW i \in 0..(m - 1)
       PROVE  InputByte(i)' = InputByte(i)
  <2>1. i \in 0..INPUT_BUF /\ i < INPUT_BUF
    BY <1>1, Sizes
  <2>2. Plus(r, i) % INPUT_BUF \in 0..(INPUT_BUF - 1)
    BY <2>1, InputSteps
  <2>3. ASSUME NEW j \in 1..k
        PROVE  Plus(r, i) % INPUT_BUF # Minus(e, j) % INPUT_BUF
    <3>1. j \in Int /\ n - j \in 0..INPUT_BUF /\ n - j < INPUT_BUF /\ i # n - j
      BY <1>1, <1>8, Sizes
    <3>. QED BY <1>4, <2>1, <3>1, InputSteps
  <2>. QED BY <1>3, <1>9, <2>2, <2>3 DEF StreamTypes, InputByte
<1>12. buf' \in [0..(INPUT_BUF - 1) -> Chars \cup {Blank}]
  BY <1>3 DEF StreamTypes
<1>. QED BY <1>1, <1>10, <1>11, <1>12 DEF m, n

\* A byte that is read leaves the front.
LEMMA TakeMoves ==
  ASSUME StreamTypes, Lines, r # w, r' = Plus(r, 1), UNCHANGED <<w, e>>,
         buf' = [buf EXCEPT ![r % INPUT_BUF] = Blank]
  PROVE  /\ Submitted > 0 /\ Submitted' = Submitted - 1 /\ Typed' = Typed - 1
         /\ \A k \in 0..(Typed - 2) : InputByte(k)' = InputByte(k + 1)
         /\ InputByte(0) = buf[r % INPUT_BUF]
<1> DEFINE m == Submitted
           n == Typed
<1>1. m \in 1..INPUT_BUF /\ n \in 1..INPUT_BUF /\ m <= n /\ m \in Int /\ n \in Int
  BY InputPlaces, Sizes
<1>2. w = Plus(r, m) /\ e = Plus(r, n) /\ r \in Int /\ r = Plus(r, 0)
  BY InputPlaces, CounterSelf
<1> HIDE DEF m, n
<1>3. Minus(Plus(r, m), Plus(r, 1)) = m - 1 /\ Minus(Plus(r, n), Plus(r, 1)) = n - 1
  BY <1>1, <1>2, Distance, Sizes
<1>4. Submitted' = m - 1 /\ Typed' = n - 1
  BY <1>2, <1>3 DEF Submitted, Typed
<1>5. ASSUME NEW k \in 0..(n - 2)
      PROVE  InputByte(k)' = InputByte(k + 1)
  <2>1. k + 1 \in 0..INPUT_BUF /\ k + 1 < INPUT_BUF /\ k + 1 # 0 /\ 0 \in 0..INPUT_BUF /\ 0 < INPUT_BUF
    BY <1>1, Sizes
  <2>2. /\ Plus(r, k + 1) % INPUT_BUF \in 0..(INPUT_BUF - 1)
        /\ Plus(r, k + 1) % INPUT_BUF # Plus(r, 0) % INPUT_BUF
    BY <2>1, InputSteps
  <2>3. Plus(Plus(r, 1), k) = Plus(r, 1 + k)
    BY <1>1, <1>2, PlusPlus
  <2>4. 1 + k = k + 1
    BY <1>1
  <2>5. Plus(r', k) = Plus(r, k + 1)
    BY <2>3, <2>4
  <2>6. buf'[Plus(r, k + 1) % INPUT_BUF] = buf[Plus(r, k + 1) % INPUT_BUF]
    BY <1>2, <2>2 DEF StreamTypes
  <2>. QED BY <2>5, <2>6 DEF InputByte
<1>6. InputByte(0) = buf[r % INPUT_BUF]
  BY <1>2 DEF InputByte
<1>. QED BY <1>1, <1>4, <1>5, <1>6 DEF m, n

-----------------------------------------------------------------------------
(* What the pipe's steps do to the bytes in it *)

\* Places a round apart share their cell.
LEMMA CellRound ==
  ASSUME NEW m, Ring(m), NEW x \in Int, NEW i \in Int
  PROVE  Plus(x, i + m) % m = Plus(x, i) % m
<1>1. i + m \in Int /\ x + i \in Int /\ x + (i + m) = m * 1 + (x + i) /\ 1 \in Int
  BY DEF Ring
<1>2. (m * 1 + (x + i)) % m = (x + i) % m
  <2> DEFINE y == x + i
  <2>1. y \in Int
    BY <1>1
  <2> HIDE DEF y
  <2>2. \A k \in Int : (m * k + y) % m = y % m
    BY <2>1, RemainderShift DEF Ring
  <2>3. (m * 1 + y) % m = y % m
    BY <1>1, <2>2
  <2>. QED BY <2>3 DEF y
<1>. QED BY <1>1, <1>2, CellOf

\* The lesser of two.
LEMMA LeastIs ==
  ASSUME NEW i \in Nat, NEW j \in Nat
  PROVE  Least(i, j) \in Nat /\ Least(i, j) <= i /\ Least(i, j) <= j /\ Least(i, j) \in {i, j}
BY DEF Least

\* The writer's counter as steps from the reader's.
LEMMA PipePlaces ==
  ASSUME StreamTypes, Fits
  PROVE  /\ nread \in Counter /\ nread \in Int /\ Ring(PIPESIZE)
         /\ Stored \in 0..PIPESIZE /\ nwrite = Plus(nread, Stored)
         /\ nread = nwrite <=> Stored = 0
         /\ \A i \in 0..PIPESIZE : Minus(Plus(nread, i), nread) = i
<1>1. nread \in Counter /\ nwrite \in Counter /\ nread \in Int /\ nwrite \in Int
  BY Sizes DEF StreamTypes, Counter
<1>2. Stored \in Counter
  BY <1>1, CounterType DEF Stored
<1>3. Stored \in 0..PIPESIZE
  BY <1>2, Sizes DEF Fits, Counter
<1>4. nwrite = Plus(nread, Stored) /\ (nread = nwrite <=> Stored = 0)
  BY <1>1, DistanceLeads, DistanceNone DEF Stored
<1>5. \A i \in 0..PIPESIZE : i \in Counter
  BY Sizes DEF Counter
<1>. QED BY <1>1, <1>3, <1>4, <1>5, DistanceFrom, Sizes DEF Ring

\* A write of k bytes puts them behind what is there.
LEMMA WriteMoves ==
  ASSUME StreamTypes, Fits, NEW p \in Tasks, PipeWrite(p),
         NEW k, k = Least(Room, Len(ubuf[p]))
  PROVE  /\ k \in 0..Len(ubuf[p]) /\ k <= PIPESIZE - Stored
         /\ k < Len(ubuf[p]) => k = PIPESIZE - Stored
         /\ Stored' = Stored + k
         /\ \A j \in 0..(Stored - 1) : PipeByte(j)' = PipeByte(j)
         /\ \A j \in 1..k : \A i \in {Stored + j - 1} : PipeByte(i)' = ubuf[p][j]
         /\ data' \in [0..(PIPESIZE - 1) -> Byte]
<1> DEFINE n == Stored
           s == ubuf[p]
<1>1. n \in 0..PIPESIZE /\ n \in Int /\ nread \in Int /\ nwrite = Plus(nread, n) /\ Ring(PIPESIZE)
  BY PipePlaces, Sizes
<1>2. s \in Seq(Byte) /\ Len(s) \in Nat
  BY DEF StreamTypes
<1>3. /\ nwrite' = Plus(nwrite, k) /\ nread' = nread
      /\ data' = [i \in DOMAIN data |-> IF Minus(i, nwrite) % PIPESIZE < k
                    THEN s[(Minus(i, nwrite) % PIPESIZE) + 1] ELSE data[i]]
  BY DEF PipeWrite
<1> HIDE DEF n, s
<1>4. /\ k \in 0..Len(s) /\ k <= PIPESIZE - n /\ (k < Len(s) => k = PIPESIZE - n)
      /\ k \in Int /\ n + k \in 0..PIPESIZE
  <2>1. Room = PIPESIZE - n /\ Room \in Nat
    BY <1>1, Sizes DEF Room, n
  <2>2. k = Least(Room, Len(s))
    BY DEF s
  <2>3. k \in Nat /\ k <= Room /\ k <= Len(s) /\ k \in {Room, Len(s)}
    BY <1>2, <2>1, <2>2, LeastIs
  <2>. QED BY <1>1, <1>2, <2>1, <2>3, Sizes
<1>5. Stored' = n + k
  <2>1. nwrite' = Plus(nread, n + k)
    BY <1>1, <1>3, <1>4, PlusPlus
  <2>. QED BY <1>3, <1>4, <2>1, PipePlaces DEF Stored
<1>6. ASSUME NEW j \in 0..(n - 1)
      PROVE  PipeByte(j)' = PipeByte(j)
  <2>1. j \in Int /\ j + PIPESIZE \in Int /\ n <= j + PIPESIZE /\ j + PIPESIZE < n + PIPESIZE /\ ~((j + PIPESIZE) - n < k)
    BY <1>1, <1>4, Sizes
  <2>2. /\ Plus(nread, j) % PIPESIZE = Plus(nread, j + PIPESIZE) % PIPESIZE
        /\ Plus(nread, j) % PIPESIZE \in 0..(PIPESIZE - 1)
    BY <1>1, <2>1, CellRound, CellOf
  <2>3. Minus(Plus(nread, j + PIPESIZE) % PIPESIZE, nwrite) % PIPESIZE = (j + PIPESIZE) - n
    <3> DEFINE i == j + PIPESIZE
    <3>1. i \in Int /\ n <= i /\ i < n + PIPESIZE
      BY <2>1
    <3> HIDE DEF i
    <3>2. Minus(Plus(nread, i) % PIPESIZE, nwrite) % PIPESIZE = i - n
      BY <1>1, <3>1, CellDistance
    <3>. QED BY <3>2 DEF i
  <2>4. data'[Plus(nread, j) % PIPESIZE] = data[Plus(nread, j) % PIPESIZE]
    BY <1>3, <2>1, <2>2, <2>3 DEF StreamTypes
  <2>. QED BY <1>3, <2>4 DEF PipeByte
<1>7. ASSUME NEW j \in 1..k, NEW i \in {n + j - 1}
      PROVE  PipeByte(i)' = s[j]
  <2>1. i \in Int /\ n <= i /\ i < n + PIPESIZE /\ i - n < k /\ (i - n) + 1 = j
    BY <1>1, <1>4, Sizes
  <2>2. Plus(nread, i) % PIPESIZE \in 0..(PIPESIZE - 1)
    BY <1>1, <2>1, CellOf
  <2>3. Minus(Plus(nread, i) % PIPESIZE, nwrite) % PIPESIZE = i - n
    BY <1>1, <2>1, CellDistance
  <2>4. data'[Plus(nread, i) % PIPESIZE] = s[j]
    BY <1>3, <2>1, <2>2, <2>3 DEF StreamTypes
  <2>. QED BY <1>3, <2>4 DEF PipeByte
<1>8. data' \in [0..(PIPESIZE - 1) -> Byte]
  <2>1. ASSUME NEW i \in 0..(PIPESIZE - 1), Minus(i, nwrite) % PIPESIZE < k
        PROVE  s[(Minus(i, nwrite) % PIPESIZE) + 1] \in Byte
    <3>1. nwrite \in Int /\ i \in Int
      BY Sizes DEF StreamTypes, Counter
    <3>2. Minus(i, nwrite) \in Int
      BY <3>1, Sizes, CounterType DEF Counter
    <3>3. Minus(i, nwrite) % PIPESIZE \in 0..(PIPESIZE - 1)
      BY <3>2, Sizes, RemainderIs
    <3> DEFINE d == Minus(i, nwrite) % PIPESIZE
    <3>4. d + 1 \in 1..Len(s)
      BY <1>2, <1>4, <2>1, <3>3, Sizes
    <3> HIDE DEF d
    <3>5. s[d + 1] \in Byte
      BY <1>2, <3>4
    <3>. QED BY <3>5 DEF d
  <2>. QED BY <1>3, <2>1 DEF StreamTypes
<1>. QED BY <1>4, <1>5, <1>6, <1>7, <1>8 DEF n, s

\* A read of k bytes takes them from the front.
LEMMA ReadMoves ==
  ASSUME StreamTypes, Fits, NEW p \in Tasks, PipeRead(p, WcN),
         NEW k, k = Least(Stored, WcN)
  PROVE  /\ k \in 0..Stored /\ k <= WcN /\ (k = 0 => Stored = 0)
         /\ Stored' = Stored - k
         /\ \A j \in 0..(Stored - k - 1) : PipeByte(j)' = PipeByte(j + k)
         /\ ubuf' = [ubuf EXCEPT ![p] = [i \in 1..k |-> PipeByte(i - 1)]]
         /\ [i \in 1..k |-> PipeByte(i - 1)] \in Seq(Byte)
         /\ Len([i \in 1..k |-> PipeByte(i - 1)]) = k
         /\ data' \in [0..(PIPESIZE - 1) -> Byte]
<1> DEFINE n == Stored
<1>1. n \in 0..PIPESIZE /\ n \in Int /\ nread \in Int /\ nwrite = Plus(nread, n) /\ Ring(PIPESIZE) /\ nread = Plus(nread, 0)
  BY PipePlaces, CounterSelf, Sizes
<1>2. /\ nread' = Plus(nread, k) /\ nwrite' = nwrite
      /\ data' = [i \in DOMAIN data |-> IF Minus(i, nread) % PIPESIZE < k THEN Empty ELSE data[i]]
      /\ ubuf' = [ubuf EXCEPT ![p] = [i \in 1..k |-> PipeByte(i - 1)]]
  BY DEF PipeRead, PipeByte
<1>3. k \in 0..n /\ k <= WcN /\ (k = 0 => n = 0) /\ k \in Int /\ k \in Nat
  BY LeastIs, Sizes, PipePlaces
<1> HIDE DEF n
<1>4. Stored' = n - k
  BY <1>1, <1>2, <1>3, Distance, Sizes DEF Stored
<1>5. ASSUME NEW j \in 0..(n - k - 1)
      PROVE  PipeByte(j)' = PipeByte(j + k)
  <2>1. j \in Int /\ j + k \in Int /\ k + j = j + k /\ 0 <= j + k /\ j + k < 0 + PIPESIZE /\ ~(j + k < k) /\ (j + k) - 0 = j + k
    BY <1>1, <1>3, Sizes
  <2>2. Plus(nread', j) = Plus(nread, j + k)
    BY <1>1, <1>2, <1>3, <2>1, PlusPlus
  <2>3. Minus(Plus(nread, j + k) % PIPESIZE, nread) % PIPESIZE = j + k
    BY <1>1, <2>1, CellDistance
  <2>4. Plus(nread, j + k) % PIPESIZE \in 0..(PIPESIZE - 1)
    BY <1>1, <2>1, CellOf
  <2>5. data'[Plus(nread, j + k) % PIPESIZE] = data[Plus(nread, j + k) % PIPESIZE]
    BY <1>2, <2>1, <2>3, <2>4 DEF StreamTypes
  <2>. QED BY <2>2, <2>5 DEF PipeByte
<1>6. \A i \in 1..k : PipeByte(i - 1) \in Byte
  <2>1. ASSUME NEW i \in 1..k PROVE PipeByte(i - 1) \in Byte
    <3>1. i - 1 \in Int
      BY <1>3
    <3>2. Plus(nread, i - 1) % PIPESIZE \in 0..(PIPESIZE - 1)
      BY <1>1, <3>1, CellOf
    <3>. QED BY <3>2 DEF PipeByte, StreamTypes
  <2>. QED BY <2>1
<1>7. [i \in 1..k |-> PipeByte(i - 1)] \in Seq(Byte) /\ Len([i \in 1..k |-> PipeByte(i - 1)]) = k
  BY <1>3, <1>6
<1>8. data' \in [0..(PIPESIZE - 1) -> Byte]
  <2>1. Empty \in Byte
    BY DEF Byte
  <2>. QED BY <1>2, <2>1 DEF StreamTypes
<1>. QED BY <1>2, <1>3, <1>4, <1>5, <1>7, <1>8 DEF n

-----------------------------------------------------------------------------
(* Steps that touch one side only *)

\* What the invariant is made of.
LEMMA Parts ==
  /\ IInv => /\ StreamTypes /\ Whereabouts /\ Buffers /\ Ends /\ Lines /\ Fits
             /\ InputQuiet /\ PipeQuiet /\ EofIsFinal
  /\ (StreamTypes /\ Whereabouts /\ Buffers /\ Ends /\ Lines /\ Fits
        /\ InputQuiet /\ PipeQuiet /\ EofIsFinal)' => IInv'
BY DEF IInv

\* The pipe is as it was, nobody goes to sleep on it, and nobody comes back.
PipeUntouched ==
  /\ UNCHANGED <<nread, nwrite, readopen, writeopen>>
  /\ \A p \in Tasks :
       /\ killed[p] => killed'[p]
       /\ pc'[p] \in {"pw_sleep", "pw_asleep"} => pc[p] \in {"pw_sleep", "pw_asleep"}
       /\ pc'[p] \in {"pr_sleep", "pr_asleep"} => pc[p] \in {"pr_sleep", "pr_asleep"}
       /\ pc[p] \in {"pw_failed"} \cup Leaving => pc'[p] \in {"pw_failed"} \cup Leaving
       /\ pc[p] = "exited" => pc'[p] = "exited"
       /\ pc'[p] = "pr_done" /\ ubuf'[p] = <<>> => pc[p] = "pr_done" /\ ubuf[p] = <<>>

\* Then the pipe's invariants stand.
LEMMA PipeKept ==
  ASSUME IInv, PipeUntouched
  PROVE  Fits' /\ PipeQuiet' /\ EofIsFinal'
<1>1. Stored' = Stored
  BY DEF PipeUntouched, Stored
<1>2. Fits'
  BY <1>1 DEF IInv, Fits
<1>3. ASSUME NEW p \in Tasks, GaveUp(p) PROVE GaveUp(p)'
  BY <1>3 DEF PipeUntouched, GaveUp, At, Leaving
<1>4. ASSUME NEW p \in Tasks, pc'[p] \in {"pw_sleep", "pw_asleep"}
      PROVE  Stored' = PIPESIZE /\ readopen'
  <2>1. pc[p] \in {"pw_sleep", "pw_asleep"}
    BY <1>4 DEF PipeUntouched
  <2>. QED BY <1>1, <2>1 DEF IInv, PipeQuiet, PipeUntouched
<1>5. ASSUME NEW p \in Tasks, pc'[p] \in {"pr_sleep", "pr_asleep"}
      PROVE  writeopen' /\ (Stored' = 0 \/ (Stored' = PIPESIZE /\ \E q \in Writers : GaveUp(q)'))
  <2>1. pc[p] \in {"pr_sleep", "pr_asleep"}
    BY <1>5 DEF PipeUntouched
  <2>2. writeopen /\ (Stored = 0 \/ (Stored = PIPESIZE /\ \E q \in Writers : GaveUp(q)))
    <3>1. PipeQuiet
      BY Parts
    <3>. QED BY <2>1, <3>1, Zenon DEF PipeQuiet
  <2>. QED BY <1>1, <1>3, <2>2, TheTasks DEF PipeUntouched
<1>6. PipeQuiet'
  BY <1>4, <1>5 DEF PipeQuiet
<1>7. EofIsFinal'
  <2>1. SUFFICES ASSUME NEW q \in Readers, pc'[q] = "pr_done", ubuf'[q] = <<>>
                 PROVE  Stored' = 0 /\ ~writeopen' /\ \A p \in Writers : pc'[p] = "exited"
    BY DEF EofIsFinal
  <2>2. pc[q] = "pr_done" /\ ubuf[q] = <<>>
    BY <2>1, TheTasks DEF PipeUntouched
  <2>3. Stored = 0 /\ ~writeopen /\ \A p \in Writers : pc[p] = "exited"
    BY <2>2 DEF IInv, EofIsFinal
  <2>. QED BY <1>1, <2>3, TheTasks DEF PipeUntouched
<1>. QED BY <1>2, <1>6, <1>7

\* The input buffer is as it was, and nobody goes to sleep on the console.
LEMMA InputKept ==
  ASSUME IInv, UNCHANGED input,
         \A p \in Tasks : pc'[p] \in {"con_sleep", "con_asleep"} => pc[p] \in {"con_sleep", "con_asleep"}
  PROVE  Lines' /\ InputQuiet'
<1>1. UNCHANGED <<buf, r, w, e>>
  BY DEF input
<1>2. Lines'
  BY <1>1 DEF IInv, Lines, Submitted, Typed, InputByte
<1>3. InputQuiet'
  BY <1>1 DEF IInv, InputQuiet
<1>. QED BY <1>2, <1>3

\* Where a process goes that moves alone.
LEMMA GoesTo ==
  ASSUME StreamTypes, NEW p \in Tasks, NEW to \in Places, GoTo(p, to)
  PROVE  /\ pc' \in [Tasks -> Places]
         /\ \A q \in Tasks : pc'[q] = IF q = p THEN to ELSE pc[q]
BY DEF GoTo, StreamTypes

-----------------------------------------------------------------------------
(* Every step keeps the invariant: the programs *)

\* cat calls read().
LEMMA CatReadsKeeps ==
  ASSUME IInv, CatReads
  PROVE  IInv'
<1>1. /\ StreamTypes /\ Whereabouts /\ Buffers /\ Ends /\ pc[Cat] = "user" /\ UNCHANGED pipe
      /\ GoTo(Cat, "con_read") /\ left' = [left EXCEPT ![Cat] = target]
      /\ ubuf' = [ubuf EXCEPT ![Cat] = <<>>] /\ UNCHANGED <<input, killed>>
  BY Parts DEF CatReads, ConsoleRead
<1>2. pc' \in [Tasks -> Places] /\ \A q \in Tasks : pc'[q] = IF q = Cat THEN "con_read" ELSE pc[q]
  <2>1. "con_read" \in Places
    BY DEF Places
  <2>. QED BY <1>1, <2>1, TheTasks, GoesTo
<1>3. \A q \in Tasks : ubuf'[q] = IF q = Cat THEN <<>> ELSE ubuf[q]
  BY <1>1 DEF StreamTypes
<1>4. StreamTypes'
  <2>1. <<>> \in Seq(Byte)
    OBVIOUS
  <2>. QED BY <1>1, <1>2, <2>1, Sizes DEF StreamTypes, pipe, input
<1>5. Whereabouts'
  BY <1>1, <1>2, TheTasks DEF Whereabouts, Reading, Leaving
<1>6. Buffers'
  <2>1. left'[Cat] = target
    BY <1>1, TheTasks DEF StreamTypes
  <2>2. Len(<<>>) = 0
    OBVIOUS
  <2>. QED BY <1>1, <1>3, <2>1, <2>2, TheTasks, Sizes DEF Buffers
<1>7. Ends'
  BY <1>1, <1>2, EndsKept DEF StayAway, pipe
<1>8. Lines' /\ InputQuiet'
  BY <1>1, <1>2, InputKept
<1>9. PipeUntouched
  BY <1>1, <1>2 DEF PipeUntouched, pipe, Leaving
<1>. QED BY <1>4, <1>5, <1>6, <1>7, <1>8, <1>9, PipeKept, Parts

\* wc calls read().
LEMMA WcReadsKeeps ==
  ASSUME IInv, WcReads
  PROVE  IInv'
<1>1. /\ StreamTypes /\ Whereabouts /\ Buffers /\ Ends /\ pc[Wc] = "user"
      /\ GoTo(Wc, "pr") /\ UNCHANGED <<console, pipe, killed, ubuf>>
  BY Parts DEF WcReads
<1>2. pc' \in [Tasks -> Places] /\ \A q \in Tasks : pc'[q] = IF q = Wc THEN "pr" ELSE pc[q]
  <2>1. "pr" \in Places
    BY DEF Places
  <2>. QED BY <1>1, <2>1, TheTasks, GoesTo
<1>4. StreamTypes'
  BY <1>1, <1>2 DEF StreamTypes, pipe, console
<1>5. Whereabouts'
  BY <1>1, <1>2, TheTasks DEF Whereabouts, Reading, Leaving
<1>6. Buffers'
  BY <1>1, <1>2, TheTasks DEF Buffers, console
<1>7. Ends'
  BY <1>1, <1>2, EndsKept DEF StayAway, pipe
<1>8. Lines' /\ InputQuiet'
  BY <1>1, <1>2, InputKept DEF console, input
<1>9. PipeUntouched
  BY <1>1, <1>2 DEF PipeUntouched, pipe, Leaving
<1>. QED BY <1>4, <1>5, <1>6, <1>7, <1>8, <1>9, PipeKept, Parts

\* A program leaves.
LEMMA ExitKeeps ==
  ASSUME IInv, NEW p \in Tasks, Exit(p)
  PROVE  IInv'
<1>1. /\ StreamTypes /\ Whereabouts /\ Buffers /\ Ends
      /\ pc[p] \in {"user", "con_failed", "pr_failed", "pw_failed", "con_done", "pr_done", "pw_done"}
      /\ GoTo(p, "close") /\ ubuf' = [ubuf EXCEPT ![p] = <<>>]
      /\ UNCHANGED <<console, pipe, killed>>
  BY Parts DEF Exit, Leaves, At
<1>2. pc' \in [Tasks -> Places] /\ \A q \in Tasks : pc'[q] = IF q = p THEN "close" ELSE pc[q]
  <2>1. "close" \in Places
    BY DEF Places
  <2>. QED BY <1>1, <2>1, GoesTo
<1>3. \A q \in Tasks : ubuf'[q] = IF q = p THEN <<>> ELSE ubuf[q]
  BY <1>1 DEF StreamTypes
<1>4. StreamTypes'
  <2>1. <<>> \in Seq(Byte)
    OBVIOUS
  <2>. QED BY <1>1, <1>2, <2>1 DEF StreamTypes, pipe, console
<1>5. Whereabouts'
  BY <1>1, <1>2, TheTasks DEF Whereabouts, Leaving
<1>6. Buffers'
  <2>2. Len(<<>>) = 0
    OBVIOUS
  <2>. QED BY <1>1, <1>2, <1>3, <2>2, TheTasks, Sizes DEF Buffers, console, Reading
<1>7. Ends'
  BY <1>1, <1>2, EndsKept DEF StayAway, pipe
<1>8. Lines' /\ InputQuiet'
  BY <1>1, <1>2, InputKept DEF console, input
<1>9. PipeUntouched
  BY <1>1, <1>2 DEF PipeUntouched, pipe, Leaving
<1>. QED BY <1>4, <1>5, <1>6, <1>7, <1>8, <1>9, PipeKept, Parts

\* A program goes on.
LEMMA GoesOnKeeps ==
  ASSUME IInv, NEW p \in Tasks, GoesOn(p)
  PROVE  IInv'
<1>1. PICK to \in {"pw", "user"} :
      /\ StreamTypes /\ Whereabouts /\ Buffers /\ Ends
      /\ \/ pc[p] = "con_done" /\ to = "pw"
         \/ pc[p] \in {"pr_done", "pw_done"} /\ to = "user"
      /\ GoTo(p, to)
      /\ ubuf' = IF pc[p] = "pr_done" THEN [ubuf EXCEPT ![p] = <<>>] ELSE ubuf
      /\ UNCHANGED <<console, pipe, killed>>
  BY Parts DEF GoesOn, At
<1>2. pc' \in [Tasks -> Places] /\ \A q \in Tasks : pc'[q] = IF q = p THEN to ELSE pc[q]
  <2>1. to \in Places
    BY DEF Places
  <2>. QED BY <1>1, <2>1, GoesTo
<1>3. /\ ubuf' = [ubuf EXCEPT ![p] = <<>>] \/ ubuf' = ubuf
      /\ \A q \in Tasks : ubuf'[q] = ubuf[q] \/ (q = p /\ ubuf'[q] = <<>>)
  <2>1. CASE pc[p] = "pr_done"
    BY <1>1, <2>1 DEF StreamTypes
  <2>2. CASE pc[p] # "pr_done"
    BY <1>1, <2>2
  <2>. QED BY <2>1, <2>2
<1>4. StreamTypes'
  <2>1. <<>> \in Seq(Byte)
    OBVIOUS
  <2>. QED BY <1>1, <1>2, <1>3, <2>1 DEF StreamTypes, pipe, console
<1>5. Whereabouts'
  BY <1>1, <1>2, Who, TheTasks DEF Whereabouts, Leaving
<1>6. Buffers'
  <2>2. Len(<<>>) = 0
    OBVIOUS
  <2>. QED BY <1>1, <1>2, <1>3, <2>2, TheTasks, Sizes DEF Buffers, console, Reading
<1>7. Ends'
  BY <1>1, <1>2, EndsKept DEF StayAway, pipe
<1>8. Lines' /\ InputQuiet'
  BY <1>1, <1>2, InputKept DEF console, input
<1>9. PipeUntouched
  BY <1>1, <1>2 DEF PipeUntouched, pipe, Leaving
<1>. QED BY <1>4, <1>5, <1>6, <1>7, <1>8, <1>9, PipeKept, Parts

\* Somebody is killed: a sleeper wakes up.
LEMMA KillKeeps ==
  ASSUME IInv, NEW p \in Tasks, Kill(p), UNCHANGED <<console, pipe>>
  PROVE  IInv'
<1>1. /\ StreamTypes /\ Whereabouts /\ Buffers /\ Ends
      /\ killed' = [killed EXCEPT ![p] = TRUE] /\ ubuf' = ubuf
      /\ pc' = IF pc[p] \in DOMAIN Resume THEN [pc EXCEPT ![p] = Resume[@]] ELSE pc
  BY Parts DEF Kill, At
<1>2. /\ pc' \in [Tasks -> Places]
      /\ \A q \in Tasks : \/ pc'[q] = pc[q]
                          \/ pc[q] = "con_asleep" /\ pc'[q] = "con_read"
                          \/ pc[q] = "pr_asleep" /\ pc'[q] = "pr"
                          \/ pc[q] = "pw_asleep" /\ pc'[q] = "pw"
  <2>1. DOMAIN Resume = {"con_asleep", "pr_asleep", "pw_asleep"}
    BY DEF Resume
  <2>2. pc \in [Tasks -> Places] /\ {"con_read", "pr", "pw"} \subseteq Places
    BY <1>1 DEF StreamTypes, Places
  <2>3. Resume["con_asleep"] = "con_read" /\ Resume["pr_asleep"] = "pr" /\ Resume["pw_asleep"] = "pw"
    BY DEF Resume
  <2>4. pc[p] \in DOMAIN Resume => Resume[pc[p]] \in Places
    BY <2>1, <2>2, <2>3
  <2>5. pc' \in [Tasks -> Places]
    BY <1>1, <2>2, <2>4
  <2>6. \A q \in Tasks : pc'[q] = pc[q] \/ (q = p /\ pc[p] \in DOMAIN Resume /\ pc'[q] = Resume[pc[p]])
    <3>1. CASE pc[p] \in DOMAIN Resume
      <4>1. pc' = [pc EXCEPT ![p] = Resume[pc[p]]]
        BY <1>1, <3>1
      <4>. QED BY <2>2, <3>1, <4>1
    <3>2. CASE pc[p] \notin DOMAIN Resume
      BY <1>1, <3>2
    <3>. QED BY <3>1, <3>2
  <2>. QED BY <2>1, <2>3, <2>5, <2>6
<1>3. killed' \in [Tasks -> BOOLEAN] /\ \A q \in Tasks : killed[q] => killed'[q]
  <2>1. killed \in [Tasks -> BOOLEAN]
    BY <1>1 DEF StreamTypes
  <2>. QED BY <1>1, <2>1, Zenon
<1>4. StreamTypes'
  BY <1>1, <1>2, <1>3 DEF StreamTypes, pipe, console
<1>5. Whereabouts'
  BY <1>1, <1>2, TheTasks DEF Whereabouts, Leaving, Reading
<1>6. Buffers'
  BY <1>1, <1>2, TheTasks DEF Buffers, console, Reading
<1>7. Ends'
  BY <1>1, <1>2, EndsKept DEF StayAway, pipe
<1>8. Lines' /\ InputQuiet'
  BY <1>2, InputKept DEF console, input
<1>9. PipeUntouched
  BY <1>1, <1>2, <1>3 DEF PipeUntouched, pipe, Leaving
<1>. QED BY <1>4, <1>5, <1>6, <1>7, <1>8, <1>9, PipeKept, Parts

\* Who is about to sleep does.
LEMMA SleepKeeps ==
  ASSUME IInv, NEW p \in Tasks, Sleep(p), UNCHANGED <<console, pipe>>
  PROVE  IInv'
<1>1. /\ StreamTypes /\ Whereabouts /\ Buffers /\ Ends
      /\ UNCHANGED <<killed, ubuf>>
      /\ pc' = [pc EXCEPT ![p] = Asleep[pc[p]]] /\ pc[p] \in DOMAIN Asleep
  BY Parts DEF Sleep, At, GoTo
<1>2. /\ pc' \in [Tasks -> Places]
      /\ \A q \in Tasks : \/ pc'[q] = pc[q]
                          \/ pc[q] = "con_sleep" /\ pc'[q] = "con_asleep"
                          \/ pc[q] = "pr_sleep" /\ pc'[q] = "pr_asleep"
                          \/ pc[q] = "pw_sleep" /\ pc'[q] = "pw_asleep"
  <2>1. DOMAIN Asleep = {"con_sleep", "pr_sleep", "pw_sleep"}
    BY DEF Asleep
  <2>2. pc \in [Tasks -> Places] /\ {"con_asleep", "pr_asleep", "pw_asleep"} \subseteq Places
    BY <1>1 DEF StreamTypes, Places
  <2>3. /\ Asleep["con_sleep"] = "con_asleep" /\ Asleep["pr_sleep"] = "pr_asleep"
        /\ Asleep["pw_sleep"] = "pw_asleep"
    BY DEF Asleep
  <2>4. Asleep[pc[p]] \in Places
    BY <1>1, <2>1, <2>2, <2>3
  <2>5. pc' \in [Tasks -> Places]
    BY <1>1, <2>2, <2>4
  <2>6. \A q \in Tasks : pc'[q] = pc[q] \/ (q = p /\ pc'[q] = Asleep[pc[p]])
    BY <1>1, <2>2
  <2>. QED BY <1>1, <2>1, <2>3, <2>5, <2>6
<1>4. StreamTypes'
  BY <1>1, <1>2 DEF StreamTypes, pipe, console
<1>5. Whereabouts'
  BY <1>1, <1>2, TheTasks DEF Whereabouts, Leaving, Reading
<1>6. Buffers'
  BY <1>1, <1>2, TheTasks DEF Buffers, console, Reading
<1>7. Ends'
  BY <1>1, <1>2, EndsKept DEF StayAway, pipe
<1>8. Lines' /\ InputQuiet'
  BY <1>2, InputKept DEF console, input
<1>9. PipeUntouched
  BY <1>1, <1>2 DEF PipeUntouched, pipe, Leaving
<1>. QED BY <1>4, <1>5, <1>6, <1>7, <1>8, <1>9, PipeKept, Parts

-----------------------------------------------------------------------------
(* Every step keeps the invariant: the keyboard *)

\* A key is put behind the line; if it ends it, the readers are woken.
LEMMA TypeCharKeeps ==
  ASSUME IInv, NEW c \in Chars, TypeChar(c), UNCHANGED pipe
  PROVE  IInv'
<1>1. /\ StreamTypes /\ Whereabouts /\ Buffers /\ Ends /\ Lines /\ InputQuiet
      /\ UNCHANGED <<r, left, killed, ubuf>> /\ e' = Plus(e, 1)
      /\ buf' = [buf EXCEPT ![e % INPUT_BUF] = c]
  BY Parts DEF TypeChar
<1>2. \/ Submits(c) /\ w' = Plus(e, 1) /\ pc' = Woken("con_asleep")
      \/ ~Submits(c) /\ w' = w /\ pc' = pc
  BY DEF TypeChar
<1>3. /\ pc' \in [Tasks -> Places]
      /\ \A q \in Tasks : pc'[q] = pc[q] \/ (pc[q] = "con_asleep" /\ pc'[q] = "con_read")
      /\ Submits(c) => \A q \in Tasks : pc'[q] \notin {"con_sleep", "con_asleep"}
  <2>1. CASE Submits(c)
    <3>1. pc' = Woken("con_asleep") /\ \A q \in Tasks : Woken("con_asleep")[q] = IF pc[q] = "con_asleep" THEN "con_read" ELSE pc[q]
      BY <1>2, <2>1, WokenIs
    <3>0. \A q \in Tasks : pc[q] # "con_sleep"
      BY DEF TypeChar, ConsLockFree, At
    <3>2. Woken("con_asleep") \in [Tasks -> Places]
      <4>1. "close" \in Places /\ Cat \in Tasks
        BY TheTasks DEF Places
      <4>. QED BY <1>1, <4>1, WokenType
    <3>. QED BY <3>0, <3>1, <3>2
  <2>2. CASE ~Submits(c)
    BY <1>1, <1>2, <2>2 DEF StreamTypes
  <2>. QED BY <2>1, <2>2
<1>4. StreamTypes'
  <2>1. Plus(e, 1) \in Counter
    <3>1. e \in Int /\ 1 \in Int
      BY <1>1, Sizes DEF StreamTypes, Counter
    <3>. QED BY <3>1, CounterType
  <2>2. w' \in Counter
    BY <1>1, <1>2, <2>1 DEF StreamTypes
  <2>. QED BY <1>1, <1>3, <2>1, <2>2 DEF StreamTypes, pipe
<1>5. Whereabouts'
  BY <1>1, <1>3, TheTasks DEF Whereabouts, Leaving, Reading
<1>6. Buffers'
  BY <1>1, <1>3, TheTasks DEF Buffers, Reading
<1>7. Ends'
  BY <1>1, <1>3, EndsKept DEF StayAway, pipe
<1>8. Lines'
  <2> DEFINE m == Submitted
             n == Typed
  <2>1. /\ n < INPUT_BUF /\ Typed' = n + 1 /\ Submitted' = IF Submits(c) THEN n + 1 ELSE m
        /\ ~Submits(c) => c \notin {NewLine, CtrlD}
        /\ \A k \in 0..n : InputByte(k)' = IF k = n THEN c ELSE InputByte(k)
    BY <1>1, TypeCharMoves
  <2>2. m \in 0..INPUT_BUF /\ n \in 0..INPUT_BUF /\ m <= n
    BY <1>1, InputPlaces
  <2>3. \A k \in m..(n - 1) : InputByte(k) \notin {NewLine, CtrlD}
    BY <1>1 DEF Lines
  <2> HIDE DEF m, n
  <2>4. Submitted' <= Typed' /\ Typed' <= INPUT_BUF
    BY <2>1, <2>2, Sizes
  <2>5. ASSUME NEW k \in Submitted'..(Typed' - 1)
        PROVE  InputByte(k)' \notin {NewLine, CtrlD}
    <3>1. ~Submits(c) /\ k \in m..n
      BY <2>1, <2>2, Sizes
    <3>2. k \in 0..n /\ (k # n => k \in m..(n - 1))
      BY <2>2, <3>1, Sizes
    <3>. QED BY <2>1, <2>3, <3>1, <3>2
  <2>. QED BY <2>4, <2>5 DEF Lines
<1>9. InputQuiet'
  BY <1>1, <1>2, <1>3 DEF InputQuiet
<1>10. PipeUntouched
  BY <1>1, <1>3 DEF PipeUntouched, pipe, Leaving
<1>. QED BY <1>4, <1>5, <1>6, <1>7, <1>8, <1>9, <1>10, PipeKept, Parts

\* A step of the keyboard that wakes nobody and submits nothing.
LEMMA EditKeeps ==
  ASSUME IInv, UNCHANGED <<r, w, left, task, pipe>>,
         buf' \in [0..(INPUT_BUF - 1) -> Chars \cup {Blank}], e' \in Counter,
         Typed' \in Submitted..Typed,
         \A k \in 0..(Typed' - 1) : InputByte(k)' = InputByte(k)
  PROVE  IInv'
<1>1. /\ StreamTypes /\ Whereabouts /\ Buffers /\ Ends /\ Lines /\ InputQuiet
      /\ UNCHANGED <<pc, killed, ubuf, pipe, r, w, left>>
  BY Parts DEF task
<1>2. StreamTypes'
  BY <1>1 DEF StreamTypes, pipe
<1>3. Whereabouts' /\ Buffers' /\ InputQuiet'
  BY <1>1 DEF Whereabouts, Buffers, InputQuiet
<1>4. Ends'
  BY <1>1, EndsKept DEF StayAway, pipe
<1>5. Submitted' = Submitted
  BY <1>1 DEF Submitted
<1>6. Lines'
  <2>1. Submitted \in 0..INPUT_BUF /\ Typed \in 0..INPUT_BUF
    BY <1>1, InputPlaces
  <2>2. ASSUME NEW k \in Submitted'..(Typed' - 1)
        PROVE  InputByte(k)' \notin {NewLine, CtrlD}
    <3> DEFINE n == Typed'
    <3>1. n \in Int /\ Submitted <= n /\ n <= Typed /\ Submitted \in Int /\ Typed \in Int /\ 0 <= Submitted
      BY <2>1, Sizes
    <3>2. k \in Submitted..(n - 1)
      BY <1>5
    <3> HIDE DEF n
    <3>3. k \in 0..(n - 1) /\ k \in Submitted..(Typed - 1)
      BY <3>1, <3>2
    <3>4. InputByte(k)' = InputByte(k)
      BY <3>3 DEF n
    <3>. QED BY <1>1, <3>3, <3>4 DEF Lines
  <2>3. Submitted' <= Typed' /\ Typed' <= INPUT_BUF
    BY <1>5, <2>1, Sizes
  <2>. QED BY <2>2, <2>3 DEF Lines
<1>7. PipeUntouched
  BY <1>1 DEF PipeUntouched, pipe
<1>. QED BY <1>2, <1>3, <1>4, <1>6, <1>7, PipeKept, Parts

\* The three others edit the line, or do nothing.
LEMMA EditingKeeps ==
  ASSUME IInv, DropChar \/ Backspace \/ KillLine, UNCHANGED pipe
  PROVE  IInv'
<1>1. StreamTypes /\ Lines /\ e \in Int /\ Submitted \in 0..INPUT_BUF /\ Typed \in 0..INPUT_BUF /\ Submitted <= Typed
  <2>1. StreamTypes /\ Lines
    BY Parts
  <2>. QED BY <2>1, InputPlaces, Sizes DEF StreamTypes, Counter
<1>2. CASE DropChar
  <2>1. UNCHANGED <<r, w, e, buf, left, task, pipe>>
    BY <1>2 DEF DropChar, console
  <2>2. Typed' = Typed /\ \A k \in 0..(Typed - 1) : InputByte(k)' = InputByte(k)
    BY <2>1 DEF Typed, InputByte
  <2>3. Typed \in Submitted..Typed
    BY <1>1
  <2>. QED BY <1>1, <2>1, <2>2, <2>3, EditKeeps DEF StreamTypes
<1>3. CASE Backspace
  <2>1. UNCHANGED <<r, w, left, task, pipe>> /\ e' = Minus(e, 1) /\ buf' = [buf EXCEPT ![Minus(e, 1) % INPUT_BUF] = Blank]
    BY <1>3 DEF Backspace
  <2>2. /\ Submitted < Typed /\ Typed' = Typed - 1
        /\ \A k \in 0..(Typed - 2) : InputByte(k)' = InputByte(k)
    BY <1>1, <1>3, BackspaceMoves
  <2>3. e' \in Counter /\ buf' \in [0..(INPUT_BUF - 1) -> Chars \cup {Blank}]
    <3>1. 1 \in Int
      OBVIOUS
    <3>. QED BY <1>1, <2>1, <3>1, CounterType DEF StreamTypes
  <2>4. Typed' \in Submitted..Typed /\ \A k \in 0..(Typed' - 1) : InputByte(k)' = InputByte(k)
    <3>1. Typed' - 1 = Typed - 2 /\ Typed' \in Submitted..Typed
      BY <1>1, <2>2
    <3>. QED BY <2>2, <3>1
  <2>. QED BY <2>1, <2>3, <2>4, EditKeeps
<1>4. CASE KillLine
  <2>1. UNCHANGED <<r, w, left, task, pipe>> /\ \E k \in 1..INPUT_BUF : e' = Minus(e, k)
    BY <1>4 DEF KillLine
  <2>2. /\ Submitted < Typed /\ Typed' = Submitted
        /\ \A k \in 0..(Submitted - 1) : InputByte(k)' = InputByte(k)
        /\ buf' \in [0..(INPUT_BUF - 1) -> Chars \cup {Blank}]
    BY <1>1, <1>4, KillLineMoves
  <2>3. e' \in Counter
    <3>1. \A k \in 1..INPUT_BUF : k \in Int
      OBVIOUS
    <3>. QED BY <1>1, <2>1, <3>1, CounterType
  <2>4. Typed' \in Submitted..Typed
    BY <1>1, <2>2
  <2>. QED BY <2>1, <2>2, <2>3, <2>4, EditKeeps
<1>. QED BY <1>2, <1>3, <1>4

-----------------------------------------------------------------------------
(* Every step keeps the invariant: consoleread() *)

\* A read that finds nothing sleeps, or fails.
LEMMA ConsoleWaitKeeps ==
  ASSUME IInv, NEW p \in Tasks, ConsoleWait(p), UNCHANGED pipe
  PROVE  IInv'
<1>1. PICK to \in {"con_failed", "con_sleep"} :
      /\ StreamTypes /\ Whereabouts /\ Buffers /\ Ends /\ Lines /\ InputQuiet
      /\ pc[p] \in {"con_copy", "con_read"} /\ r = w
      /\ GoTo(p, to) /\ UNCHANGED <<console, killed, ubuf>>
  BY Parts DEF ConsoleWait, InConsole
<1>2. pc' \in [Tasks -> Places] /\ \A q \in Tasks : pc'[q] = IF q = p THEN to ELSE pc[q]
  <2>1. to \in Places
    BY DEF Places
  <2>. QED BY <1>1, <2>1, GoesTo
<1>3. p = Cat
  BY <1>1, Who DEF Reading
<1>4. StreamTypes'
  BY <1>1, <1>2 DEF StreamTypes, pipe, console
<1>5. Whereabouts'
  BY <1>1, <1>2, <1>3, TheTasks DEF Whereabouts, Leaving, Reading
<1>6. Buffers'
  BY <1>1, <1>2, <1>3, TheTasks DEF Buffers, console, Reading
<1>7. Ends'
  BY <1>1, <1>2, EndsKept DEF StayAway, pipe
<1>8. Lines' /\ InputQuiet'
  <2>1. UNCHANGED <<buf, r, w, e>>
    BY <1>1 DEF console
  <2>. QED BY <1>1, <2>1 DEF Lines, Submitted, Typed, InputByte, InputQuiet
<1>9. PipeUntouched
  BY <1>1, <1>2 DEF PipeUntouched, pipe, Leaving
<1>. QED BY <1>4, <1>5, <1>6, <1>7, <1>8, <1>9, PipeKept, Parts

\* A byte is taken from the buffer.
LEMMA TakeInputKeeps ==
  ASSUME IInv, NEW p \in Tasks, NEW ends \in BOOLEAN, InConsole(p), r # w,
         TakeInput(p, ends), UNCHANGED pipe,
         ubuf' \in [Tasks -> Seq(Byte)],
         \A q \in Tasks \ {p} : ubuf'[q] = ubuf[q],
         Len(ubuf'[p]) <= target,
         ends \/ (left[p] > 1 /\ Len(ubuf'[p]) = Len(ubuf[p]) + 1)
  PROVE  IInv'
<1>1. /\ StreamTypes /\ Whereabouts /\ Buffers /\ Ends /\ Lines /\ InputQuiet
      /\ pc[p] \in {"con_copy", "con_read"}
      /\ GoTo(p, IF ends THEN "con_done" ELSE "con_copy")
      /\ r' = Plus(r, 1) /\ buf' = [buf EXCEPT ![r % INPUT_BUF] = Blank]
      /\ left' = [left EXCEPT ![p] = IF ends THEN 0 ELSE @ - 1]
      /\ UNCHANGED <<w, e, killed>>
  BY Parts DEF TakeInput, InConsole
<1>2. pc' \in [Tasks -> Places] /\ \A q \in Tasks : pc'[q] = IF q = p THEN (IF ends THEN "con_done" ELSE "con_copy") ELSE pc[q]
  <2>1. "con_done" \in Places /\ "con_copy" \in Places
    BY DEF Places
  <2>2. (IF ends THEN "con_done" ELSE "con_copy") \in Places
    BY <2>1
  <2>. QED BY <1>1, <2>2, GoesTo
<1>3. p = Cat
  BY <1>1, Who DEF Reading
<1>4. left' \in [Tasks -> Nat] /\ left'[p] = (IF ends THEN 0 ELSE left[p] - 1)
  <2>1. left \in [Tasks -> Nat] /\ left[p] \in Nat
    BY <1>1 DEF StreamTypes
  <2>2. (IF ends THEN 0 ELSE left[p] - 1) \in Nat
    BY <2>1
  <2>. QED BY <1>1, <2>1, <2>2
<1>5. StreamTypes'
  <2>1. r' \in Counter
    <3>1. r \in Int /\ 1 \in Int
      BY <1>1, Sizes DEF StreamTypes, Counter
    <3>. QED BY <1>1, <3>1, CounterType
  <2>2. buf' \in [0..(INPUT_BUF - 1) -> Chars \cup {Blank}]
    BY <1>1 DEF StreamTypes
  <2>. QED BY <1>1, <1>2, <1>4, <2>1, <2>2 DEF StreamTypes, pipe
<1>6. Whereabouts'
  BY <1>1, <1>2, <1>3, TheTasks DEF Whereabouts, Leaving, Reading
<1>7. Buffers'
  <2>1. pc[Cat] \in Reading /\ Len(ubuf[Cat]) + left[Cat] = target /\ ubuf'[Wc] = ubuf[Wc] /\ \A q \in Shells : ubuf'[q] = ubuf[q] /\ pc'[q] = pc[q]
    BY <1>1, <1>2, <1>3, TheTasks DEF Buffers, Reading
  <2>2. Len(ubuf[Cat]) \in Nat /\ left[Cat] \in Nat
    BY <1>1, TheTasks DEF StreamTypes
  <2>3. pc'[Cat] \in Reading => ~ends
    BY <1>2, <1>3, TheTasks DEF Reading
  <2>4. ~ends => left'[Cat] > 0 /\ Len(ubuf'[Cat]) + left'[Cat] = target
    <3>1. SUFFICES ASSUME ~ends PROVE left'[Cat] > 0 /\ Len(ubuf'[Cat]) + left'[Cat] = target
      OBVIOUS
    <3>2. left'[p] = left[p] - 1 /\ left[p] > 1 /\ Len(ubuf'[p]) = Len(ubuf[p]) + 1
      BY <1>4, <3>1
    <3>3. left'[Cat] = left[Cat] - 1 /\ left[Cat] > 1 /\ Len(ubuf'[Cat]) = Len(ubuf[Cat]) + 1
      BY <1>3, <3>2
    <3> DEFINE a == Len(ubuf[Cat])
               b == left[Cat]
    <3>4. a \in Nat /\ b \in Nat /\ b > 1 /\ a + b = target
      BY <2>1, <2>2, <3>3
    <3>5. left'[Cat] = b - 1 /\ Len(ubuf'[Cat]) = a + 1
      BY <3>3
    <3> HIDE DEF a, b
    <3>6. b - 1 > 0 /\ (a + 1) + (b - 1) = target
      BY <3>4
    <3>. QED BY <3>5, <3>6
  <2>. QED BY <1>1, <1>3, <2>1, <2>3, <2>4 DEF Buffers
<1>8. Ends'
  BY <1>1, <1>2, EndsKept DEF StayAway, pipe
<1>9. Lines'
  <2> DEFINE m == Submitted
             n == Typed
  <2>1. /\ m > 0 /\ Submitted' = m - 1 /\ Typed' = n - 1
        /\ \A k \in 0..(n - 2) : InputByte(k)' = InputByte(k + 1)
    BY <1>1, TakeMoves
  <2>2. m \in 0..INPUT_BUF /\ n \in 0..INPUT_BUF /\ m <= n
    BY <1>1, InputPlaces
  <2>3. \A k \in m..(n - 1) : InputByte(k) \notin {NewLine, CtrlD}
    BY <1>1 DEF Lines
  <2> HIDE DEF m, n
  <2>4. Submitted' <= Typed' /\ Typed' <= INPUT_BUF
    BY <2>1, <2>2, Sizes
  <2>5. ASSUME NEW k \in Submitted'..(Typed' - 1)
        PROVE  InputByte(k)' \notin {NewLine, CtrlD}
    <3>1. k \in 0..(n - 2) /\ k + 1 \in m..(n - 1)
      BY <2>1, <2>2, Sizes
    <3>. QED BY <2>1, <2>3, <3>1
  <2>. QED BY <2>4, <2>5 DEF Lines
<1>10. InputQuiet'
  <2>1. ASSUME NEW q \in Tasks PROVE pc'[q] \notin {"con_sleep", "con_asleep"}
    <3>1. CASE q = p
      BY <1>2, <3>1
    <3>2. CASE q # p
      BY <1>1, <1>2, <1>3, <3>2, Who DEF Reading
    <3>. QED BY <3>1, <3>2
  <2>. QED BY <2>1 DEF InputQuiet
<1>11. PipeUntouched
  BY <1>1, <1>2, <1>3, TheTasks DEF PipeUntouched, pipe, Leaving
<1>. QED BY <1>5, <1>6, <1>7, <1>8, <1>9, <1>10, <1>11, PipeKept, Parts

\* consoleread() takes a byte.
LEMMA ConsoleByteKeeps ==
  ASSUME IInv, NEW p \in Tasks, ConsoleByte(p), UNCHANGED pipe
  PROVE  IInv'
<1> DEFINE c == buf[r % INPUT_BUF]
           ends == c = NewLine \/ left[p] = 1
<1>1. /\ StreamTypes /\ Whereabouts /\ Buffers /\ InConsole(p) /\ r # w /\ TakeInput(p, ends)
      /\ ubuf' = [ubuf EXCEPT ![p] = Append(@, c)]
  BY Parts DEF ConsoleByte
<1>2. p = Cat /\ pc[p] \in Reading
  BY <1>1, Who DEF InConsole, Reading
<1>3. c \in Byte
  <2>1. r \in Int
    BY <1>1, Sizes DEF StreamTypes, Counter
  <2>2. r % INPUT_BUF \in 0..(INPUT_BUF - 1)
    BY <2>1, Sizes, RemainderIs
  <2>. QED BY <1>1, <2>2 DEF StreamTypes, Byte
<1> HIDE DEF c
<1>4. ubuf[p] \in Seq(Byte) /\ Len(ubuf[p]) \in Nat /\ left[p] \in Nat
  BY <1>1 DEF StreamTypes
<1>5. /\ ubuf'[p] = Append(ubuf[p], c) /\ \A q \in Tasks \ {p} : ubuf'[q] = ubuf[q]
      /\ Append(ubuf[p], c) \in Seq(Byte) /\ Len(Append(ubuf[p], c)) = Len(ubuf[p]) + 1
  BY <1>1, <1>3, <1>4 DEF StreamTypes
<1>6. ubuf' \in [Tasks -> Seq(Byte)]
  BY <1>1, <1>5 DEF StreamTypes
<1>7. left[p] > 0 /\ Len(ubuf[p]) + left[p] = target
  BY <1>1, <1>2 DEF Buffers
<1>8. Len(ubuf'[p]) <= target /\ Len(ubuf'[p]) = Len(ubuf[p]) + 1
  <2>1. Len(ubuf'[p]) = Len(ubuf[p]) + 1
    BY <1>5
  <2> DEFINE a == Len(ubuf[p])
             b == left[p]
  <2>2. a \in Nat /\ b \in Nat /\ b > 0 /\ a + b = target
    BY <1>4, <1>7
  <2> HIDE DEF a, b
  <2>3. a + 1 <= target
    BY <2>2
  <2>. QED BY <2>1, <2>3 DEF a
<1>9. ends \in BOOLEAN /\ (ends \/ left[p] > 1)
  <2>1. left[p] = 1 \/ left[p] > 1
    BY <1>4, <1>7
  <2>. QED BY <2>1
<1> HIDE DEF ends
<1>10. ends \/ (left[p] > 1 /\ Len(ubuf'[p]) = Len(ubuf[p]) + 1)
  BY <1>8, <1>9
<1>. QED BY <1>1, <1>5, <1>6, <1>8, <1>9, <1>10, TakeInputKeeps

\* consoleread() meets a ^D.
LEMMA ConsoleEofKeeps ==
  ASSUME IInv, NEW p \in Tasks, ConsoleEof(p), UNCHANGED pipe
  PROVE  IInv'
<1>1. /\ StreamTypes /\ Whereabouts /\ Buffers /\ Ends /\ InConsole(p) /\ r # w /\ UNCHANGED ubuf
      /\ IF left[p] = target THEN TakeInput(p, TRUE)
         ELSE left' = [left EXCEPT ![p] = 0] /\ GoTo(p, "con_done") /\ UNCHANGED <<input, killed>>
  BY Parts DEF ConsoleEof, AtCtrlD
<1>2. p = Cat /\ pc[p] \in Reading
  BY <1>1, Who DEF InConsole, Reading
<1>3. CASE left[p] = target
  <2>1. /\ ubuf' \in [Tasks -> Seq(Byte)] /\ Len(ubuf'[p]) <= target
        /\ \A q \in Tasks \ {p} : ubuf'[q] = ubuf[q]
    BY <1>1, <1>2 DEF StreamTypes, Buffers
  <2>2. TakeInput(p, TRUE) /\ TRUE \in BOOLEAN
    BY <1>1, <1>3
  <2>. QED BY <1>1, <2>1, <2>2, TakeInputKeeps
<1>4. CASE left[p] # target
  <2>1. left' = [left EXCEPT ![p] = 0] /\ GoTo(p, "con_done") /\ UNCHANGED <<input, killed>>
    BY <1>1, <1>4
  <2>2. pc' \in [Tasks -> Places] /\ \A q \in Tasks : pc'[q] = IF q = p THEN "con_done" ELSE pc[q]
    <3>1. "con_done" \in Places
      BY DEF Places
    <3>. QED BY <1>1, <2>1, <3>1, GoesTo
  <2>3. StreamTypes'
    BY <1>1, <2>1, <2>2 DEF StreamTypes, pipe, input
  <2>4. Whereabouts'
    BY <1>1, <1>2, <2>2, TheTasks DEF Whereabouts, Leaving, Reading
  <2>5. Buffers'
    BY <1>1, <1>2, <2>2, TheTasks DEF Buffers, Reading
  <2>6. Ends'
    BY <1>1, <1>2, <2>2, EndsKept DEF StayAway, pipe, Reading
  <2>7. Lines' /\ InputQuiet'
    BY <2>1, <2>2, InputKept
  <2>8. PipeUntouched
    BY <1>1, <1>2, <2>1, <2>2 DEF PipeUntouched, pipe, Leaving, Reading
  <2>. QED BY <2>3, <2>4, <2>5, <2>6, <2>7, <2>8, PipeKept, Parts
<1>. QED BY <1>3, <1>4

-----------------------------------------------------------------------------
(* Every step keeps the invariant: the pipe *)

\* Where the processes go at a write.
LEMMA WritePlaces ==
  ASSUME StreamTypes, Whereabouts, NEW p \in Tasks, PipeWrite(p),
         NEW k, k = Least(Room, Len(ubuf[p]))
  PROVE  /\ p = Cat /\ pc[p] = "pw" /\ pc' \in [Tasks -> Places]
         /\ \/ pc'[p] = "pw_done"
            \/ pc'[p] = "pw_sleep" /\ readopen /\ k # Len(ubuf[p])
            \/ pc'[p] = "pw_failed" /\ (~readopen \/ killed[p]) /\ k # Len(ubuf[p])
         /\ \A q \in Tasks \ {p} : pc'[q] = pc[q] \/ (pc[q] = "pr_asleep" /\ pc'[q] = "pr")
         /\ pc'[p] # "pw_failed" => \A q \in Tasks : pc'[q] # "pr_asleep"
         /\ \A q \in Tasks : pc[q] \notin {"pr_sleep", "pw_sleep"}
<1>1. pc[p] = "pw" /\ p = Cat /\ \A q \in Tasks : pc[q] \notin {"pr_sleep", "pw_sleep"}
  BY Who DEF PipeWrite, PipeLockFree, At
<1>2. ASSUME NEW to \in {"pw_done", "pw_sleep"}, pc' = [Woken("pr_asleep") EXCEPT ![p] = to]
      PROVE  /\ pc' \in [Tasks -> Places] /\ pc'[p] = to
             /\ \A q \in Tasks \ {p} : pc'[q] = pc[q] \/ (pc[q] = "pr_asleep" /\ pc'[q] = "pr")
             /\ \A q \in Tasks : pc'[q] # "pr_asleep"
  <2>1. to \in Places
    BY DEF Places
  <2>2. pc' \in [Tasks -> Places] /\ \A q \in Tasks : pc'[q] = IF q = p THEN to ELSE Woken("pr_asleep")[q]
    BY <1>2, <2>1, WokenType
  <2>3. \A q \in Tasks : Woken("pr_asleep")[q] = IF pc[q] = "pr_asleep" THEN "pr" ELSE pc[q]
    BY WokenIs
  <2>. QED BY <1>2, <2>2, <2>3
<1>3. CASE k = Len(ubuf[p])
  <2>1. pc' = [Woken("pr_asleep") EXCEPT ![p] = "pw_done"]
    BY <1>3 DEF PipeWrite
  <2>. QED BY <1>1, <1>2, <2>1
<1>4. CASE k # Len(ubuf[p]) /\ (~readopen \/ killed[p])
  <2>1. pc' = [pc EXCEPT ![p] = "pw_failed"]
    BY <1>4 DEF PipeWrite
  <2>2. "pw_failed" \in Places
    BY DEF Places
  <2>3. pc' \in [Tasks -> Places] /\ \A q \in Tasks : pc'[q] = IF q = p THEN "pw_failed" ELSE pc[q]
    BY <2>1, <2>2 DEF StreamTypes
  <2>. QED BY <1>1, <1>4, <2>3
<1>5. CASE k # Len(ubuf[p]) /\ ~(~readopen \/ killed[p])
  <2>1. pc' = [Woken("pr_asleep") EXCEPT ![p] = "pw_sleep"]
    BY <1>5 DEF PipeWrite
  <2>. QED BY <1>1, <1>2, <1>5, <2>1
<1>. QED BY <1>3, <1>4, <1>5

\* A write fills the pipe, and wakes the reader unless the writer is killed.
LEMMA PipeWriteKeeps ==
  ASSUME IInv, NEW p \in Tasks, PipeWrite(p), UNCHANGED console
  PROVE  IInv'
<1> DEFINE k == Least(Room, Len(ubuf[p]))
<1>1. /\ StreamTypes /\ Whereabouts /\ Buffers /\ Ends /\ Fits /\ PipeQuiet /\ EofIsFinal
      /\ UNCHANGED <<nread, readopen, writeopen, kfreed, ref, killed>>
      /\ nwrite' = Plus(nwrite, k)
      /\ ubuf' = [ubuf EXCEPT ![p] = SubSeq(@, k + 1, Len(@))]
  BY Parts DEF PipeWrite
<1>2. /\ p = Cat /\ pc[p] = "pw" /\ pc' \in [Tasks -> Places]
      /\ \/ pc'[p] = "pw_done"
         \/ pc'[p] = "pw_sleep" /\ readopen /\ k # Len(ubuf[p])
         \/ pc'[p] = "pw_failed" /\ (~readopen \/ killed[p]) /\ k # Len(ubuf[p])
      /\ \A q \in Tasks \ {p} : pc'[q] = pc[q] \/ (pc[q] = "pr_asleep" /\ pc'[q] = "pr")
      /\ pc'[p] # "pw_failed" => \A q \in Tasks : pc'[q] # "pr_asleep"
      /\ \A q \in Tasks : pc[q] \notin {"pr_sleep", "pw_sleep"}
  BY <1>1, WritePlaces
<1>3. /\ k \in 0..Len(ubuf[p]) /\ (k < Len(ubuf[p]) => k = PIPESIZE - Stored)
      /\ k <= PIPESIZE - Stored /\ Stored' = Stored + k /\ data' \in [0..(PIPESIZE - 1) -> Byte]
  BY <1>1, WriteMoves
<1> HIDE DEF k
<1>4. ubuf[p] \in Seq(Byte) /\ Len(ubuf[p]) \in Nat /\ Stored \in 0..PIPESIZE
  BY <1>1, PipePlaces DEF StreamTypes
<1>5. /\ SubSeq(ubuf[p], k + 1, Len(ubuf[p])) \in Seq(Byte)
      /\ Len(SubSeq(ubuf[p], k + 1, Len(ubuf[p]))) <= Len(ubuf[p])
  BY <1>3, <1>4
<1>6. StreamTypes'
  <2>1. nwrite' \in Counter
    <3>1. nwrite \in Int /\ k \in Int
      BY <1>1, <1>3, Sizes DEF StreamTypes, Counter
    <3>. QED BY <1>1, <3>1, CounterType
  <2>2. ubuf' \in [Tasks -> Seq(Byte)]
    BY <1>1, <1>5 DEF StreamTypes
  <2>. QED BY <1>1, <1>2, <1>3, <2>1, <2>2 DEF StreamTypes, console
<1>7. Whereabouts'
  <2>1. pc'[Cat] \in {"pw_done", "pw_sleep", "pw_failed"}
    BY <1>2
  <2>. QED BY <1>1, <1>2, <2>1, TheTasks DEF Whereabouts, Leaving
<1>8. Buffers'
  <2>1. ubuf'[p] = SubSeq(ubuf[p], k + 1, Len(ubuf[p])) /\ \A q \in Tasks \ {p} : ubuf'[q] = ubuf[q]
    BY <1>1 DEF StreamTypes
  <2>2. Len(ubuf'[p]) \in Nat /\ Len(ubuf'[p]) <= Len(ubuf[p]) /\ Len(ubuf[p]) <= target
    BY <1>1, <1>2, <1>3, <1>4, <1>5, <2>1 DEF Buffers
  <2>3. pc'[Cat] \notin Reading /\ Len(ubuf'[Cat]) <= target
    BY <1>2, <1>4, <2>2, Sizes DEF Reading
  <2>. QED BY <1>1, <1>2, <2>1, <2>3, TheTasks DEF Buffers
<1>9. Ends'
  <2>1. StayAway
    <3>1. pc[p] = "pw" /\ pc'[p] \in {"pw_done", "pw_sleep", "pw_failed"}
      BY <1>2
    <3>. QED BY <1>2, <3>1 DEF StayAway
  <2>. QED BY <1>1, <2>1, EndsKept
<1>10. Lines' /\ InputQuiet'
  <2>1. \A q \in Tasks : pc'[q] \in {"con_sleep", "con_asleep"} => pc[q] \in {"con_sleep", "con_asleep"}
    BY <1>2
  <2>. QED BY <2>1, InputKept DEF console, input
<1>11. Fits'
  BY <1>3, <1>4, Sizes DEF Fits
<1>12. ASSUME k # Len(ubuf[p]) PROVE Stored' = PIPESIZE
  BY <1>3, <1>4, <1>12, Sizes
<1>13. ASSUME NEW q \in Tasks, pc'[q] \in {"pw_sleep", "pw_asleep"}
       PROVE  Stored' = PIPESIZE /\ readopen'
  <2>1. q = p
    BY <1>1, <1>2, <1>13, Who
  <2>. QED BY <1>1, <1>2, <1>12, <1>13, <2>1
<1>14. ASSUME NEW q \in Tasks, pc'[q] \in {"pr_sleep", "pr_asleep"}
       PROVE  writeopen' /\ (Stored' = 0 \/ (Stored' = PIPESIZE /\ \E x \in Writers : GaveUp(x)'))
  <2>1. pc'[p] = "pw_failed" /\ (~readopen \/ killed[p]) /\ k # Len(ubuf[p])
    BY <1>2, <1>14
  <2>2. q # p /\ pc[q] = "pr_asleep"
    BY <1>2, <1>14, <2>1
  <2>3. q = Wc /\ writeopen
    BY <1>1, <2>2, Who DEF PipeQuiet
  <2>4. readopen
    BY <1>1, <2>2, <2>3, TheTasks, ClosedMeansGone
  <2>5. GaveUp(p)'
    BY <1>1, <2>1, <2>4 DEF GaveUp, At
  <2>. QED BY <1>1, <1>2, <1>12, <2>1, <2>3, <2>5, TheTasks
<1>15. PipeQuiet'
  BY <1>13, <1>14 DEF PipeQuiet
<1>16. EofIsFinal'
  <2>1. SUFFICES ASSUME NEW q \in Readers, pc'[q] = "pr_done", ubuf'[q] = <<>>
                 PROVE  FALSE
    BY DEF EofIsFinal
  <2>2. q # p /\ pc[q] = "pr_done" /\ ubuf[q] = <<>>
    BY <1>1, <1>2, <2>1, TheTasks DEF StreamTypes
  <2>3. pc[Cat] = "exited"
    BY <1>1, <2>2, TheTasks DEF EofIsFinal
  <2>. QED BY <1>2, <2>3
<1>. QED BY <1>6, <1>7, <1>8, <1>9, <1>10, <1>11, <1>15, <1>16, Parts

\* A read that finds nothing sleeps, or fails.
LEMMA PipeReadWaitKeeps ==
  ASSUME IInv, NEW p \in Tasks, PipeReadWait(p), UNCHANGED console
  PROVE  IInv'
<1>1. PICK to \in {"pr_failed", "pr_sleep"} :
      /\ StreamTypes /\ Whereabouts /\ Buffers /\ Ends /\ Fits /\ PipeQuiet /\ EofIsFinal
      /\ pc[p] = "pr" /\ nread = nwrite /\ writeopen
      /\ GoTo(p, to) /\ UNCHANGED <<pipe, killed, ubuf>>
  BY Parts DEF PipeReadWait
<1>2. pc' \in [Tasks -> Places] /\ \A q \in Tasks : pc'[q] = IF q = p THEN to ELSE pc[q]
  <2>1. to \in Places
    BY DEF Places
  <2>. QED BY <1>1, <2>1, GoesTo
<1>3. p = Wc
  BY <1>1, Who
<1>4. StreamTypes'
  BY <1>1, <1>2 DEF StreamTypes, pipe, console
<1>5. Whereabouts'
  BY <1>1, <1>2, <1>3, TheTasks DEF Whereabouts, Leaving
<1>6. Buffers'
  BY <1>1, <1>2, <1>3, TheTasks DEF Buffers, console
<1>7. Ends'
  BY <1>1, <1>2, EndsKept DEF StayAway, pipe
<1>8. Lines' /\ InputQuiet'
  BY <1>1, <1>2, InputKept DEF console, input
<1>9. UNCHANGED <<nread, nwrite, readopen, writeopen, killed, ubuf>> /\ Stored' = Stored /\ Stored = 0
  BY <1>1, PipePlaces DEF pipe, Stored
<1>10. Fits'
  BY <1>1, <1>9 DEF Fits
<1>11. PipeQuiet'
  <2>1. ASSUME NEW q \in Tasks, pc'[q] \in {"pw_sleep", "pw_asleep"} PROVE Stored' = PIPESIZE /\ readopen'
    BY <1>1, <1>2, <1>9, <2>1 DEF PipeQuiet
  <2>2. ASSUME NEW q \in Tasks, pc'[q] \in {"pr_sleep", "pr_asleep"} PROVE writeopen' /\ Stored' = 0
    <3>1. q = p
      BY <1>1, <1>2, <1>3, <2>2, Who
    <3>. QED BY <1>1, <1>9
  <2>. QED BY <2>1, <2>2 DEF PipeQuiet
<1>12. EofIsFinal'
  BY <1>1, <1>2, <1>9, TheTasks DEF EofIsFinal
<1>. QED BY <1>4, <1>5, <1>6, <1>7, <1>8, <1>10, <1>11, <1>12, Parts

\* A read empties the pipe, or meets its end, and wakes the writer.
LEMMA PipeReadKeeps ==
  ASSUME IInv, NEW p \in Tasks, PipeRead(p, WcN), UNCHANGED console
  PROVE  IInv'
<1> DEFINE k == Least(Stored, WcN)
           got == [i \in 1..k |-> PipeByte(i - 1)]
<1>1. /\ StreamTypes /\ Whereabouts /\ Buffers /\ Ends /\ Fits /\ PipeQuiet /\ EofIsFinal
      /\ pc[p] = "pr" /\ (nread # nwrite \/ ~writeopen)
      /\ UNCHANGED <<nwrite, readopen, writeopen, kfreed, ref, killed>>
      /\ nread' = Plus(nread, k)
      /\ pc' = [Woken("pw_asleep") EXCEPT ![p] = "pr_done"]
  BY Parts DEF PipeRead
<1>2. /\ k \in 0..Stored /\ k <= WcN /\ (k = 0 => Stored = 0) /\ Stored' = Stored - k
      /\ ubuf' = [ubuf EXCEPT ![p] = got] /\ got \in Seq(Byte) /\ Len(got) = k
      /\ data' \in [0..(PIPESIZE - 1) -> Byte]
  BY <1>1, ReadMoves
<1> HIDE DEF k, got
<1>3. p = Wc
  BY <1>1, Who
<1>4. /\ pc' \in [Tasks -> Places] /\ pc'[p] = "pr_done"
      /\ \A q \in Tasks \ {p} : pc'[q] = pc[q] \/ (pc[q] = "pw_asleep" /\ pc'[q] = "pw")
      /\ \A q \in Tasks : pc'[q] \notin {"pw_sleep", "pw_asleep"}
  <2>1. "pr_done" \in Places
    BY DEF Places
  <2>2. pc' \in [Tasks -> Places] /\ \A q \in Tasks : pc'[q] = IF q = p THEN "pr_done" ELSE Woken("pw_asleep")[q]
    BY <1>1, <2>1, WokenType
  <2>3. \A q \in Tasks : Woken("pw_asleep")[q] = IF pc[q] = "pw_asleep" THEN "pw" ELSE pc[q]
    BY WokenIs
  <2>4. \A q \in Tasks : pc[q] # "pw_sleep"
    BY DEF PipeRead, PipeLockFree, At
  <2>. QED BY <2>2, <2>3, <2>4
<1>5. Stored \in 0..PIPESIZE /\ (nread = nwrite <=> Stored = 0)
  BY <1>1, PipePlaces
<1>6. StreamTypes'
  <2>1. nread' \in Counter
    <3>1. nread \in Int /\ k \in Int
      BY <1>1, <1>2, Sizes DEF StreamTypes, Counter
    <3>. QED BY <1>1, <3>1, CounterType
  <2>2. ubuf' \in [Tasks -> Seq(Byte)]
    BY <1>1, <1>2 DEF StreamTypes
  <2>. QED BY <1>1, <1>2, <1>4, <2>1, <2>2 DEF StreamTypes, console
<1>7. Whereabouts'
  BY <1>1, <1>3, <1>4, TheTasks DEF Whereabouts, Leaving
<1>8. Buffers'
  <2>1. ubuf'[p] = got /\ \A q \in Tasks \ {p} : ubuf'[q] = ubuf[q]
    BY <1>1, <1>2 DEF StreamTypes
  <2>2. pc'[Cat] \in Reading => pc[Cat] \in Reading
    BY <1>3, <1>4, TheTasks DEF Reading
  <2>. QED BY <1>1, <1>2, <1>3, <2>1, <2>2, TheTasks DEF Buffers, console
<1>9. Ends'
  <2>1. StayAway
    BY <1>1, <1>4 DEF StayAway
  <2>. QED BY <1>1, <2>1, EndsKept
<1>10. Lines' /\ InputQuiet'
  <2>1. \A q \in Tasks : pc'[q] \in {"con_sleep", "con_asleep"} => pc[q] \in {"con_sleep", "con_asleep"}
    BY <1>4
  <2>. QED BY <2>1, InputKept DEF console, input
<1>11. Fits'
  BY <1>2, <1>5, Sizes DEF Fits
<1>12. PipeQuiet'
  <2>1. \A q \in Tasks : pc'[q] \notin {"pr_sleep", "pr_asleep"}
    BY <1>1, <1>3, <1>4, Who
  <2>. QED BY <1>4, <2>1 DEF PipeQuiet
<1>13. EofIsFinal'
  <2>1. SUFFICES ASSUME NEW q \in Readers, pc'[q] = "pr_done", ubuf'[q] = <<>>
                 PROVE  Stored' = 0 /\ ~writeopen' /\ \A x \in Writers : pc'[x] = "exited"
    BY DEF EofIsFinal
  <2>2. q = p
    BY <1>1, <1>3, <1>4, <2>1, Who, TheTasks
  <2>3. got = <<>>
    BY <1>1, <1>2, <2>1, <2>2 DEF StreamTypes
  <2>4. k = 0 /\ Stored = 0
    BY <1>2, <2>3
  <2>5. ~writeopen /\ \A x \in Writers : pc[x] = "exited"
    BY <1>1, <1>5, <2>4, ClosedMeansGone
  <2>6. \A x \in Writers : pc'[x] = "exited"
    BY <1>1, <1>4, <2>5, TheTasks
  <2>. QED BY <1>1, <1>2, <2>4, <2>5, <2>6
<1>. QED BY <1>6, <1>7, <1>8, <1>9, <1>10, <1>11, <1>12, <1>13, Parts

-----------------------------------------------------------------------------
(* Every step keeps the invariant: the ends of the pipe *)

\* There are finitely many holders, and p is one of them until it closes.
LEMMA HoldersAreFinite ==
  /\ IsFiniteSet(Readers) /\ IsFiniteSet(Writers)
  /\ IsFiniteSet(Tasks)
  /\ Cardinality(Readers) \in 0..Cardinality(Tasks) /\ Cardinality(Writers) \in 0..Cardinality(Tasks)
<1>1. IsFiniteSet({Cat}) /\ IsFiniteSet({Wc}) /\ IsFiniteSet(Shells)
  BY FS_Singleton, StreamAssumption
<1>2. IsFiniteSet(Tasks)
  <2>1. IsFiniteSet({Cat} \cup {Wc})
    BY <1>1, FS_Union
  <2>2. IsFiniteSet(({Cat} \cup {Wc}) \cup Shells)
    BY <1>1, <2>1, FS_Union
  <2>3. Tasks = ({Cat} \cup {Wc}) \cup Shells
    BY StreamAssumption
  <2>. QED BY <2>2, <2>3
<1>3. Readers \subseteq Tasks /\ Writers \subseteq Tasks
  BY PipeAssumption
<1>4. IsFiniteSet(Readers) /\ Cardinality(Readers) <= Cardinality(Tasks)
  BY <1>2, <1>3, FS_Subset
<1>5. IsFiniteSet(Writers) /\ Cardinality(Writers) <= Cardinality(Tasks)
  BY <1>2, <1>3, FS_Subset
<1>6. Cardinality(Readers) \in Nat /\ Cardinality(Writers) \in Nat /\ Cardinality(Tasks) \in Nat
  BY <1>2, <1>4, <1>5, FS_CardinalityType
<1>. QED BY <1>2, <1>4, <1>5, <1>6

\* A process gives its reference up: the last one goes on to close the end.
LEMMA EndClosing ==
  ASSUME NEW S, IsFiniteSet(S), NEW p \in S, NEW n, NEW open, EndInv(S, n, open),
         pc[p] \notin {"pipeclose", "exited"},
         \A q \in S \ {p} : pc'[q] = pc[q],
         pc'[p] = IF n > 1 THEN "exited" ELSE "pipeclose"
  PROVE  /\ n \in Nat /\ n > 0 /\ Cardinality(Holding(S)') = n - 1
         /\ \A q \in S : pc'[q] = "pipeclose" => \A x \in S \ {q} : pc'[x] = "exited"
         /\ open /\ \E q \in S : pc'[q] # "exited"
<1> DEFINE H == Holding(S)
<1>1. IsFiniteSet(H) /\ p \in H /\ n = Cardinality(H)
  <2>1. H \subseteq S /\ p \in H
    BY DEF Holding
  <2>2. IsFiniteSet(H)
    BY <2>1, FS_Subset
  <2>. QED BY <2>1, <2>2 DEF EndInv
<1>2. H' = H \ {p}
  BY DEF Holding
<1>3. n \in Nat /\ n > 0 /\ IsFiniteSet(H \ {p}) /\ Cardinality(H \ {p}) = n - 1
  <2> HIDE DEF H
  <2>1. IsFiniteSet(H \ {p}) /\ Cardinality(H \ {p}) = Cardinality(H) - 1
    BY <1>1, FS_RemoveElement
  <2>2. Cardinality(H \ {p}) \in Nat /\ Cardinality(H) \in Nat
    BY <1>1, <2>1, FS_CardinalityType
  <2>. QED BY <1>1, <2>1, <2>2
<1>4. Cardinality(Holding(S)') = n - 1
  BY <1>2, <1>3
<1>5. \A q \in S : pc[q] # "pipeclose"
  <2>1. ASSUME NEW q \in S, pc[q] = "pipeclose" PROVE FALSE
    <3>1. p # q /\ \A x \in S \ {q} : pc[x] = "exited"
      BY <2>1 DEF EndInv
    <3>. QED BY <3>1
  <2>. QED BY <2>1
<1>6. CASE n > 1
  <2>1. PICK q \in H : q # p
    <3>1. SUFFICES ASSUME \A q \in H : q = p PROVE FALSE
      OBVIOUS
    <3>2. H \ {p} = {}
      BY <3>1
    <3>3. Cardinality(H \ {p}) = 0
      BY <3>2, FS_EmptySet
    <3>. QED BY <1>3, <1>6, <3>3
  <2>2. q \in S /\ pc'[q] # "exited"
    BY <2>1 DEF Holding
  <2>3. open
    BY DEF EndInv
  <2>4. \A x \in S : pc'[x] # "pipeclose"
    BY <1>5, <1>6
  <2>. QED BY <1>3, <1>4, <2>2, <2>3, <2>4 DEF EndInv
<1>7. CASE ~(n > 1)
  <2>1. H = {p}
    <3>1. Cardinality(H \ {p}) = 0
      BY <1>3, <1>7
    <3>2. H \ {p} = {}
      BY <1>3, <3>1, FS_EmptySet
    <3>. QED BY <1>1, <3>2
  <2>2. \A q \in S \ {p} : pc'[q] = "exited"
    BY <1>5, <2>1 DEF Holding
  <2>3. pc'[p] = "pipeclose" /\ open
    BY <1>7 DEF EndInv
  <2>. QED BY <1>3, <1>4, <2>2, <2>3 DEF EndInv
<1>. QED BY <1>3, <1>6, <1>7

\* fileclose(): one reference less.
LEMMA FileCloseKeeps ==
  ASSUME IInv, NEW p \in Tasks, FileClose(p), UNCHANGED console
  PROVE  IInv'
<1> DEFINE to == IF ref[End(p)] > 1 THEN "exited" ELSE "pipeclose"
<1>1. /\ StreamTypes /\ Whereabouts /\ Buffers /\ Ends
      /\ pc[p] = "close" /\ ref' = [ref EXCEPT ![End(p)] = @ - 1]
      /\ GoTo(p, to)
      /\ UNCHANGED <<data, nread, nwrite, readopen, writeopen, kfreed, killed, ubuf>>
  BY Parts DEF FileClose
<1>2. pc' \in [Tasks -> Places] /\ \A q \in Tasks : pc'[q] = IF q = p THEN to ELSE pc[q]
  <2>1. to \in Places
    BY DEF Places
  <2> HIDE DEF to
  <2>. QED BY <1>1, <2>1, GoesTo
<1>3. to \in {"exited", "pipeclose"}
  OBVIOUS
<1>4. /\ EndInv(Readers, ref["read"], readopen) /\ EndInv(Writers, ref["write"], writeopen)
      /\ ref \in [{"read", "write"} -> Nat]
  BY <1>1 DEF Ends, StreamTypes
<1>5. pc'[p] = to /\ \A q \in Tasks \ {p} : pc'[q] = pc[q]
  BY <1>2
<1>6. ASSUME p \in Writers
      PROVE  Ends' /\ ref' \in [{"read", "write"} -> Nat]
  <2>1. End(p) = "write" /\ p \notin Readers
    BY <1>6, TheTasks DEF End
  <2>2. ref'["read"] = ref["read"] /\ ref'["write"] = ref["write"] - 1 /\ ref["write"] \in Nat
    BY <1>1, <1>4, <2>1
  <2>3. \A q \in Readers : pc'[q] = pc[q]
    BY <1>5, <2>1, TheTasks
  <2>4. EndInv(Readers, ref["read"], readopen)'
    <3>1. {q \in Readers : pc'[q] \notin {"pipeclose", "exited"}} = {q \in Readers : pc[q] \notin {"pipeclose", "exited"}}
      BY <2>3
    <3>. QED BY <1>1, <1>4, <2>2, <2>3, <3>1 DEF EndInv, Holding
  <2>5. pc'[p] = IF ref["write"] > 1 THEN "exited" ELSE "pipeclose"
    BY <1>5, <2>1
  <2>6. /\ ref["write"] > 0 /\ Cardinality(Holding(Writers)') = ref["write"] - 1
        /\ \A q \in Writers : pc'[q] = "pipeclose" => \A x \in Writers \ {q} : pc'[x] = "exited"
        /\ writeopen /\ \E q \in Writers : pc'[q] # "exited"
    BY <1>1, <1>4, <1>5, <1>6, <2>5, TheTasks, HoldersAreFinite, EndClosing
  <2>7. EndInv(Writers, ref["write"], writeopen)'
    BY <1>1, <2>2, <2>6 DEF EndInv
  <2>8. ref' \in [{"read", "write"} -> Nat]
    BY <1>1, <1>4, <2>1, <2>2, <2>6
  <2>. QED BY <1>1, <2>4, <2>7, <2>8 DEF Ends
<1>7. ASSUME p \notin Writers
      PROVE  Ends' /\ ref' \in [{"read", "write"} -> Nat]
  <2>1. End(p) = "read" /\ p \in Readers
    BY <1>7, TheTasks DEF End
  <2>2. ref'["write"] = ref["write"] /\ ref'["read"] = ref["read"] - 1 /\ ref["read"] \in Nat
    BY <1>1, <1>4, <2>1
  <2>3. \A q \in Writers : pc'[q] = pc[q]
    BY <1>5, <1>7, TheTasks
  <2>4. EndInv(Writers, ref["write"], writeopen)'
    <3>1. {q \in Writers : pc'[q] \notin {"pipeclose", "exited"}} = {q \in Writers : pc[q] \notin {"pipeclose", "exited"}}
      BY <2>3
    <3>. QED BY <1>1, <1>4, <2>2, <2>3, <3>1 DEF EndInv, Holding
  <2>5. pc'[p] = IF ref["read"] > 1 THEN "exited" ELSE "pipeclose"
    BY <1>5, <2>1
  <2>6. /\ ref["read"] > 0 /\ Cardinality(Holding(Readers)') = ref["read"] - 1
        /\ \A q \in Readers : pc'[q] = "pipeclose" => \A x \in Readers \ {q} : pc'[x] = "exited"
        /\ readopen /\ \E q \in Readers : pc'[q] # "exited"
    BY <1>1, <1>4, <1>5, <2>1, <2>5, TheTasks, HoldersAreFinite, EndClosing
  <2>7. EndInv(Readers, ref["read"], readopen)'
    BY <1>1, <2>2, <2>6 DEF EndInv
  <2>8. ref' \in [{"read", "write"} -> Nat]
    BY <1>1, <1>4, <2>1, <2>2, <2>6
  <2>. QED BY <1>1, <2>4, <2>7, <2>8 DEF Ends
<1>8. Ends' /\ ref' \in [{"read", "write"} -> Nat]
  BY <1>6, <1>7
<1>9. StreamTypes'
  BY <1>1, <1>2, <1>8 DEF StreamTypes, console
<1> HIDE DEF to
<1>10. Whereabouts'
  BY <1>1, <1>2, <1>3, TheTasks DEF Whereabouts, Leaving
<1>11. Buffers'
  BY <1>1, <1>2, <1>3, TheTasks DEF Buffers, console, Reading
<1>12. Lines' /\ InputQuiet'
  BY <1>1, <1>2, <1>3, InputKept DEF console, input
<1>13. PipeUntouched
  BY <1>1, <1>2, <1>3 DEF PipeUntouched, Leaving
<1>. QED BY <1>8, <1>9, <1>10, <1>11, <1>12, <1>13, PipeKept, Parts

\* pipeclose(): the end is closed, and those who sleep at the other are woken.
LEMMA PipeCloseKeeps ==
  ASSUME IInv, NEW p \in Tasks, PipeClose(p), UNCHANGED console
  PROVE  IInv'
<1> DEFINE place == IF p \in Writers THEN "pr_asleep" ELSE "pw_asleep"
<1>1. /\ StreamTypes /\ Whereabouts /\ Buffers /\ Ends /\ Fits /\ PipeQuiet /\ EofIsFinal
      /\ pc[p] = "pipeclose" /\ pc' = [Woken(place) EXCEPT ![p] = "exited"]
      /\ UNCHANGED <<data, nread, nwrite, ref, killed, ubuf>>
      /\ kfreed' = IF ~readopen' /\ ~writeopen' THEN kfreed + 1 ELSE kfreed
  BY Parts DEF PipeClose
<1>2. IF p \in Writers THEN writeopen' = FALSE /\ UNCHANGED readopen
                       ELSE readopen' = FALSE /\ UNCHANGED writeopen
  BY DEF PipeClose
<1>3. /\ pc' \in [Tasks -> Places] /\ pc'[p] = "exited"
      /\ \A q \in Tasks \ {p} : pc'[q] = IF pc[q] = place THEN (IF p \in Writers THEN "pr" ELSE "pw") ELSE pc[q]
  <2>1. "exited" \in Places /\ place \in {"con_asleep", "pr_asleep", "pw_asleep"}
    BY DEF Places
  <2>2. \A q \in Tasks : Woken(place)[q] = IF pc[q] = place THEN (IF p \in Writers THEN "pr" ELSE "pw") ELSE pc[q]
    BY WokenIs
  <2> HIDE DEF place
  <2>3. pc' \in [Tasks -> Places] /\ \A q \in Tasks : pc'[q] = IF q = p THEN "exited" ELSE Woken(place)[q]
    BY <1>1, <2>1, WokenType
  <2>. QED BY <2>2, <2>3
<1>0. ASSUME NEW q \in Readers \cup Writers PROVE q \in Tasks
  BY TheTasks
<1>4. \A q \in Tasks \ {p} :
        /\ pc'[q] = "exited" <=> pc[q] = "exited"
        /\ pc'[q] = "pipeclose" <=> pc[q] = "pipeclose"
        /\ \/ pc'[q] = pc[q]
           \/ pc[q] = "pr_asleep" /\ pc'[q] = "pr"
           \/ pc[q] = "pw_asleep" /\ pc'[q] = "pw"
        /\ pc'[q] # place
  BY <1>3
<1>40. \A q \in Tasks : pc[q] \notin {"pr_sleep", "pw_sleep"} /\ pc'[q] \notin {"pr_sleep", "pw_sleep"}
  <2>1. \A q \in Tasks : pc[q] \notin {"pr_sleep", "pw_sleep"}
    BY DEF PipeClose, PipeLockFree, At
  <2>. QED BY <1>3, <1>4, <2>1
<1>5. /\ EndInv(Readers, ref["read"], readopen) /\ EndInv(Writers, ref["write"], writeopen)
      /\ kfreed = IF readopen \/ writeopen THEN 0 ELSE 1
  BY <1>1 DEF Ends
<1>6. ASSUME p \in Writers
      PROVE  Ends' /\ \A q \in Tasks : pc'[q] \notin Sleeping
  <2>1. p \notin Readers /\ writeopen' = FALSE /\ readopen' = readopen /\ writeopen
    BY <1>1, <1>2, <1>5, <1>6, TheTasks DEF EndInv
  <2>2. \A q \in Writers \ {p} : pc[q] = "exited" /\ pc'[q] = "exited"
    <3>1. SUFFICES ASSUME NEW q \in Writers \ {p} PROVE pc[q] = "exited" /\ pc'[q] = "exited"
      OBVIOUS
    <3>2. pc[q] = "exited"
      BY <1>1, <1>5, <1>6 DEF EndInv
    <3>3. q \in Tasks \ {p}
      BY <1>0
    <3>. QED BY <1>4, <3>2, <3>3
  <2>3. EndInv(Writers, ref["write"], writeopen)'
    <3>1. {q \in Writers : pc'[q] \notin {"pipeclose", "exited"}} = {q \in Writers : pc[q] \notin {"pipeclose", "exited"}}
      BY <1>1, <1>3, <1>6, <2>2
    <3>2. \A q \in Writers : pc'[q] = "exited"
      BY <1>3, <2>2
    <3>. QED BY <1>1, <1>5, <2>1, <3>1, <3>2 DEF EndInv, Holding
  <2>4. EndInv(Readers, ref["read"], readopen)'
    <3>1. \A q \in Readers : (pc'[q] = "exited" <=> pc[q] = "exited") /\ (pc'[q] = "pipeclose" <=> pc[q] = "pipeclose")
      <4>1. \A q \in Readers : q \in Tasks \ {p}
        BY <1>0, <2>1
      <4>. QED BY <1>4, <4>1
    <3>2. {q \in Readers : pc'[q] \notin {"pipeclose", "exited"}} = {q \in Readers : pc[q] \notin {"pipeclose", "exited"}}
      BY <3>1
    <3>. QED BY <1>1, <1>5, <2>1, <3>1, <3>2 DEF EndInv, Holding
  <2>5. kfreed' = IF readopen' \/ writeopen' THEN 0 ELSE 1
    BY <1>1, <1>5, <2>1
  <2>6. \A q \in Tasks : pc'[q] \notin Sleeping
    <3>1. pc[Cat] = "pipeclose" \/ pc[Cat] = "exited"
      BY <1>1, <2>2, TheTasks
    <3>2. \A q \in Tasks : pc'[q] # "pr_asleep" /\ pc'[q] # "pw_asleep"
      BY <1>1, <1>3, <1>4, <1>6, <3>1, Who
    <3>. QED BY <1>40, <3>2 DEF Sleeping
  <2>. QED BY <2>1, <2>3, <2>4, <2>5, <2>6 DEF Ends
<1>7. ASSUME p \notin Writers
      PROVE  Ends' /\ \A q \in Tasks : pc'[q] \notin Sleeping
  <2>1. p \in Readers /\ readopen' = FALSE /\ writeopen' = writeopen /\ readopen
    BY <1>1, <1>2, <1>5, <1>7, TheTasks DEF EndInv
  <2>2. \A q \in Readers \ {p} : pc[q] = "exited" /\ pc'[q] = "exited"
    <3>1. SUFFICES ASSUME NEW q \in Readers \ {p} PROVE pc[q] = "exited" /\ pc'[q] = "exited"
      OBVIOUS
    <3>2. pc[q] = "exited"
      BY <1>1, <1>5, <2>1 DEF EndInv
    <3>3. q \in Tasks \ {p}
      BY <1>0
    <3>. QED BY <1>4, <3>2, <3>3
  <2>3. EndInv(Readers, ref["read"], readopen)'
    <3>1. {q \in Readers : pc'[q] \notin {"pipeclose", "exited"}} = {q \in Readers : pc[q] \notin {"pipeclose", "exited"}}
      BY <1>1, <1>3, <2>1, <2>2
    <3>2. \A q \in Readers : pc'[q] = "exited"
      BY <1>3, <2>2
    <3>. QED BY <1>1, <1>5, <2>1, <3>1, <3>2 DEF EndInv, Holding
  <2>4. EndInv(Writers, ref["write"], writeopen)'
    <3>1. \A q \in Writers : (pc'[q] = "exited" <=> pc[q] = "exited") /\ (pc'[q] = "pipeclose" <=> pc[q] = "pipeclose")
      <4>1. \A q \in Writers : q \in Tasks \ {p}
        BY <1>0, <1>7
      <4>. QED BY <1>4, <4>1
    <3>2. {q \in Writers : pc'[q] \notin {"pipeclose", "exited"}} = {q \in Writers : pc[q] \notin {"pipeclose", "exited"}}
      BY <3>1
    <3>. QED BY <1>1, <1>5, <2>1, <3>1, <3>2 DEF EndInv, Holding
  <2>5. kfreed' = IF readopen' \/ writeopen' THEN 0 ELSE 1
    BY <1>1, <1>5, <2>1
  <2>6. \A q \in Tasks : pc'[q] \notin Sleeping
    <3>1. pc[Wc] = "pipeclose" \/ pc[Wc] = "exited"
      BY <1>1, <2>2, TheTasks
    <3>2. \A q \in Tasks : pc'[q] # "pr_asleep" /\ pc'[q] # "pw_asleep"
      BY <1>1, <1>3, <1>4, <1>7, <3>1, Who
    <3>. QED BY <1>40, <3>2 DEF Sleeping
  <2>. QED BY <2>1, <2>3, <2>4, <2>5, <2>6 DEF Ends
<1>8. /\ Ends' /\ \A q \in Tasks : pc'[q] \notin Sleeping
  BY <1>6, <1>7
<1>9. /\ readopen' \in BOOLEAN /\ writeopen' \in BOOLEAN /\ kfreed' \in {0, 1}
      /\ writeopen' => writeopen
  <2>1. readopen \in BOOLEAN /\ writeopen \in BOOLEAN
    BY <1>1 DEF StreamTypes
  <2>2. kfreed' \in {0, 1}
    BY <1>8 DEF Ends
  <2>. QED BY <1>2, <2>1, <2>2
<1>10. StreamTypes'
  BY <1>1, <1>3, <1>9 DEF StreamTypes, console
<1> HIDE DEF place
<1>11. Whereabouts'
  <2>1. \A q \in Tasks :
                        \/ pc'[q] = pc[q]
                        \/ pc'[q] = "exited" /\ pc[q] = "pipeclose"
                        \/ pc[q] = "pr_asleep" /\ pc'[q] = "pr"
                        \/ pc[q] = "pw_asleep" /\ pc'[q] = "pw"
    BY <1>1, <1>3, <1>4
  <2>. QED BY <1>1, <2>1, TheTasks DEF Whereabouts, Leaving, Reading
<1>12. Buffers'
  BY <1>1, <1>3, <1>4, TheTasks DEF Buffers, console, Reading
<1>13. Lines' /\ InputQuiet'
  <2>1. \A q \in Tasks : pc'[q] \in {"con_sleep", "con_asleep"} => pc[q] \in {"con_sleep", "con_asleep"}
    BY <1>3, <1>4
  <2>. QED BY <2>1, InputKept DEF console, input
<1>14. Stored' = Stored /\ Fits'
  BY <1>1 DEF Stored, Fits
<1>15. PipeQuiet'
  BY <1>8 DEF PipeQuiet, Sleeping
<1>16. EofIsFinal'
  <2>1. SUFFICES ASSUME NEW q \in Readers, pc'[q] = "pr_done", ubuf'[q] = <<>>
                 PROVE  Stored' = 0 /\ ~writeopen' /\ \A x \in Writers : pc'[x] = "exited"
    BY DEF EofIsFinal
  <2>2. pc[q] = "pr_done" /\ ubuf[q] = <<>>
    BY <1>1, <1>3, <1>4, <2>1, TheTasks
  <2>3. Stored = 0 /\ ~writeopen /\ \A x \in Writers : pc[x] = "exited"
    BY <1>1, <2>2 DEF EofIsFinal
  <2>4. \A x \in Writers : pc'[x] = "exited"
    <3>1. SUFFICES ASSUME NEW x \in Writers PROVE pc'[x] = "exited"
      OBVIOUS
    <3>2. pc[x] = "exited" /\ x \in Tasks \ {p}
      BY <1>0, <1>1, <2>3
    <3>. QED BY <1>4, <3>2
  <2>. QED BY <1>9, <1>14, <2>3, <2>4
<1>. QED BY <1>8, <1>10, <1>11, <1>12, <1>13, <1>14, <1>15, <1>16, Parts

-----------------------------------------------------------------------------
(* The invariant holds *)

\* At first nobody has read or written, and each end is held by its processes.
LEMMA InitHolds == Init => IInv
<1>1. SUFFICES ASSUME Init PROVE IInv
  OBVIOUS
<1>2. /\ buf = [i \in 0..(INPUT_BUF - 1) |-> Blank] /\ r = 0 /\ w = 0 /\ e = 0
      /\ left = [p \in Tasks |-> 0]
      /\ data = [i \in 0..(PIPESIZE - 1) |-> Empty] /\ nread = 0 /\ nwrite = 0
      /\ readopen = TRUE /\ writeopen = TRUE /\ kfreed = 0
      /\ ref = [read |-> Cardinality(Readers), write |-> Cardinality(Writers)]
      /\ killed = [p \in Tasks |-> FALSE] /\ ubuf = [p \in Tasks |-> <<>>]
      /\ pc = [p \in Tasks |-> IF p \in Shells THEN "close" ELSE "user"]
  BY <1>1 DEF Init, ConsoleInit, PipeInit
<1>3. 0 \in Counter /\ 0 \in Int
  BY Sizes DEF Counter
<1>4. \A p \in Tasks : pc[p] = "close" \/ pc[p] = "user"
  BY <1>2
<1>5. StreamTypes
  <2>1. pc \in [Tasks -> Places]
    <3>1. "close" \in Places /\ "user" \in Places
      BY DEF Places
    <3>. QED BY <1>2, <3>1
  <2>2. ref \in [{"read", "write"} -> Nat]
    <3>1. Cardinality(Readers) \in Nat /\ Cardinality(Writers) \in Nat
      BY HoldersAreFinite, FS_CardinalityType
    <3>. QED BY <1>2, <3>1
  <2>3. ubuf \in [Tasks -> Seq(Byte)] /\ killed \in [Tasks -> BOOLEAN]
    BY <1>2
  <2>4. buf \in [0..(INPUT_BUF - 1) -> Chars \cup {Blank}] /\ data \in [0..(PIPESIZE - 1) -> Byte]
    BY <1>2 DEF Byte
  <2>. QED BY <1>2, <1>3, <2>1, <2>2, <2>3, <2>4 DEF StreamTypes
<1>6. Whereabouts
  BY <1>2, TheTasks DEF Whereabouts, Leaving
<1>7. Buffers
  <2>1. pc[Cat] = "user" /\ \A p \in Tasks : ubuf[p] = <<>>
    BY <1>2, TheTasks
  <2>2. Len(<<>>) = 0
    OBVIOUS
  <2>. QED BY <2>1, <2>2, TheTasks, Sizes DEF Buffers, Reading
<1>8. Ends
  <2>1. {p \in Readers : pc[p] \notin {"pipeclose", "exited"}} = Readers
    BY <1>4, TheTasks
  <2>2. {p \in Writers : pc[p] \notin {"pipeclose", "exited"}} = Writers
    BY <1>4, TheTasks
  <2>3. pc[Wc] # "exited" /\ pc[Cat] # "exited"
    BY <1>4, TheTasks
  <2>4. EndInv(Readers, ref["read"], readopen)
    BY <1>2, <1>4, <2>1, <2>3, TheTasks DEF EndInv, Holding
  <2>5. EndInv(Writers, ref["write"], writeopen)
    BY <1>2, <1>4, <2>2, <2>3, TheTasks DEF EndInv, Holding
  <2>. QED BY <1>2, <2>4, <2>5 DEF Ends
<1>9. Minus(0, 0) = 0
  BY <1>3, DistanceNone
<1>10. Lines
  BY <1>2, <1>9, Sizes DEF Lines, Submitted, Typed
<1>11. Fits /\ Stored = 0
  BY <1>2, <1>9, Sizes DEF Fits, Stored
<1>12. InputQuiet /\ PipeQuiet /\ EofIsFinal
  BY <1>4, TheTasks DEF InputQuiet, PipeQuiet, EofIsFinal
<1>. QED BY <1>5, <1>6, <1>7, <1>8, <1>10, <1>11, <1>12 DEF IInv

\* Every step keeps it.
LEMMA StepHolds == IInv /\ [Next]_vars => IInv'
<1>1. SUFFICES ASSUME IInv, [Next]_vars PROVE IInv'
  OBVIOUS
<1>2. ASSUME NEW p \in Tasks, Program(p) PROVE IInv'
  <2>1. CASE p = Cat /\ CatReads
    BY <1>1, <2>1, CatReadsKeeps
  <2>2. CASE p = Wc /\ WcReads
    BY <1>1, <2>2, WcReadsKeeps
  <2>3. CASE Exit(p)
    BY <1>1, <2>3, ExitKeeps
  <2>4. CASE GoesOn(p)
    BY <1>1, <2>4, GoesOnKeeps
  <2>5. CASE ConsoleStep(p) /\ UNCHANGED pipe
    BY <1>1, <2>5, ConsoleWaitKeeps, ConsoleEofKeeps, ConsoleByteKeeps DEF ConsoleStep
  <2>6. CASE PipeWrite(p) /\ UNCHANGED console
    BY <1>1, <2>6, PipeWriteKeeps
  <2>7. CASE PipeReadWait(p) /\ UNCHANGED console
    BY <1>1, <2>7, PipeReadWaitKeeps
  <2>8. CASE PipeRead(p, WcN) /\ UNCHANGED console
    BY <1>1, <2>8, PipeReadKeeps
  <2>9. CASE Close(p) /\ UNCHANGED console
    BY <1>1, <2>9, FileCloseKeeps, PipeCloseKeeps DEF Close
  <2>10. CASE Sleep(p) /\ UNCHANGED <<console, pipe>>
    BY <1>1, <2>10, SleepKeeps
  <2>. QED BY <1>2, <2>1, <2>2, <2>3, <2>4, <2>5, <2>6, <2>7, <2>8, <2>9, <2>10 DEF Program
<1>3. CASE Type /\ UNCHANGED pipe
  BY <1>1, <1>3, TypeCharKeeps, EditingKeeps DEF Type
<1>4. ASSUME NEW p \in {Cat, Wc}, Kill(p), UNCHANGED <<console, pipe>> PROVE IInv'
  BY <1>1, <1>4, TheTasks, KillKeeps
<1>5. CASE UNCHANGED vars
  <2>1. UNCHANGED <<console, pipe, pc, killed, ubuf>>
    BY <1>5 DEF vars, task
  <2>2. /\ StreamTypes /\ Whereabouts /\ Buffers /\ Ends
    BY <1>1, Parts
  <2>3. StreamTypes' /\ Whereabouts' /\ Buffers'
    BY <2>1, <2>2 DEF StreamTypes, Whereabouts, Buffers, console, pipe
  <2>4. Ends'
    BY <2>1, <2>2, EndsKept DEF StayAway, pipe
  <2>5. Lines' /\ InputQuiet'
    BY <1>1, <2>1, InputKept DEF console, input
  <2>6. PipeUntouched
    BY <2>1 DEF PipeUntouched, pipe
  <2>. QED BY <1>1, <2>3, <2>4, <2>5, <2>6, PipeKept, Parts
<1>. QED BY <1>1, <1>2, <1>3, <1>4, <1>5 DEF Next

\* It always holds.
LEMMA IInvHolds == Spec => []IInv
<1>. QED BY InitHolds, StepHolds, PTL DEF Spec

\* It says what the runs check.
LEMMA InvariantSuffices == IInv => StreamInv
<1>1. SUFFICES ASSUME IInv PROVE StreamInv
  OBVIOUS
<1>2. StreamTypes /\ Whereabouts /\ Buffers /\ Ends /\ Fits /\ InputQuiet /\ PipeQuiet /\ EofIsFinal
  BY <1>1, Parts
<1>3. ConsoleTypeOK
  BY <1>2 DEF ConsoleTypeOK, StreamTypes, Counter
<1>4. PipeTypeOK
  <2>1. ref \in [{"read", "write"} -> 0..Cardinality(Tasks)]
    <3>1. ASSUME NEW S, IsFiniteSet(S), Cardinality(S) \in 0..Cardinality(Tasks),
                 NEW n, NEW open, EndInv(S, n, open)
          PROVE  n \in 0..Cardinality(Tasks)
      <4>1. Holding(S) \subseteq S
        BY DEF Holding
      <4>2. IsFiniteSet(Holding(S)) /\ Cardinality(Holding(S)) <= Cardinality(S)
        BY <3>1, <4>1, FS_Subset
      <4>3. Cardinality(Holding(S)) \in Nat /\ Cardinality(Tasks) \in Nat
        BY <4>2, HoldersAreFinite, FS_CardinalityType
      <4>. QED BY <3>1, <4>2, <4>3 DEF EndInv
    <3>2. ref["read"] \in 0..Cardinality(Tasks) /\ ref["write"] \in 0..Cardinality(Tasks)
      BY <1>2, <3>1, HoldersAreFinite DEF Ends
    <3>. QED BY <1>2, <3>2 DEF StreamTypes
  <2>. QED BY <1>2, <2>1 DEF PipeTypeOK, StreamTypes, Counter, Fits
<1>5. \A p \in Tasks : Len(ubuf[p]) <= target + WcN
  <2>1. ASSUME NEW p \in Tasks PROVE Len(ubuf[p]) <= target + WcN
    <3>1. Len(<<>>) = 0 /\ Len(ubuf[p]) \in Nat
      BY <1>2 DEF StreamTypes
    <3>2. Len(ubuf[p]) <= target \/ Len(ubuf[p]) <= WcN
      BY <1>2, <3>1, TheTasks, Sizes DEF Buffers
    <3>. QED BY <3>1, <3>2, Sizes
  <2>. QED BY <2>1
<1>6. TypeOK
  BY <1>2, <1>3, <1>4, <1>5 DEF TypeOK, StreamTypes
<1>7. InputNoticed /\ PipeNoticed
  BY <1>2 DEF InputQuiet, PipeQuiet, InputNoticed, PipeNoticed
<1>. QED BY <1>2, <1>6, <1>7, ClosedMeansGone DEF StreamInv

\* Nobody sleeps on the console or the pipe that could go on, the end of the
\* pipe is read only when it is the end, and its page is freed once and unused
\* (console.c:230-278, pipe.c:58-130, file.c:69), for any sizes, any shells and
\* any reads.
THEOREM NobodyMissesTheOther == Spec => []StreamInv
<1>. QED BY IInvHolds, InvariantSuffices, PTL

-----------------------------------------------------------------------------
(* The console implements a terminal *)

\* Two sequences of the same length and elements.
LEMMA SameSequence ==
  ASSUME NEW S, NEW s \in Seq(S), NEW t \in Seq(S), Len(s) = Len(t),
         \A i \in 1..Len(s) : s[i] = t[i]
  PROVE  s = t
OBVIOUS

\* What the terminal shows of the buffer.
InputSeqs ==
  /\ Submitted \in Nat /\ Typed \in Nat /\ Submitted <= Typed
  /\ Bytes(r, w) \in Seq(Byte) /\ Len(Bytes(r, w)) = Submitted
  /\ \A j \in 0..(Submitted - 1) : Bytes(r, w)[j + 1] = InputByte(j)
  /\ Bytes(w, e) \in Seq(Byte) /\ Len(Bytes(w, e)) = Typed - Submitted
  /\ \A j \in Submitted..(Typed - 1) : Bytes(w, e)[(j - Submitted) + 1] = InputByte(j)

\* Its lines are the bytes up to w, and from w to e.
LEMMA BytesAre == IInv => InputSeqs
<1>1. SUFFICES ASSUME IInv PROVE InputSeqs
  OBVIOUS
<1>2. StreamTypes /\ Lines
  BY <1>1, Parts
<1> DEFINE m == Submitted
           n == Typed
<1>3. /\ m \in 0..INPUT_BUF /\ n \in 0..INPUT_BUF /\ m <= n /\ m \in Int /\ n \in Int /\ m \in Nat /\ n \in Nat
      /\ w = Plus(r, m) /\ e = Plus(r, n) /\ r \in Int /\ Ring(INPUT_BUF)
  BY <1>2, InputPlaces, Sizes
<1>4. \A k \in 0..(n - 1) : InputByte(k) \in Byte
  <2>1. ASSUME NEW k \in 0..(n - 1) PROVE InputByte(k) \in Byte
    <3>1. k \in 0..INPUT_BUF
      BY <1>3, Sizes
    <3>2. Plus(r, k) % INPUT_BUF \in 0..(INPUT_BUF - 1)
      BY <1>2, <3>1, InputSteps
    <3>. QED BY <1>2, <3>2 DEF StreamTypes, InputByte, Byte
  <2>. QED BY <2>1
<1>5. Bytes(r, w) = [k \in 1..m |-> InputByte(k - 1)]
  BY DEF Bytes, Submitted, InputByte
<1> HIDE DEF m, n
<1>6. Bytes(w, e) = [k \in 1..(n - m) |-> InputByte(m + (k - 1))]
  <2>1. Minus(e, w) = n - m
    BY <1>3, Distance, Sizes
  <2>2. ASSUME NEW k \in 1..(n - m) PROVE Plus(w, k - 1) = Plus(r, m + (k - 1))
    <3>1. k - 1 \in Int
      OBVIOUS
    <3>. QED BY <1>3, <3>1, PlusPlus
  <2>. QED BY <2>1, <2>2 DEF Bytes, InputByte
<1>7. \A k \in 1..m : k - 1 \in 0..(n - 1)
  BY <1>3
<1>8. \A k \in 1..(n - m) : m + (k - 1) \in 0..(n - 1)
  BY <1>3
<1>9. n - m \in Nat
  BY <1>3
<1>10. /\ Bytes(r, w) \in Seq(Byte) /\ Len(Bytes(r, w)) = m
       /\ \A k \in 1..m : Bytes(r, w)[k] = InputByte(k - 1)
  BY <1>3, <1>4, <1>5, <1>7
<1>11. /\ Bytes(w, e) \in Seq(Byte) /\ Len(Bytes(w, e)) = n - m
       /\ \A k \in 1..(n - m) : Bytes(w, e)[k] = InputByte(m + (k - 1))
  BY <1>4, <1>6, <1>8, <1>9
<1>12. ASSUME NEW j \in 0..(m - 1) PROVE Bytes(r, w)[j + 1] = InputByte(j)
  <2>1. j + 1 \in 1..m /\ (j + 1) - 1 = j
    BY <1>3
  <2>. QED BY <1>10, <2>1
<1>13. ASSUME NEW j \in m..(n - 1) PROVE Bytes(w, e)[(j - m) + 1] = InputByte(j)
  <2>1. (j - m) + 1 \in 1..(n - m) /\ m + (((j - m) + 1) - 1) = j
    BY <1>3
  <2>. QED BY <1>11, <2>1
<1>. QED BY <1>3, <1>10, <1>11, <1>12, <1>13 DEF InputSeqs, m, n

\* Before and after a step.
LEMMA BytesBoth == IInv /\ IInv' => InputSeqs /\ InputSeqs'
<1>1. IInv => InputSeqs
  BY BytesAre
<1>. QED BY <1>1, PTL

\* A buffer that is not touched shows the same.
LEMMA TerminalKept ==
  ASSUME UNCHANGED input
  PROVE  Bytes(r, w)' = Bytes(r, w) /\ Bytes(w, e)' = Bytes(w, e)
BY DEF input, Bytes

\* The terminal sees what a program does elsewhere with its buffer.
LEMMA ElsewhereSeen ==
  ASSUME UNCHANGED input, NEW k \in 1..(Len(ubuf[Cat]) + 1),
         ubuf'[Cat] = SubSeq(ubuf[Cat], k, Len(ubuf[Cat]))
  PROVE  Tty!Next
<1>1. Bytes(r, w)' = Bytes(r, w) /\ Bytes(w, e)' = Bytes(w, e)
  BY TerminalKept
<1>2. \A p \in Typists : p = Cat
  BY StreamAssumption
<1>. QED BY <1>1, <1>2 DEF Tty!Next, Tty!Elsewhere

\* A buffer that is emptied or left alone is one that is used up.
LEMMA UsedUp ==
  ASSUME StreamTypes, ubuf'[Cat] \in {ubuf[Cat], <<>>}
  PROVE  \E k \in 1..(Len(ubuf[Cat]) + 1) : ubuf'[Cat] = SubSeq(ubuf[Cat], k, Len(ubuf[Cat]))
<1> DEFINE s == ubuf[Cat]
<1>1. s \in Seq(Byte) /\ Len(s) \in Nat
  BY TheTasks DEF StreamTypes
<1> HIDE DEF s
<1>2. SubSeq(s, 1, Len(s)) = s /\ SubSeq(s, Len(s) + 1, Len(s)) = <<>>
  BY <1>1
<1>3. 1 \in 1..(Len(s) + 1) /\ Len(s) + 1 \in 1..(Len(s) + 1)
  BY <1>1
<1>. QED BY <1>2, <1>3 DEF s

\* A key is put behind the line.
LEMMA KeySeen ==
  ASSUME IInv, IInv', NEW c \in Chars, TypeChar(c)
  PROVE  Tty!Key(c)
<1> DEFINE m == Submitted
           n == Typed
           R == Bytes(r, w)
           L == Bytes(w, e)
           full == Submits(c)
<1>1. InputSeqs /\ InputSeqs'
  BY BytesBoth
<1>2. /\ n < INPUT_BUF /\ Typed' = n + 1
      /\ full <=> c \in {NewLine, CtrlD} \/ n + 1 = INPUT_BUF
      /\ Submitted' = IF full THEN n + 1 ELSE m
      /\ \A k \in 0..n : InputByte(k)' = IF k = n THEN c ELSE InputByte(k)
  <2>1. StreamTypes /\ Lines
    BY Parts
  <2>. QED BY <2>1, TypeCharMoves
<1>3. UNCHANGED ubuf
  BY DEF TypeChar
<1>4. /\ m \in Nat /\ n \in Nat /\ m <= n /\ R \in Seq(Byte) /\ L \in Seq(Byte)
      /\ Len(R) = m /\ Len(L) = n - m
      /\ \A j \in 0..(m - 1) : R[j + 1] = InputByte(j)
      /\ \A j \in m..(n - 1) : L[(j - m) + 1] = InputByte(j)
  BY <1>1 DEF InputSeqs
<1>5. /\ R' \in Seq(Byte) /\ L' \in Seq(Byte) /\ Len(R') = Submitted' /\ Len(L') = Typed' - Submitted'
      /\ \A j \in 0..(Submitted' - 1) : R'[j + 1] = InputByte(j)'
      /\ \A j \in Submitted'..(Typed' - 1) : L'[(j - Submitted') + 1] = InputByte(j)'
  BY <1>1 DEF InputSeqs
<1>6. c \in Byte /\ INPUT_BUF \in Nat
  BY Sizes DEF Byte
<1> DEFINE b == [j \in 0..n |-> InputByte(j)']
<1>7. \A j \in 0..n : InputByte(j)' = b[j] /\ b[j] = IF j = n THEN c ELSE InputByte(j)
  BY <1>2
<1> HIDE DEF m, n, R, L, b
<1>8. m \in Nat /\ n \in Nat /\ m <= n /\ m + ((n - m) + 1) = n + 1
  BY <1>4
<1>9. Len(R) + Len(L) = n /\ Append(L, c) \in Seq(Byte) /\ Len(Append(L, c)) = (n - m) + 1
      /\ \A i \in 1..((n - m) + 1) : Append(L, c)[i] = IF i = (n - m) + 1 THEN c ELSE L[i]
  BY <1>4, <1>6
<1>10. CASE full
  <2>1. /\ Len(R') = n + 1 /\ Len(L') = 0 /\ \A j \in 0..n : R'[j + 1] = b[j]
    BY <1>2, <1>4, <1>5, <1>7, <1>10
  <2>2. L' = <<>>
    BY <1>5, <2>1
  <2> DEFINE T == R \o Append(L, c)
  <2>3. T \in Seq(Byte) /\ Len(T) = n + 1
    <3>1. T \in Seq(Byte) /\ Len(T) = Len(R) + Len(Append(L, c))
      BY <1>4, <1>9
    <3>. QED BY <1>4, <1>9, <1>8, <3>1
  <2>4. \A i \in 1..(n + 1) : T[i] = IF i <= m THEN R[i] ELSE Append(L, c)[i - m]
    BY <1>4, <1>9
  <2> HIDE DEF T
  <2>5. ASSUME NEW i \in 1..(n + 1) PROVE R'[i] = T[i]
    <3>1. i - 1 \in 0..n /\ (i - 1) + 1 = i /\ R'[i] = b[i - 1]
      <4>1. i - 1 \in 0..n /\ (i - 1) + 1 = i
        BY <1>4
      <4>. QED BY <2>1, <4>1
    <3>2. CASE i <= m
      <4>1. i - 1 \in 0..(m - 1) /\ i - 1 # n
        BY <1>4, <3>2
      <4>2. R[i] = InputByte(i - 1)
        BY <1>4, <3>1, <4>1
      <4>. QED BY <1>7, <2>4, <3>1, <3>2, <4>1, <4>2
    <3>3. CASE i > m /\ i <= n
      <4>1. i - 1 \in m..(n - 1) /\ i - 1 # n /\ i - m \in 1..((n - m) + 1) /\ i - m # (n - m) + 1 /\ ((i - 1) - m) + 1 = i - m /\ ~(i <= m)
        BY <1>4, <3>3
      <4>2. L[i - m] = InputByte(i - 1)
        BY <1>4, <4>1
      <4>3. T[i] = L[i - m]
        BY <1>9, <2>4, <4>1
      <4>. QED BY <1>7, <3>1, <4>1, <4>2, <4>3
    <3>4. CASE i = n + 1
      <4>1. ~(i <= m) /\ i - m = (n - m) + 1 /\ i - m \in 1..((n - m) + 1) /\ i - 1 = n
        BY <1>8, <3>4
      <4>. QED BY <1>7, <1>9, <2>4, <3>1, <4>1
    <3>. QED BY <1>4, <3>2, <3>3, <3>4
  <2>6. R' = T
    BY <1>5, <2>1, <2>3, <2>5, SameSequence
  <2>7. c \in {NewLine, CtrlD} \/ Len(R) + Len(L) + 1 = INPUT_BUF
    BY <1>2, <1>9, <1>10
  <2>. QED BY <1>2, <1>3, <1>9, <2>2, <2>6, <2>7 DEF Tty!Key, R, L, T
<1>11. CASE ~full
  <2>1. /\ Submitted' = m /\ Len(R') = m /\ Len(L') = (n + 1) - m
        /\ \A j \in 0..(m - 1) : R'[j + 1] = b[j] /\ b[j] = InputByte(j)
        /\ \A j \in m..n : L'[(j - m) + 1] = b[j]
    BY <1>2, <1>4, <1>5, <1>7, <1>11
  <2>2. R' = R
    <3>1. ASSUME NEW i \in 1..m PROVE R'[i] = R[i]
      <4>1. i - 1 \in 0..(m - 1) /\ (i - 1) + 1 = i
        BY <1>4
      <4>. QED BY <1>4, <2>1, <4>1
    <3>. QED BY <1>4, <1>5, <2>1, <3>1, SameSequence
  <2>3. L' = Append(L, c)
    <3>1. ASSUME NEW i \in 1..((n - m) + 1) PROVE L'[i] = Append(L, c)[i]
      <4>1. m + (i - 1) \in m..n /\ ((m + (i - 1)) - m) + 1 = i /\ m + (i - 1) \in 0..n
        BY <1>4
      <4>2. L'[i] = b[m + (i - 1)]
        BY <2>1, <4>1
      <4>3. CASE i = (n - m) + 1
        <5>1. m + (i - 1) = n
          BY <1>4, <4>3
        <5>. QED BY <1>7, <1>9, <4>1, <4>2, <4>3, <5>1
      <4>4. CASE i # (n - m) + 1
        <5>1. m + (i - 1) # n /\ m + (i - 1) \in m..(n - 1)
          BY <1>4, <4>4
        <5>2. L[i] = InputByte(m + (i - 1))
          BY <1>4, <4>1, <5>1
        <5>. QED BY <1>7, <1>9, <4>1, <4>2, <4>4, <5>1, <5>2
      <4>. QED BY <4>3, <4>4
    <3>2. Len(L') = Len(Append(L, c))
      BY <1>4, <1>9, <2>1
    <3>3. 1..Len(L') = 1..((n - m) + 1)
      BY <1>9, <3>2
    <3>. QED BY <1>5, <1>9, <3>1, <3>2, <3>3, SameSequence
  <2>4. ~(c \in {NewLine, CtrlD} \/ Len(R) + Len(L) + 1 = INPUT_BUF)
    BY <1>2, <1>9, <1>11
  <2>. QED BY <1>2, <1>3, <1>9, <2>2, <2>3, <2>4 DEF Tty!Key, R, L
<1>. QED BY <1>10, <1>11

\* A byte that is read is the first that was submitted.
LEMMA TakeSeen ==
  ASSUME IInv, IInv', r # w, r' = Plus(r, 1), UNCHANGED <<w, e>>,
         buf' = [buf EXCEPT ![r % INPUT_BUF] = Blank]
  PROVE  /\ Bytes(r, w) # <<>> /\ Head(Bytes(r, w)) = buf[r % INPUT_BUF]
         /\ Bytes(r, w)' = Tail(Bytes(r, w)) /\ Bytes(w, e)' = Bytes(w, e)
<1> DEFINE m == Submitted
           n == Typed
           R == Bytes(r, w)
           L == Bytes(w, e)
<1>1. InputSeqs /\ InputSeqs'
  BY BytesBoth
<1>2. /\ m > 0 /\ Submitted' = m - 1 /\ Typed' = n - 1
      /\ \A k \in 0..(n - 2) : InputByte(k)' = InputByte(k + 1)
      /\ InputByte(0) = buf[r % INPUT_BUF]
  <2>1. StreamTypes /\ Lines
    BY Parts
  <2>. QED BY <2>1, TakeMoves
<1>3. /\ m \in Nat /\ n \in Nat /\ m <= n /\ R \in Seq(Byte) /\ L \in Seq(Byte)
      /\ Len(R) = m /\ Len(L) = n - m
      /\ \A j \in 0..(m - 1) : R[j + 1] = InputByte(j)
      /\ \A j \in m..(n - 1) : L[(j - m) + 1] = InputByte(j)
  BY <1>1 DEF InputSeqs
<1>4. /\ R' \in Seq(Byte) /\ L' \in Seq(Byte) /\ Len(R') = Submitted' /\ Len(L') = Typed' - Submitted'
      /\ \A j \in 0..(Submitted' - 1) : R'[j + 1] = InputByte(j)'
      /\ \A j \in Submitted'..(Typed' - 1) : L'[(j - Submitted') + 1] = InputByte(j)'
  BY <1>1 DEF InputSeqs
<1> DEFINE b == [j \in 0..(n - 2) |-> InputByte(j)']
<1>5. \A j \in 0..(n - 2) : InputByte(j)' = b[j] /\ b[j] = InputByte(j + 1)
  BY <1>2
<1> HIDE DEF m, n, R, L, b
<1>6. m \in Nat /\ n \in Nat /\ m <= n /\ m > 0 /\ (n - 1) - (m - 1) = n - m
  BY <1>2, <1>3
<1>7. /\ Len(R') = m - 1 /\ Len(L') = n - m
      /\ \A j \in 0..(m - 2) : R'[j + 1] = b[j]
      /\ \A j \in (m - 1)..(n - 2) : L'[(j - (m - 1)) + 1] = b[j]
  <2>1. Len(R') = m - 1 /\ Len(L') = n - m
    BY <1>2, <1>4, <1>6
  <2>2. ASSUME NEW j \in 0..(m - 2) PROVE R'[j + 1] = b[j]
    <3>1. j \in 0..((m - 1) - 1) /\ j \in 0..(n - 2)
      BY <1>6
    <3>. QED BY <1>2, <1>4, <1>5, <3>1
  <2>3. ASSUME NEW j \in (m - 1)..(n - 2) PROVE L'[(j - (m - 1)) + 1] = b[j]
    <3>1. j \in (m - 1)..((n - 1) - 1) /\ j \in 0..(n - 2)
      BY <1>6
    <3>. QED BY <1>2, <1>4, <1>5, <3>1
  <2>. QED BY <2>1, <2>2, <2>3
<1>8. R # <<>> /\ Head(R) = buf[r % INPUT_BUF]
  <2>1. 0 \in 0..(m - 1) /\ 0 + 1 = 1
    BY <1>6
  <2>2. R[1] = InputByte(0)
    BY <1>3, <2>1
  <2>. QED BY <1>2, <1>3, <1>6, <2>2
<1>9. R' = Tail(R)
  <2>1. Tail(R) \in Seq(Byte) /\ Len(Tail(R)) = m - 1 /\ \A i \in 1..(m - 1) : Tail(R)[i] = R[i + 1]
    BY <1>3, <1>6, <1>8
  <2>2. ASSUME NEW i \in 1..(m - 1) PROVE R'[i] = Tail(R)[i]
    <3>1. i - 1 \in 0..(m - 2) /\ (i - 1) + 1 = i /\ i \in 0..(m - 1) /\ i - 1 \in 0..(n - 2)
      BY <1>6
    <3>2. R'[i] = b[i - 1] /\ R[i + 1] = InputByte(i)
      BY <1>3, <1>7, <3>1
    <3>3. b[i - 1] = InputByte((i - 1) + 1)
      BY <1>5, <3>1
    <3>. QED BY <2>1, <3>1, <3>2, <3>3
  <2>. QED BY <1>4, <1>7, <2>1, <2>2, SameSequence
<1>10. L' = L
  <2>1. ASSUME NEW i \in 1..(n - m) PROVE L'[i] = L[i]
    <3> DEFINE j == (m - 1) + (i - 1)
    <3>1. j \in (m - 1)..(n - 2) /\ (j - (m - 1)) + 1 = i /\ j \in 0..(n - 2) /\ j + 1 \in m..(n - 1) /\ ((j + 1) - m) + 1 = i
      BY <1>6
    <3> HIDE DEF j
    <3>2. L'[(j - (m - 1)) + 1] = b[j] /\ L[((j + 1) - m) + 1] = InputByte(j + 1)
      BY <1>3, <1>7, <3>1
    <3>3. b[j] = InputByte(j + 1)
      BY <1>5, <3>1
    <3>. QED BY <3>1, <3>2, <3>3
  <2>. QED BY <1>3, <1>4, <1>7, <2>1, SameSequence
<1>. QED BY <1>8, <1>9, <1>10 DEF R, L

\* Erasing takes the end of the line, or all of it.
LEMMA EraseSeen ==
  ASSUME IInv, IInv', Backspace \/ KillLine
  PROVE  Tty!Erase \/ Tty!EraseLine
<1> DEFINE m == Submitted
           n == Typed
           R == Bytes(r, w)
           L == Bytes(w, e)
<1>1. InputSeqs /\ InputSeqs' /\ StreamTypes /\ Lines
  BY BytesBoth, Parts
<1>2. /\ m < n /\ Submitted' = m /\ (Typed' = n - 1 \/ Typed' = m)
      /\ Typed' = m \/ Backspace
      /\ UNCHANGED ubuf
      /\ \A k \in 0..(Typed' - 1) : InputByte(k)' = InputByte(k)
  <2>1. CASE Backspace
    <3>1. m < n /\ Submitted' = m /\ Typed' = n - 1 /\ \A k \in 0..(n - 2) : InputByte(k)' = InputByte(k)
      BY <1>1, <2>1, BackspaceMoves
    <3>2. n \in Int
      BY <1>1 DEF InputSeqs
    <3> HIDE DEF n, m
    <3>3. Typed' - 1 = n - 2
      BY <3>1, <3>2
    <3>. QED BY <2>1, <3>1, <3>3 DEF Backspace, task
  <2>2. CASE KillLine
    <3>1. m < n /\ Submitted' = m /\ Typed' = m /\ \A k \in 0..(m - 1) : InputByte(k)' = InputByte(k)
      BY <1>1, <2>2, KillLineMoves
    <3>. QED BY <2>2, <3>1 DEF KillLine, task
  <2>. QED BY <2>1, <2>2
<1>3. /\ m \in Nat /\ n \in Nat /\ m <= n /\ R \in Seq(Byte) /\ L \in Seq(Byte)
      /\ Len(R) = m /\ Len(L) = n - m
      /\ \A j \in 0..(m - 1) : R[j + 1] = InputByte(j)
      /\ \A j \in m..(n - 1) : L[(j - m) + 1] = InputByte(j)
  BY <1>1 DEF InputSeqs
<1>4. /\ R' \in Seq(Byte) /\ L' \in Seq(Byte) /\ Len(R') = Submitted' /\ Len(L') = Typed' - Submitted'
      /\ \A j \in 0..(Submitted' - 1) : R'[j + 1] = InputByte(j)'
      /\ \A j \in Submitted'..(Typed' - 1) : L'[(j - Submitted') + 1] = InputByte(j)'
  BY <1>1 DEF InputSeqs
<1> DEFINE t == Typed'
           b == [j \in 0..(t - 1) |-> InputByte(j)']
<1>5. \A j \in 0..(t - 1) : InputByte(j)' = b[j] /\ b[j] = InputByte(j)
  BY <1>2
<1>6. /\ t \in {n - 1, m} /\ Len(R') = m /\ Len(L') = t - m
      /\ \A j \in 0..(m - 1) : R'[j + 1] = InputByte(j)'
      /\ \A j \in m..(t - 1) : L'[(j - m) + 1] = InputByte(j)'
  BY <1>2, <1>4
<1> HIDE DEF m, n, R, L, t, b
<1>7. m \in Nat /\ n \in Nat /\ t \in Nat /\ m <= t /\ t < n /\ m < n
  BY <1>2, <1>3, <1>6
<1>8. R' = R
  <2>1. ASSUME NEW i \in 1..m PROVE R'[i] = R[i]
    <3>1. i - 1 \in 0..(m - 1) /\ (i - 1) + 1 = i /\ i - 1 \in 0..(t - 1)
      BY <1>7
    <3>2. R'[(i - 1) + 1] = InputByte(i - 1)' /\ R[(i - 1) + 1] = InputByte(i - 1)
      BY <1>3, <1>6, <3>1
    <3>3. InputByte(i - 1)' = InputByte(i - 1)
      BY <1>5, <3>1
    <3>. QED BY <3>1, <3>2, <3>3
  <2>. QED BY <1>3, <1>4, <1>6, <2>1, SameSequence
<1>9. \A i \in 1..(t - m) : L'[i] = L[i]
  <2>1. ASSUME NEW j \in m..(t - 1) PROVE L'[(j - m) + 1] = L[(j - m) + 1]
    <3>1. j \in m..(n - 1) /\ j \in 0..(t - 1)
      BY <1>7
    <3>2. L'[(j - m) + 1] = InputByte(j)' /\ L[(j - m) + 1] = InputByte(j)
      BY <1>3, <1>6, <3>1
    <3>3. InputByte(j)' = InputByte(j)
      BY <1>5, <3>1
    <3>. QED BY <3>2, <3>3
  <2>2. ASSUME NEW i \in 1..(t - m) PROVE \E j \in m..(t - 1) : i = (j - m) + 1
    <3>1. m + (i - 1) \in m..(t - 1) /\ i = ((m + (i - 1)) - m) + 1
      BY <1>7
    <3>. QED BY <3>1
  <2>. QED BY <2>1, <2>2
<1>10. CASE t = m
  <2>1. L' = <<>>
    BY <1>4, <1>6, <1>7, <1>10
  <2>. QED BY <1>2, <1>8, <2>1 DEF Tty!EraseLine, R, L
<1>11. CASE t = n - 1
  <2>1. L # <<>> /\ Len(L) - 1 = t - m /\ Len(L) - 1 \in 0..Len(L)
    BY <1>3, <1>7, <1>11
  <2> DEFINE T == SubSeq(L, 1, Len(L) - 1)
  <2>2. T \in Seq(Byte) /\ Len(T) = Len(L) - 1 /\ \A i \in 1..(Len(L) - 1) : T[i] = L[i]
    BY <1>3, <2>1
  <2> HIDE DEF T
  <2>3. L' = T
    BY <1>4, <1>6, <1>9, <2>1, <2>2, SameSequence
  <2>. QED BY <1>2, <1>8, <2>1, <2>3 DEF Tty!Erase, R, L, T
<1>. QED BY <1>6, <1>10, <1>11

\* Every step of the system is one of the terminal, or changes nothing there.
LEMMA TerminalStep ==
  ASSUME IInv, IInv', [Next]_vars
  PROVE  [Tty!Next]_(Tty!terminal)
<1>1. StreamTypes /\ Whereabouts /\ Buffers
  BY Parts
<1>2. ASSUME UNCHANGED input, ubuf'[Cat] \in {ubuf[Cat], <<>>}
      PROVE  Tty!Next
  BY <1>1, <1>2, UsedUp, ElsewhereSeen
<1>3. ASSUME UNCHANGED <<input, ubuf>> PROVE Tty!Next
  BY <1>2, <1>3
<1>4. ASSUME NEW p \in Tasks, NEW s \in {<<>>}, ubuf' = [ubuf EXCEPT ![p] = s]
      PROVE  ubuf'[Cat] \in {ubuf[Cat], <<>>}
  BY <1>1, <1>4, TheTasks DEF StreamTypes
<1>5. ASSUME NEW p \in Tasks, Program(p)
      PROVE  Tty!Next
  <2>1. CASE p = Cat /\ CatReads
    <3>1. UNCHANGED input /\ ubuf' = [ubuf EXCEPT ![Cat] = <<>>]
      BY <2>1 DEF CatReads, ConsoleRead
    <3>. QED BY <1>2, <1>4, <3>1, TheTasks
  <2>2. CASE p = Wc /\ WcReads
    BY <1>3, <2>2 DEF WcReads, console, input
  <2>3. CASE Exit(p)
    <3>1. UNCHANGED input /\ ubuf' = [ubuf EXCEPT ![p] = <<>>]
      BY <2>3 DEF Exit, console, input
    <3>. QED BY <1>2, <1>4, <3>1
  <2>4. CASE GoesOn(p)
    <3>1. UNCHANGED input /\ ubuf' = IF pc[p] = "pr_done" THEN [ubuf EXCEPT ![p] = <<>>] ELSE ubuf
      BY <2>4 DEF GoesOn, console, input
    <3>2. CASE pc[p] = "pr_done"
      BY <1>2, <1>4, <3>1, <3>2
    <3>3. CASE pc[p] # "pr_done"
      BY <1>3, <3>1, <3>3
    <3>. QED BY <3>2, <3>3
  <2>5. CASE ConsoleWait(p)
    BY <1>3, <2>5 DEF ConsoleWait, console, input
  <2>6. CASE ConsoleByte(p)
    <3> DEFINE c == buf[r % INPUT_BUF]
               ends == c = NewLine \/ left[p] = 1
    <3>1. /\ p = Cat /\ r # w /\ c # CtrlD /\ ubuf' = [ubuf EXCEPT ![p] = Append(@, c)]
          /\ r' = Plus(r, 1) /\ buf' = [buf EXCEPT ![r % INPUT_BUF] = Blank] /\ UNCHANGED <<w, e>>
      BY <1>1, <2>6, Who DEF ConsoleByte, TakeInput, InConsole, Reading
    <3>2. /\ Bytes(r, w) # <<>> /\ Head(Bytes(r, w)) = c
          /\ Bytes(r, w)' = Tail(Bytes(r, w)) /\ Bytes(w, e)' = Bytes(w, e)
      BY <3>1, TakeSeen
    <3>3. Cat \in Typists
      BY StreamAssumption
    <3>4. Tty!TakeByte(Cat)
      BY <3>1, <3>2 DEF Tty!TakeByte
    <3>. QED BY <3>3, <3>4 DEF Tty!Next
  <2>7. CASE ConsoleEof(p)
    <3>1. p = Cat /\ r # w /\ buf[r % INPUT_BUF] = CtrlD /\ ubuf' = ubuf /\ pc[p] \in Reading
      BY <1>1, <2>7, Who DEF ConsoleEof, AtCtrlD, InConsole, Reading
    <3>2. CASE left[p] = target
      <4>1. /\ r' = Plus(r, 1) /\ buf' = [buf EXCEPT ![r % INPUT_BUF] = Blank] /\ UNCHANGED <<w, e>>
        BY <2>7, <3>2 DEF ConsoleEof, TakeInput
      <4>2. /\ Bytes(r, w) # <<>> /\ Head(Bytes(r, w)) = CtrlD
            /\ Bytes(r, w)' = Tail(Bytes(r, w)) /\ Bytes(w, e)' = Bytes(w, e)
        BY <3>1, <4>1, TakeSeen
      <4>3. ubuf[Cat] = <<>>
        <5>1. Len(ubuf[Cat]) + left[Cat] = target
          BY <1>1, <3>1 DEF Buffers
        <5>2. ubuf[Cat] \in Seq(Byte) /\ Len(ubuf[Cat]) \in Nat
          BY <1>1, TheTasks DEF StreamTypes
        <5>3. Len(ubuf[Cat]) = 0
          BY <3>1, <3>2, <5>1, <5>2, Sizes
        <5>. QED BY <5>2, <5>3
      <4>4. Tty!TakeEof(Cat)
        BY <3>1, <4>2, <4>3 DEF Tty!TakeEof
      <4>5. Cat \in Typists
        BY StreamAssumption
      <4>. QED BY <4>4, <4>5 DEF Tty!Next
    <3>3. CASE left[p] # target
      BY <1>3, <2>7, <3>3 DEF ConsoleEof
    <3>. QED BY <3>2, <3>3
  <2>8. CASE PipeWrite(p) /\ UNCHANGED console
    <3> DEFINE k == Least(Room, Len(ubuf[p]))
    <3>1. StreamTypes /\ Fits /\ p = Cat
      BY <1>1, <2>8, Parts, Who DEF PipeWrite
    <3>2. k \in 0..Len(ubuf[p])
      BY <2>8, <3>1, WriteMoves
    <3>3. ubuf' = [ubuf EXCEPT ![p] = SubSeq(@, k + 1, Len(@))]
      BY <2>8 DEF PipeWrite
    <3> HIDE DEF k
    <3>4. ubuf'[Cat] = SubSeq(ubuf[Cat], k + 1, Len(ubuf[Cat])) /\ k + 1 \in 1..(Len(ubuf[Cat]) + 1)
      <4>1. Len(ubuf[Cat]) \in Nat
        BY <1>1, TheTasks DEF StreamTypes
      <4>. QED BY <1>1, <3>1, <3>2, <3>3, <4>1, TheTasks DEF StreamTypes
    <3>5. UNCHANGED input
      BY <2>8 DEF console, input
    <3>. QED BY <3>4, <3>5, ElsewhereSeen
  <2>9. CASE PipeReadWait(p) /\ UNCHANGED console
    BY <1>3, <2>9 DEF PipeReadWait, console, input
  <2>10. CASE PipeRead(p, WcN) /\ UNCHANGED console
    <3>1. p = Wc
      BY <1>1, <2>10, Who DEF PipeRead
    <3>2. ubuf'[Cat] = ubuf[Cat]
      BY <1>1, <2>10, <3>1, TheTasks DEF PipeRead, StreamTypes
    <3>. QED BY <1>2, <2>10, <3>2 DEF console, input
  <2>11. CASE Close(p) /\ UNCHANGED console
    BY <1>3, <2>11 DEF Close, FileClose, PipeClose, console, input
  <2>12. CASE Sleep(p) /\ UNCHANGED <<console, pipe>>
    BY <1>3, <2>12 DEF Sleep, console, input
  <2>. QED BY <1>5, <2>1, <2>2, <2>3, <2>4, <2>5, <2>6, <2>7, <2>8, <2>9, <2>10, <2>11, <2>12
           DEF Program, ConsoleStep
<1>6. CASE Type
  <2>1. ASSUME NEW c \in Chars, TypeChar(c) PROVE Tty!Next
    BY <2>1, KeySeen DEF Tty!Next
  <2>2. CASE DropChar
    BY <1>3, <2>2 DEF DropChar, console, input, task
  <2>3. CASE Backspace \/ KillLine
    BY <2>3, EraseSeen DEF Tty!Next
  <2>. QED BY <1>6, <2>1, <2>2, <2>3 DEF Type
<1>7. ASSUME NEW p \in {Cat, Wc}, Kill(p), UNCHANGED <<console, pipe>> PROVE Tty!Next
  BY <1>3, <1>7 DEF Kill, console, input
<1>8. CASE UNCHANGED vars
  BY <1>3, <1>8 DEF vars, console, input, task
<1>. QED BY <1>5, <1>6, <1>7, <1>8 DEF Next

\* At first the terminal is empty.
LEMMA TerminalInit == Init => Tty!Init
<1>1. SUFFICES ASSUME Init PROVE Tty!Init
  OBVIOUS
<1>2. InputSeqs /\ r = 0 /\ w = 0 /\ e = 0 /\ ubuf = [p \in Tasks |-> <<>>]
  BY <1>1, InitHolds, BytesAre DEF Init, ConsoleInit
<1>3. Submitted = 0 /\ Typed = 0
  <2>1. 0 \in Counter
    BY Sizes DEF Counter
  <2>. QED BY <1>2, <2>1, DistanceNone DEF Submitted, Typed
<1>4. Bytes(r, w) = <<>> /\ Bytes(w, e) = <<>>
  BY <1>2, <1>3 DEF InputSeqs
<1>5. \A p \in Typists : ubuf[p] = <<>>
  BY <1>2, TheTasks, StreamAssumption
<1>. QED BY <1>4, <1>5 DEF Tty!Init

\* The console implements the terminal (console.c:192-278): a byte that was
\* typed and not erased is read, once and in order, for every size of the buffer
\* and of a read, and when the counters wrap around.
THEOREM ConsoleImplementsTerminal == Spec => TerminalSafe
<1>1. IInv /\ IInv' /\ [Next]_vars => [Tty!Next]_(Tty!terminal)
  BY TerminalStep
<1>. QED BY <1>1, TerminalInit, IInvHolds, PTL DEF Spec, TerminalSafe, Tty!Safe

-----------------------------------------------------------------------------
(* The pipe implements a channel *)

\* What is on its way.
Chan == [i \in 1..Stored |-> data[Plus(nread, i - 1) % PIPESIZE]]
ChanIs ==
  /\ Stored \in 0..PIPESIZE /\ Chan \in Seq(Byte) /\ Len(Chan) = Stored
  /\ \A j \in 0..(Stored - 1) : Chan[j + 1] = PipeByte(j)

\* It is a sequence of bytes, no longer than the pipe.
LEMMA ChanBytes == IInv => ChanIs
<1>1. SUFFICES ASSUME IInv PROVE ChanIs
  OBVIOUS
<1>2. StreamTypes /\ Fits
  BY <1>1, Parts
<1> DEFINE n == Stored
<1>3. n \in 0..PIPESIZE /\ n \in Nat /\ nread \in Int /\ Ring(PIPESIZE)
  BY <1>2, PipePlaces, Sizes
<1>4. Chan = [i \in 1..n |-> PipeByte(i - 1)]
  BY DEF Chan, PipeByte
<1> HIDE DEF n
<1>5. \A i \in 1..n : PipeByte(i - 1) \in Byte
  <2>1. ASSUME NEW i \in 1..n PROVE PipeByte(i - 1) \in Byte
    <3>1. i - 1 \in Int
      BY <1>3
    <3>2. Plus(nread, i - 1) % PIPESIZE \in 0..(PIPESIZE - 1)
      BY <1>3, <3>1, CellOf
    <3>. QED BY <1>2, <3>2 DEF PipeByte, StreamTypes
  <2>. QED BY <2>1
<1>6. /\ Chan \in Seq(Byte) /\ Len(Chan) = n
      /\ \A i \in 1..n : Chan[i] = PipeByte(i - 1)
  BY <1>3, <1>4, <1>5
<1>7. ASSUME NEW j \in 0..(n - 1) PROVE Chan[j + 1] = PipeByte(j)
  <2>1. j + 1 \in 1..n /\ (j + 1) - 1 = j
    BY <1>3
  <2>. QED BY <1>6, <2>1
<1>. QED BY <1>3, <1>6, <1>7 DEF ChanIs, n

\* Before and after a step.
LEMMA ChanBoth == IInv /\ IInv' => ChanIs /\ ChanIs'
<1>1. IInv => ChanIs
  BY ChanBytes
<1>. QED BY <1>1, PTL

\* Two sequences joined: the elements of the first, then those of the second.
LEMMA Concatenated ==
  ASSUME NEW S, NEW a \in Seq(S), NEW b \in Seq(S)
  PROVE  /\ a \o b \in Seq(S)
         /\ Len(a \o b) = Len(a) + Len(b)
         /\ \A i \in 1..Len(a) : (a \o b)[i] = a[i]
         /\ \A i \in (Len(a) + 1)..(Len(a) + Len(b)) : (a \o b)[i] = b[i - Len(a)]
<1>1. a \o b \in Seq(S)
  OBVIOUS
<1>2. Len(a \o b) = Len(a) + Len(b)
  OBVIOUS
<1>3. \A i \in 1..Len(a) : (a \o b)[i] = a[i]
  OBVIOUS
<1>4. \A i \in (Len(a) + 1)..(Len(a) + Len(b)) : (a \o b)[i] = b[i - Len(a)]
  OBVIOUS
<1>. QED BY <1>1, <1>2, <1>3, <1>4

\* A write sends what it puts into the pipe.
LEMMA SendSeen ==
  ASSUME IInv, IInv', NEW p \in Tasks, PipeWrite(p)
  PROVE  Channel!Next \/ UNCHANGED <<Chan, ubuf>>
<1> DEFINE k == Least(Room, Len(ubuf[p]))
           s == ubuf[p]
           n == Stored
<1>1. ChanIs /\ ChanIs' /\ StreamTypes /\ Whereabouts /\ Fits
  BY ChanBoth, Parts
<1>2. /\ k \in 0..Len(s) /\ k <= PIPESIZE - n /\ Stored' = n + k
      /\ \A j \in 0..(n - 1) : PipeByte(j)' = PipeByte(j)
      /\ \A j \in 1..k : \A i \in {n + j - 1} : PipeByte(i)' = s[j]
  BY <1>1, WriteMoves
<1>3. p = Cat /\ ubuf' = [ubuf EXCEPT ![p] = SubSeq(@, k + 1, Len(@))]
  BY <1>1, Who DEF PipeWrite
<1>4. s \in Seq(Byte) /\ Len(s) \in Nat /\ k \in Nat
  BY <1>1, <1>2 DEF StreamTypes
<1>5. /\ n \in Nat /\ n <= PIPESIZE /\ Chan \in Seq(Byte) /\ Len(Chan) = n
      /\ \A j \in 0..(n - 1) : Chan[j + 1] = PipeByte(j)
      /\ Chan' \in Seq(Byte) /\ Len(Chan') = n + k
      /\ \A j \in 0..(n + k - 1) : Chan'[j + 1] = PipeByte(j)'
  BY <1>1, <1>2, Sizes DEF ChanIs
<1> DEFINE b == [j \in 0..(n + k - 1) |-> PipeByte(j)']
<1>6. \A j \in 0..(n + k - 1) : PipeByte(j)' = b[j]
  OBVIOUS
<1>7. /\ \A j \in 0..(n - 1) : b[j] = PipeByte(j)
      /\ \A j \in 1..k : b[n + j - 1] = s[j]
  <2>1. ASSUME NEW j \in 0..(n - 1) PROVE b[j] = PipeByte(j)
    <3>1. j \in 0..(n + k - 1)
      BY <1>4, <1>5
    <3>. QED BY <1>2, <3>1
  <2>2. ASSUME NEW j \in 1..k, NEW i \in {n + j - 1} PROVE b[i] = s[j]
    <3>1. i \in 0..(n + k - 1)
      BY <1>4, <1>5
    <3>. QED BY <1>2, <3>1
  <2>. QED BY <2>1, <2>2
<1>8. \A j \in 0..(n + k - 1) : Chan'[j + 1] = b[j]
  BY <1>5, <1>6
<1> HIDE DEF k, s, n, b
<1> DEFINE T == Chan \o SubSeq(s, 1, k)
<1>9. /\ T \in Seq(Byte) /\ Len(T) = n + k
      /\ \A i \in 1..n : T[i] = Chan[i]
      /\ \A i \in (n + 1)..(n + k) : T[i] = s[i - n]
  <2>1. /\ SubSeq(s, 1, k) \in Seq(Byte) /\ Len(SubSeq(s, 1, k)) = k
        /\ \A i \in 1..k : SubSeq(s, 1, k)[i] = s[i]
    BY <1>2, <1>4
  <2> DEFINE q == SubSeq(s, 1, k)
  <2>2. q \in Seq(Byte) /\ Len(q) = k /\ \A i \in 1..k : q[i] = s[i]
    BY <2>1
  <2> HIDE DEF q
  <2>3. /\ Chan \o q \in Seq(Byte) /\ Len(Chan \o q) = n + k
        /\ \A i \in 1..n : (Chan \o q)[i] = Chan[i]
        /\ \A i \in (n + 1)..(n + k) : (Chan \o q)[i] = q[i - n]
    BY <1>5, <2>2, Concatenated
  <2>4. ASSUME NEW i \in (n + 1)..(n + k) PROVE (Chan \o q)[i] = s[i - n]
    <3>1. i - n \in 1..k
      BY <1>4, <1>5
    <3>. QED BY <2>2, <2>3, <3>1
  <2>. QED BY <2>3, <2>4 DEF q
<1>10. Chan' = T
  <2>1. ASSUME NEW i \in 1..(n + k) PROVE Chan'[i] = T[i]
    <3>1. i - 1 \in 0..(n + k - 1) /\ (i - 1) + 1 = i
      BY <1>4, <1>5
    <3>2. Chan'[i] = b[i - 1]
      BY <1>8, <3>1
    <3>3. CASE i <= n
      <4>1. i - 1 \in 0..(n - 1) /\ i \in 1..n
        BY <1>4, <1>5, <3>3
      <4>2. Chan[(i - 1) + 1] = PipeByte(i - 1) /\ b[i - 1] = PipeByte(i - 1)
        BY <1>5, <1>7, <4>1
      <4>. QED BY <1>9, <3>1, <3>2, <4>1, <4>2
    <3>4. CASE ~(i <= n)
      <4>1. i - n \in 1..k /\ n + (i - n) - 1 = i - 1 /\ i \in (n + 1)..(n + k)
        BY <1>4, <1>5, <3>4
      <4>2. b[n + (i - n) - 1] = s[i - n]
        BY <1>7, <4>1
      <4>. QED BY <1>9, <3>2, <4>1, <4>2
    <3>. QED BY <3>3, <3>4
  <2> HIDE DEF T
  <2>. QED BY <1>5, <1>9, <2>1, SameSequence
<1>11. CASE k = 0
  <2>1. SubSeq(s, 1, Len(s)) = s /\ SubSeq(s, 1, 0) = <<>>
    BY <1>4
  <2>2. ubuf' = ubuf
    BY <1>1, <1>3, <1>11, <2>1 DEF s, StreamTypes
  <2>3. T = Chan
    <3>1. \A i \in 1..n : T[i] = Chan[i]
      BY <1>9
    <3>2. Len(T) = n
      BY <1>5, <1>9, <1>11
    <3> HIDE DEF T
    <3>. QED BY <1>5, <1>9, <3>1, <3>2, SameSequence
  <2>. QED BY <1>10, <2>2, <2>3
<1>12. CASE k # 0
  <2>1. k \in 1..Len(s) /\ Len(Chan) + k <= PIPESIZE
    BY <1>2, <1>4, <1>5, <1>12, Sizes
  <2>2. Channel!Send(p)
    BY <1>3, <1>10, <2>1 DEF Channel!Send, Channel!Upto, Channel!From, s, T, Chan
  <2>. QED BY <1>3, <2>2, TheTasks DEF Channel!Next
<1>. QED BY <1>11, <1>12

\* A read receives the front of the pipe.
LEMMA ReceiveSeen ==
  ASSUME IInv, IInv', NEW p \in Tasks, PipeRead(p, WcN)
  PROVE  Channel!Next
<1> DEFINE k == Least(Stored, WcN)
           n == Stored
           got == [i \in 1..k |-> PipeByte(i - 1)]
<1>1. ChanIs /\ ChanIs' /\ StreamTypes /\ Whereabouts /\ Fits
  BY ChanBoth, Parts
<1>2. /\ k \in 0..n /\ (k = 0 => n = 0) /\ Stored' = n - k
      /\ \A j \in 0..(n - k - 1) : PipeByte(j)' = PipeByte(j + k)
      /\ ubuf' = [ubuf EXCEPT ![p] = got]
  BY <1>1, ReadMoves
<1>3. p = Wc
  BY <1>1, Who DEF PipeRead
<1>4. /\ n \in Nat /\ k \in Nat /\ k <= n /\ Chan \in Seq(Byte) /\ Len(Chan) = n
      /\ \A j \in 0..(n - 1) : Chan[j + 1] = PipeByte(j)
      /\ Chan' \in Seq(Byte) /\ Len(Chan') = n - k
      /\ \A j \in 0..(n - k - 1) : Chan'[j + 1] = PipeByte(j)'
  BY <1>1, <1>2, Sizes DEF ChanIs
<1>5. \A j \in 0..(n - k - 1) : Chan'[j + 1] = PipeByte(j + k)
  BY <1>2, <1>4
<1> HIDE DEF k, n
<1>6. got = SubSeq(Chan, 1, k)
  <2> DEFINE T == SubSeq(Chan, 1, k)
  <2>1. T \in Seq(Byte) /\ Len(T) = k /\ \A i \in 1..k : T[i] = Chan[i]
    BY <1>4
  <2> HIDE DEF T
  <2>2. ASSUME NEW i \in 1..k PROVE PipeByte(i - 1) = T[i]
    <3>1. i - 1 \in 0..(n - 1) /\ (i - 1) + 1 = i
      BY <1>4
    <3>2. Chan[(i - 1) + 1] = PipeByte(i - 1)
      BY <1>4, <3>1
    <3>. QED BY <2>1, <3>1, <3>2
  <2>3. T = [i \in 1..k |-> T[i]]
    BY <1>4, <2>1
  <2>4. got = T
    BY <2>2, <2>3
  <2>. QED BY <2>4 DEF T
<1> HIDE DEF got
<1>7. Chan' = SubSeq(Chan, k + 1, Len(Chan))
  <2> DEFINE T == SubSeq(Chan, k + 1, Len(Chan))
  <2>1. T \in Seq(Byte) /\ Len(T) = n - k /\ \A i \in 1..(n - k) : T[i] = Chan[i + k]
    BY <1>4
  <2> HIDE DEF T
  <2>2. ASSUME NEW i \in 1..(n - k) PROVE Chan'[i] = T[i]
    <3>1. i - 1 \in 0..(n - k - 1) /\ (i - 1) + 1 = i /\ (i - 1) + k \in 0..(n - 1) /\ ((i - 1) + k) + 1 = i + k
      BY <1>4
    <3>2. Chan'[(i - 1) + 1] = PipeByte((i - 1) + k)
      BY <1>5, <3>1
    <3>3. Chan[((i - 1) + k) + 1] = PipeByte((i - 1) + k)
      BY <1>4, <3>1
    <3>. QED BY <2>1, <3>1, <3>2, <3>3
  <2>3. Chan' = T
    BY <1>4, <2>1, <2>2, SameSequence
  <2>. QED BY <2>3 DEF T
<1>8. CASE k = 0
  <2>1. got = <<>> /\ Chan' = Chan
    <3>1. Chan = <<>> /\ Chan' = <<>>
      BY <1>2, <1>4, <1>8
    <3>. QED BY <1>6, <1>8, <3>1
  <2>2. Channel!Consume(p)
    BY <1>2, <2>1 DEF Channel!Consume, Chan
  <2>. QED BY <1>3, <2>2, TheTasks DEF Channel!Next
<1>9. CASE k # 0
  <2>1. k \in 1..Len(Chan)
    BY <1>4, <1>9
  <2>2. Channel!Receive(p)
    BY <1>2, <1>6, <1>7, <2>1 DEF Channel!Receive, Channel!Upto, Channel!From, Chan
  <2>. QED BY <1>3, <2>2, TheTasks DEF Channel!Next
<1>. QED BY <1>8, <1>9

\* Every step of the system is one of the channel, or changes nothing there.
LEMMA ChannelStep ==
  ASSUME IInv, IInv', [Next]_vars
  PROVE  [Channel!Next]_(Channel!channel)
<1>1. StreamTypes /\ Whereabouts
  BY Parts
<1>2. ASSUME UNCHANGED pipe PROVE Chan' = Chan
  BY <1>2 DEF pipe, Chan, Stored
<1>3. ASSUME UNCHANGED <<Chan, ubuf>> PROVE UNCHANGED Channel!channel
  BY <1>3 DEF Channel!channel, Chan
<1>4. ASSUME UNCHANGED pipe, NEW s, ubuf' = [ubuf EXCEPT ![Cat] = s]
      PROVE  Channel!Next
  <2>1. ubuf' = [ubuf EXCEPT ![Cat] = ubuf'[Cat]]
    BY <1>1, <1>4, TheTasks DEF StreamTypes
  <2>2. Channel!Produce(Cat)
    BY <1>2, <1>4, <2>1 DEF Channel!Produce, Chan
  <2>. QED BY <2>2, TheTasks DEF Channel!Next
<1>5. ASSUME UNCHANGED pipe, ubuf' = [ubuf EXCEPT ![Wc] = <<>>]
      PROVE  Channel!Next
  <2>1. Channel!Consume(Wc)
    BY <1>2, <1>5 DEF Channel!Consume, Chan
  <2>. QED BY <2>1, TheTasks DEF Channel!Next
<1>6. ASSUME NEW p \in Tasks, Program(p)
      PROVE  Channel!Next \/ UNCHANGED <<Chan, ubuf>>
  <2>1. CASE p = Cat /\ CatReads
    BY <1>4, <2>1 DEF CatReads, ConsoleRead
  <2>2. CASE p = Wc /\ WcReads
    BY <1>2, <2>2 DEF WcReads
  <2>3. CASE Exit(p)
    <3>1. UNCHANGED pipe /\ ubuf' = [ubuf EXCEPT ![p] = <<>>] /\ pc[p] \notin Leaving
      BY <2>3 DEF Exit, Leaves, At, Leaving
    <3>2. p = Cat \/ p = Wc
      BY <1>1, <3>1, Who
    <3>. QED BY <1>4, <1>5, <3>1, <3>2
  <2>4. CASE GoesOn(p)
    <3>1. UNCHANGED pipe /\ ubuf' = IF pc[p] = "pr_done" THEN [ubuf EXCEPT ![p] = <<>>] ELSE ubuf
      BY <2>4 DEF GoesOn
    <3>2. CASE pc[p] = "pr_done"
      <4>1. p = Wc
        BY <1>1, <3>2, Who
      <4>. QED BY <1>5, <3>1, <3>2, <4>1
    <3>3. CASE pc[p] # "pr_done"
      BY <1>2, <3>1, <3>3
    <3>. QED BY <3>2, <3>3
  <2>5. CASE ConsoleStep(p) /\ UNCHANGED pipe
    <3>1. CASE ConsoleByte(p)
      <4>1. p = Cat /\ ubuf' = [ubuf EXCEPT ![p] = Append(@, buf[r % INPUT_BUF])]
        BY <1>1, <3>1, Who DEF ConsoleByte, InConsole, Reading
      <4>. QED BY <1>4, <2>5, <4>1
    <3>2. CASE ConsoleWait(p) \/ ConsoleEof(p)
      BY <1>2, <2>5, <3>2 DEF ConsoleWait, ConsoleEof
    <3>. QED BY <2>5, <3>1, <3>2 DEF ConsoleStep
  <2>6. CASE PipeWrite(p) /\ UNCHANGED console
    BY <2>6, SendSeen
  <2>7. CASE PipeReadWait(p) /\ UNCHANGED console
    BY <1>2, <2>7 DEF PipeReadWait
  <2>8. CASE PipeRead(p, WcN) /\ UNCHANGED console
    BY <2>8, ReceiveSeen
  <2>9. CASE Close(p) /\ UNCHANGED console
    BY <2>9 DEF Close, FileClose, PipeClose, Chan, Stored
  <2>10. CASE Sleep(p) /\ UNCHANGED <<console, pipe>>
    BY <1>2, <2>10 DEF Sleep
  <2>. QED BY <1>6, <2>1, <2>2, <2>3, <2>4, <2>5, <2>6, <2>7, <2>8, <2>9, <2>10 DEF Program
<1>7. ASSUME Type, UNCHANGED pipe PROVE UNCHANGED <<Chan, ubuf>>
  BY <1>2, <1>7 DEF Type, TypeChar, DropChar, Backspace, KillLine, task
<1>8. ASSUME NEW p \in {Cat, Wc}, Kill(p), UNCHANGED <<console, pipe>> PROVE UNCHANGED <<Chan, ubuf>>
  BY <1>2, <1>8 DEF Kill
<1>9. ASSUME UNCHANGED vars PROVE UNCHANGED <<Chan, ubuf>>
  BY <1>2, <1>9 DEF vars, task
<1>. QED BY <1>3, <1>6, <1>7, <1>8, <1>9 DEF Next

\* At first nothing is on its way.
LEMMA ChannelInit == Init => Channel!Init
<1>1. SUFFICES ASSUME Init PROVE Channel!Init
  OBVIOUS
<1>2. ChanIs /\ nread = 0 /\ nwrite = 0
  BY <1>1, InitHolds, ChanBytes DEF Init, PipeInit
<1>3. Stored = 0
  <2>1. 0 \in Counter
    BY Sizes DEF Counter
  <2>. QED BY <1>2, <2>1, DistanceNone DEF Stored
<1>4. Chan = <<>>
  BY <1>2, <1>3 DEF ChanIs
<1>. QED BY <1>4 DEF Channel!Init, Chan

\* The pipe implements the channel (pipe.c:77-130): every byte written arrives
\* once and in order, for every size of the pipe and of the reads, with writers
\* and readers that sleep half way and counters that wrap around.
THEOREM PipeImplementsChannel == Spec => ChannelSafe
<1>1. IInv /\ IInv' /\ [Next]_vars => [Channel!Next]_(Channel!channel)
  BY ChannelStep
<1>. QED BY <1>1, ChannelInit, IInvHolds, PTL DEF Spec, ChannelSafe, Channel!Safe

=============================================================================
