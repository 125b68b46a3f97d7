---------------------------- MODULE MemoryProofs ----------------------------
(***************************************************************************)
(* The two allocators of yyjson serve blocks that lie apart, for every     *)
(* size of buffer, header and chunk and every sequence of calls: the       *)
(* chunks of the pool allocator tile its buffer, and the blocks of a       *)
(* document's pool lie in their chunks one behind the other.               *)
(***************************************************************************)
EXTENDS MCContainers, SequenceTheorems, WellFoundedInduction, TLAPS

-----------------------------------------------------------------------------
(***************************************************************************)
(* Sizes in units of a header: the only lemmas that expand \div and %      *)
(***************************************************************************)

InUnits(x) == x \in Nat /\ x % HEADER = 0

\* A chunk header has a size.
LEMMA HeaderIs == HEADER \in Nat /\ HEADER > 0
BY PoolAssumption DEF Pool!PoolAssumption

\* A number is its quotient times the header and the remainder.
LEMMA DivIs ==
    ASSUME NEW h \in Nat, h > 0, NEW n \in Nat
    PROVE  /\ n \div h \in Nat /\ h * (n \div h) \in Nat
           /\ h * (n \div h) <= n /\ n < h * (n \div h) + h
           /\ n % h = 0 => n = h * (n \div h)
OBVIOUS

\* A multiple has no remainder.
LEMMA MultipleIs ==
    ASSUME NEW h \in Nat, h > 0, NEW k \in Nat
    PROVE  h * k \in Nat /\ (h * k) % h = 0
OBVIOUS

\* Multiples are counted by their quotients.
LEMMA Distributes ==
    ASSUME NEW h \in Nat, h > 0, NEW j \in Nat, NEW k \in Nat
    PROVE  /\ h * j + h * k = h * (j + k)
           /\ j >= k => j - k \in Nat /\ h * j - h * k = h * (j - k)
           /\ h * j >= h * k => j >= k
           /\ h * j > h * k => h * j >= h * k + h
OBVIOUS

\* Sums and differences of multiples are multiples, and a smaller one is smaller by a
\* header at least.
LEMMA UnitsAre ==
    ASSUME NEW x, InUnits(x), NEW y, InUnits(y)
    PROVE  /\ InUnits(x + y)
           /\ x >= y => InUnits(x - y)
           /\ x > y => x >= y + HEADER
<1> DEFINE j == x \div HEADER
           k == y \div HEADER
<1>1. /\ j \in Nat /\ k \in Nat /\ x = HEADER * j /\ y = HEADER * k
      /\ x \in Nat /\ y \in Nat
  BY HeaderIs, DivIs DEF InUnits
<1> HIDE DEF j, k
<1>2. x + y = HEADER * (j + k) /\ j + k \in Nat
  BY <1>1, HeaderIs, Distributes
<1>3. InUnits(x + y)
  BY <1>2, HeaderIs, MultipleIs DEF InUnits
<1>4. ASSUME x >= y PROVE InUnits(x - y)
  <2>1. j - k \in Nat /\ x - y = HEADER * (j - k)
    BY <1>1, <1>4, HeaderIs, Distributes
  <2> QED
    BY <2>1, HeaderIs, MultipleIs DEF InUnits
<1>5. x > y => x >= y + HEADER
  BY <1>1, HeaderIs, Distributes
<1> QED
  BY <1>3, <1>4, <1>5

\* AlignDown rounds down, by less than a header.
LEMMA DownIs ==
    ASSUME NEW n \in Nat
    PROVE  InUnits(Pool!AlignDown(n)) /\ Pool!AlignDown(n) <= n /\ n < Pool!AlignDown(n) + HEADER
<1>1. /\ n \div HEADER \in Nat /\ HEADER * (n \div HEADER) <= n
      /\ n < HEADER * (n \div HEADER) + HEADER
  BY HeaderIs, DivIs
<1>2. InUnits(HEADER * (n \div HEADER))
  BY <1>1, HeaderIs, MultipleIs DEF InUnits
<1> QED
  BY <1>1, <1>2 DEF Pool!AlignDown

\* AlignUp rounds up, by less than a header.
LEMMA UpIs ==
    ASSUME NEW n \in Nat
    PROVE  InUnits(Pool!AlignUp(n)) /\ n <= Pool!AlignUp(n) /\ Pool!AlignUp(n) < n + HEADER
<1>1. n + HEADER - 1 \in Nat
  BY HeaderIs
<1>2. /\ InUnits(Pool!AlignDown(n + HEADER - 1)) /\ Pool!AlignDown(n + HEADER - 1) <= n + HEADER - 1
      /\ n + HEADER - 1 < Pool!AlignDown(n + HEADER - 1) + HEADER
  BY <1>1, DownIs
<1> QED
  BY <1>2, HeaderIs DEF Pool!AlignUp, InUnits

\* The header is one unit.
LEMMA OneUnit == InUnits(HEADER) /\ InUnits(0)
<1>1. HEADER = HEADER * 1 /\ 0 = HEADER * 0
  BY HeaderIs
<1>2. (HEADER * 1) % HEADER = 0 /\ (HEADER * 0) % HEADER = 0
  BY HeaderIs, MultipleIs
<1> QED
  BY <1>1, <1>2, HeaderIs DEF InUnits

\* The chunk for a request has room for it behind its header.
LEMMA ChunkSizeIs ==
    ASSUME NEW n \in Nat \ {0}
    PROVE  /\ InUnits(Pool!ChunkSize(n)) /\ Pool!ChunkSize(n) >= n + HEADER
           /\ Pool!ChunkSize(n) >= 2 * HEADER
<1>1. InUnits(Pool!AlignUp(n)) /\ n <= Pool!AlignUp(n)
  BY UpIs
<1>2. InUnits(Pool!AlignUp(n) + HEADER) /\ Pool!AlignUp(n) >= 0 + HEADER
  BY <1>1, OneUnit, UnitsAre DEF InUnits
<1> QED
  BY <1>1, <1>2, HeaderIs DEF Pool!ChunkSize, InUnits

\* A larger request that needs another chunk needs one that is a header longer.
LEMMA ChunkSizeGrows ==
    ASSUME NEW m \in Nat, NEW n \in Nat, n > m, Pool!ChunkSize(n) # Pool!ChunkSize(m)
    PROVE  Pool!ChunkSize(n) >= Pool!ChunkSize(m) + HEADER
<1> DEFINE a == Pool!AlignUp(m)
           b == Pool!AlignUp(n)
<1>1. /\ InUnits(a) /\ a < m + HEADER /\ InUnits(b) /\ n <= b
      /\ Pool!ChunkSize(m) = a + HEADER /\ Pool!ChunkSize(n) = b + HEADER
  BY UpIs DEF Pool!ChunkSize
<1> HIDE DEF a, b
<1>2. a \in Nat /\ b \in Nat /\ a # b
  BY <1>1 DEF InUnits
<1>3. ~(a > b)
  <2>1. ASSUME a > b PROVE FALSE
    <3>1. a >= b + HEADER
      BY <1>1, <2>1, UnitsAre
    <3> QED
      BY <1>1, <1>2, <3>1, HeaderIs
  <2> QED
    BY <2>1
<1>4. b >= a + HEADER
  BY <1>1, <1>2, <1>3, UnitsAre
<1> QED
  BY <1>1, <1>2, <1>4, HeaderIs

-----------------------------------------------------------------------------
(***************************************************************************)
(* Lists of free chunks in the pool between lo and hi                      *)
(***************************************************************************)

Chunk == [at : Nat, size : Nat]
IsChunk(lo, hi, at, size) ==
    /\ InUnits(at) /\ InUnits(size) /\ size >= 2 * HEADER
    /\ lo <= at /\ at + size <= hi
Holds(at, size, a) == at <= a /\ a < at + size
InList(list, a) == \E j \in DOMAIN list : Holds(list[j].at, list[j].size, a)
Others(list, i, a) == \E j \in DOMAIN list \ {i} : Holds(list[j].at, list[j].size, a)

\* The list goes up; it has a gap behind place k.
Rising(lo, hi, list) ==
    /\ list \in Seq(Chunk)
    /\ \A j \in DOMAIN list : IsChunk(lo, hi, list[j].at, list[j].size)
    /\ \A j, k \in DOMAIN list : j < k => list[j].at + list[j].size <= list[k].at
Gap(list, k) == k < Len(list) => list[k].at + list[k].size < list[k + 1].at
FreeList(lo, hi, list) == Rising(lo, hi, list) /\ \A k \in DOMAIN list : Gap(list, k)

\* A set of natural numbers has a least element.
LEMMA LeastIn ==
    ASSUME NEW S, S \subseteq Nat, S # {}
    PROVE  \E x \in S : \A y \in S : x <= y
<1> DEFINE Less == {ss \in Nat \X Nat : ss[1] < ss[2]}
<1>1. IsWellFoundedOn(Less, Nat)
  BY NatLessThanWellFounded DEF OpToRel
<1> HIDE DEF Less
<1>2. PICK x \in S : \A y \in S : ~(<<y, x>> \in Less)
  BY <1>1, WFMin, Zenon
<1>3. ASSUME NEW y \in S PROVE x <= y
  <2>1. x \in Nat /\ y \in Nat /\ <<y, x>> \notin Less
    BY <1>2
  <2>2. ~(y < x)
    BY <2>1 DEF Less
  <2> QED
    BY <2>1, <2>2
<1> QED
  BY <1>3

\* What RemoveAt leaves
LEMMA RemovedIs ==
    ASSUME NEW S, NEW s \in Seq(S), NEW i \in DOMAIN s
    PROVE  /\ Pool!RemoveAt(s, i) \in Seq(S) /\ Len(Pool!RemoveAt(s, i)) = Len(s) - 1
           /\ \A j \in 1 .. Len(s) - 1 : Pool!RemoveAt(s, i)[j] = IF j < i THEN s[j] ELSE s[j + 1]
<1> DEFINE n == Len(s)
           x == SubSeq(s, 1, i - 1)
           y == SubSeq(s, i + 1, n)
<1>1. n \in Nat /\ i \in 1 .. n /\ i - 1 \in Int /\ i + 1 \in Int /\ 1 \in Int
  OBVIOUS
<1>2. (\A j \in 1 .. i - 1 : s[j] \in S) /\ (\A j \in i + 1 .. n : s[j] \in S)
  OBVIOUS
<1>3. /\ x \in Seq(S) /\ Len(x) = IF 1 <= i - 1 THEN (i - 1) - 1 + 1 ELSE 0
      /\ \A j \in 1 .. (i - 1) - 1 + 1 : x[j] = s[1 + j - 1]
  BY <1>1, <1>2, SubSeqProperties
<1>4. /\ y \in Seq(S) /\ Len(y) = IF i + 1 <= n THEN n - (i + 1) + 1 ELSE 0
      /\ \A j \in 1 .. n - (i + 1) + 1 : y[j] = s[(i + 1) + j - 1]
  BY <1>1, <1>2, SubSeqProperties
<1>5. Pool!RemoveAt(s, i) = x \o y
  BY DEF Pool!RemoveAt
<1> DEFINE z == x \o y
<1>6. /\ z \in Seq(S) /\ Len(z) = Len(x) + Len(y)
      /\ \A j \in 1 .. Len(x) + Len(y) : z[j] = IF j <= Len(x) THEN x[j] ELSE y[j - Len(x)]
  BY <1>3, <1>4, ConcatProperties, Zenon
<1> HIDE DEF n, x, y, z
<1>7. Len(x) = i - 1 /\ Len(y) = n - i /\ Len(x) + Len(y) = n - 1
  <2>1. n \in Nat /\ i \in Nat /\ 1 <= i /\ i <= n
    BY <1>1
  <2>2. /\ Len(x) = IF 1 <= i - 1 THEN (i - 1) - 1 + 1 ELSE 0
        /\ Len(y) = IF i + 1 <= n THEN n - (i + 1) + 1 ELSE 0
    BY <1>3, <1>4
  <2>3. Len(x) = i - 1
    BY <2>1, <2>2
  <2>4. Len(y) = n - i
    BY <2>1, <2>2
  <2> QED
    BY <2>1, <2>3, <2>4
<1>8. ASSUME NEW j \in 1 .. n - 1 PROVE z[j] = IF j < i THEN s[j] ELSE s[j + 1]
  <2>1. CASE j < i
    <3>0. n \in Nat /\ i \in Nat /\ j \in Nat /\ 1 <= j /\ j <= n - 1
      BY <1>1
    <3>1. j \in 1 .. n - 1 /\ j <= i - 1 /\ j \in 1 .. (i - 1) - 1 + 1 /\ 1 + j - 1 = j
      BY <2>1, <3>0
    <3>2. z[j] = x[j]
      BY <1>6, <1>7, <3>1
    <3>3. x[j] = s[1 + j - 1]
      BY <1>3, <3>1, Zenon
    <3>4. s[1 + j - 1] = s[j]
      BY <3>1, Zenon
    <3> QED
      BY <2>1, <3>2, <3>3, <3>4, Zenon
  <2>2. CASE ~(j < i)
    <3> DEFINE k == j - (i - 1)
    <3>0. n \in Nat /\ i \in Nat /\ j \in Nat /\ 1 <= i /\ i <= j /\ j <= n - 1
      BY <1>1, <2>2
    <3>1. ~(j <= i - 1) /\ k \in 1 .. n - (i + 1) + 1 /\ (i + 1) + k - 1 = j + 1
      <4>1. ~(j <= i - 1)
        BY <3>0
      <4>2. (i + 1) + k - 1 = j + 1
        BY <3>0
      <4>3. k \in Nat /\ 1 <= k /\ k <= n - (i + 1) + 1
        BY <3>0
      <4> QED
        BY <3>0, <4>1, <4>2, <4>3
    <3>2. z[j] = y[k]
      BY <1>6, <1>7, <3>1
    <3> HIDE DEF k
    <3>3. y[k] = s[(i + 1) + k - 1]
      BY <1>4, <3>1, Zenon
    <3>4. s[(i + 1) + k - 1] = s[j + 1]
      BY <3>1, Zenon
    <3> QED
      BY <2>2, <3>2, <3>3, <3>4, Zenon
  <2> QED
    BY <2>1, <2>2
<1>9. z \in Seq(S) /\ Len(z) = n - 1
  BY <1>6, <1>7
<1> QED
  BY <1>5, <1>8, <1>9, Zenon DEF n, z

\* new is s with e at place i.
HasNew(new, s, i, e) ==
    /\ Len(new) = Len(s) + 1
    /\ \A j \in 1 .. Len(s) + 1 :
          new[j] = IF j < i THEN s[j] ELSE IF j = i THEN e ELSE s[j - 1]

\* What InsertAt makes
LEMMA InsertedIs ==
    ASSUME NEW S, NEW s \in Seq(S), NEW i \in 1 .. Len(s) + 1, NEW e \in S,
           NEW new, new = Pool!InsertAt(s, i, e)
    PROVE  new \in Seq(S) /\ HasNew(new, s, i, e)
<1> DEFINE n == Len(s)
           x == SubSeq(s, 1, i - 1)
           y == SubSeq(s, i, n)
           v == <<e>>
<1>1. n \in Nat /\ i \in 1 .. n + 1 /\ i - 1 \in Int /\ i \in Int /\ 1 \in Int
  OBVIOUS
<1>2. (\A j \in 1 .. i - 1 : s[j] \in S) /\ (\A j \in i .. n : s[j] \in S)
  OBVIOUS
<1>3. /\ x \in Seq(S) /\ Len(x) = IF 1 <= i - 1 THEN (i - 1) - 1 + 1 ELSE 0
      /\ \A j \in 1 .. (i - 1) - 1 + 1 : x[j] = s[1 + j - 1]
  BY <1>1, <1>2, SubSeqProperties
<1>4. /\ y \in Seq(S) /\ Len(y) = IF i <= n THEN n - i + 1 ELSE 0
      /\ \A j \in 1 .. n - i + 1 : y[j] = s[i + j - 1]
  BY <1>1, <1>2, SubSeqProperties
<1>5. new = x \o v \o y
  BY DEF Pool!InsertAt
<1>6. v \in Seq(S) /\ Len(v) = 1 /\ v[1] = e
  OBVIOUS
<1> HIDE DEF v
<1> DEFINE w == x \o v
<1>7. /\ w \in Seq(S) /\ Len(w) = Len(x) + Len(v)
      /\ \A j \in 1 .. Len(x) + Len(v) : w[j] = IF j <= Len(x) THEN x[j] ELSE v[j - Len(x)]
  BY <1>3, <1>6, ConcatProperties, Zenon
<1> HIDE DEF n, x, y, w
<1> DEFINE z == w \o y
<1>8. /\ z \in Seq(S) /\ Len(z) = Len(w) + Len(y)
      /\ \A j \in 1 .. Len(w) + Len(y) : z[j] = IF j <= Len(w) THEN w[j] ELSE y[j - Len(w)]
  <2>1. w \in Seq(S) /\ y \in Seq(S)
    BY <1>4, <1>7
  <2> QED
    BY <2>1, ConcatProperties, Zenon
<1> HIDE DEF z
<1>9. Len(x) = i - 1 /\ Len(w) = i /\ Len(y) = n - i + 1 /\ Len(w) + Len(y) = n + 1
  BY <1>1, <1>3, <1>4, <1>6, <1>7
<1>10. ASSUME NEW j \in 1 .. n + 1
       PROVE  z[j] = IF j < i THEN s[j] ELSE IF j = i THEN e ELSE s[j - 1]
  <2>1. CASE j < i
    <3>1. j <= i - 1 /\ j <= i /\ j \in 1 .. (i - 1) - 1 + 1 /\ j \in 1 .. Len(x) + Len(v)
      BY <1>1, <1>6, <1>9, <2>1
    <3>2. z[j] = w[j]
      BY <1>8, <1>9, <3>1
    <3>3. w[j] = x[j]
      BY <1>7, <1>9, <3>1
    <3>4. x[j] = s[1 + j - 1] /\ 1 + j - 1 = j
      BY <1>3, <3>1
    <3> QED
      BY <2>1, <3>2, <3>3, <3>4
  <2>2. CASE j = i
    <3>1. ~(j <= i - 1) /\ j <= i /\ j - (i - 1) = 1 /\ j \in 1 .. Len(x) + Len(v) /\ ~(j < i)
      BY <1>1, <1>6, <1>9, <2>2
    <3>2. z[j] = w[j]
      BY <1>8, <1>9, <3>1
    <3>3. w[j] = v[1]
      BY <1>7, <1>9, <3>1
    <3> QED
      BY <1>6, <2>2, <3>1, <3>2, <3>3
  <2>3. CASE j > i
    <3> DEFINE k == j - i
    <3>1. ~(j <= i) /\ k \in 1 .. n - i + 1 /\ i + k - 1 = j - 1 /\ ~(j < i) /\ j # i
      BY <1>1, <2>3
    <3>2. z[j] = y[k]
      BY <1>8, <1>9, <3>1
    <3> HIDE DEF k
    <3>3. y[k] = s[i + k - 1]
      BY <1>4, <3>1, Zenon
    <3> QED
      BY <3>1, <3>2, <3>3
  <2> QED
    BY <1>1, <2>1, <2>2, <2>3
<1>11. z \in Seq(S) /\ Len(z) = n + 1
  BY <1>8, <1>9
<1> QED
  BY <1>5, <1>10, <1>11, Zenon DEF HasNew, n, z, w

\* A list without the chunk at place i
LEMMA ListWithout ==
    ASSUME NEW lo, NEW hi, NEW list, Rising(lo, hi, list), NEW i \in DOMAIN list,
           NEW rest, rest = Pool!RemoveAt(list, i)
    PROVE  /\ Rising(lo, hi, rest) /\ Len(rest) = Len(list) - 1
           /\ \A j \in 1 .. Len(rest) : rest[j] = IF j < i THEN list[j] ELSE list[j + 1]
           /\ FreeList(lo, hi, list) => FreeList(lo, hi, rest)
           /\ \A a \in Int : InList(rest, a) <=> Others(list, i, a)
<1> DEFINE n == Len(list)
<1>1. /\ list \in Seq(Chunk) /\ n \in Nat /\ DOMAIN list = 1 .. n /\ i \in 1 .. n
      /\ \A j \in 1 .. n : list[j] \in Chunk /\ IsChunk(lo, hi, list[j].at, list[j].size)
      /\ \A j, k \in 1 .. n : j < k => list[j].at + list[j].size <= list[k].at
  BY DEF Rising
<1>2. /\ rest \in Seq(Chunk) /\ Len(rest) = n - 1 /\ DOMAIN rest = 1 .. n - 1
      /\ \A j \in 1 .. n - 1 : rest[j] = IF j < i THEN list[j] ELSE list[j + 1]
  <2>1. list \in Seq(Chunk) /\ i \in DOMAIN list /\ n \in Nat /\ n - 1 \in Nat
    BY <1>1
  <2>2. /\ rest \in Seq(Chunk) /\ Len(rest) = n - 1
        /\ \A j \in 1 .. n - 1 : rest[j] = IF j < i THEN list[j] ELSE list[j + 1]
    BY <2>1, RemovedIs, Zenon
  <2> QED
    BY <2>1, <2>2
<1> HIDE DEF n
<1>3. Rising(lo, hi, rest)
  <2>1. ASSUME NEW j \in 1 .. n - 1 PROVE IsChunk(lo, hi, rest[j].at, rest[j].size)
    BY <1>1, <1>2
  <2>2. ASSUME NEW j \in 1 .. n - 1, NEW k \in 1 .. n - 1, j < k
        PROVE  rest[j].at + rest[j].size <= rest[k].at
    <3> DEFINE j1 == IF j < i THEN j ELSE j + 1
               k1 == IF k < i THEN k ELSE k + 1
    <3>1. n \in Nat /\ i \in Nat /\ j \in Nat /\ k \in Nat
      BY <1>1
    <3>2. j1 \in 1 .. n /\ k1 \in 1 .. n /\ j1 < k1
      BY <2>2, <3>1
    <3>3. rest[j] = list[j1] /\ rest[k] = list[k1]
      BY <1>2
    <3> HIDE DEF j1, k1
    <3> QED
      BY <1>1, <3>2, <3>3, Zenon
  <2> QED
    BY <1>2, <2>1, <2>2 DEF Rising
<1>4. ASSUME FreeList(lo, hi, list) PROVE FreeList(lo, hi, rest)
  <2>1. \A k \in 1 .. n : k < n => list[k].at + list[k].size < list[k + 1].at
    BY <1>1, <1>4 DEF FreeList, Gap, n
  <2>2. ASSUME NEW k \in 1 .. n - 1, k < n - 1
        PROVE  rest[k].at + rest[k].size < rest[k + 1].at
    <3>0. k \in Nat /\ k \in 1 .. n /\ k + 1 \in 1 .. n - 1 /\ k + 1 \in 1 .. n /\ (k + 1) + 1 \in 1 .. n /\ k < n /\ k + 1 < n
      BY <1>1, <2>2
    <3>1. CASE k + 1 < i
      <4>1. k < i /\ rest[k] = list[k] /\ rest[k + 1] = list[k + 1]
        BY <1>1, <1>2, <3>0, <3>1
      <4> QED
        BY <2>1, <3>0, <4>1, Zenon
    <3>2. CASE k + 1 = i
      <4>1. k < i /\ ~(k + 1 < i) /\ rest[k] = list[k] /\ rest[k + 1] = list[(k + 1) + 1]
        BY <1>1, <1>2, <3>0, <3>2
      <4>2. /\ list[k].at + list[k].size < list[k + 1].at
            /\ list[k + 1].at + list[k + 1].size <= list[(k + 1) + 1].at
        BY <1>1, <2>1, <3>0
      <4>3. /\ list[k].at \in Nat /\ list[k].size \in Nat /\ list[k + 1].at \in Nat
            /\ list[k + 1].size \in Nat /\ list[(k + 1) + 1].at \in Nat
        BY <1>1, <3>0 DEF Chunk
      <4> QED
        BY <4>1, <4>2, <4>3
    <3>3. CASE k >= i
      <4>1. rest[k] = list[k + 1] /\ rest[k + 1] = list[(k + 1) + 1]
        BY <1>1, <1>2, <3>0, <3>3
      <4> QED
        BY <2>1, <3>0, <4>1, Zenon
    <3> QED
      BY <1>1, <3>0, <3>1, <3>2, <3>3
  <2> QED
    BY <1>2, <1>3, <2>2 DEF FreeList, Gap
<1>5. ASSUME NEW a \in Int
      PROVE  InList(rest, a) <=> \E j \in DOMAIN list \ {i} : Holds(list[j].at, list[j].size, a)
  <2>1. ASSUME NEW j \in 1 .. n - 1, Holds(rest[j].at, rest[j].size, a)
        PROVE  \E k \in DOMAIN list \ {i} : Holds(list[k].at, list[k].size, a)
    <3> DEFINE k == IF j < i THEN j ELSE j + 1
    <3>1. n \in Nat /\ i \in Nat /\ j \in Nat
      BY <1>1
    <3>2. k \in 1 .. n /\ k # i
      BY <3>1
    <3>3. rest[j] = list[k]
      BY <1>2
    <3> HIDE DEF k
    <3> QED
      BY <1>1, <2>1, <3>2, <3>3, Zenon
  <2>2. ASSUME NEW k \in DOMAIN list \ {i}, Holds(list[k].at, list[k].size, a)
        PROVE  InList(rest, a)
    <3> DEFINE j == IF k < i THEN k ELSE k - 1
    <3>1. n \in Nat /\ i \in 1 .. n /\ k \in 1 .. n /\ k # i
      BY <1>1
    <3>2. j \in 1 .. n - 1 /\ (j < i <=> k < i) /\ (~(k < i) => j + 1 = k)
      BY <3>1
    <3> HIDE DEF j
    <3>3. rest[j] = IF j < i THEN list[j] ELSE list[j + 1]
      BY <1>2, <3>2, Zenon
    <3>4. rest[j] = list[k]
      BY <3>2, <3>3 DEF j
    <3> QED
      BY <1>2, <2>2, <3>2, <3>4, Zenon DEF InList
  <2> QED
    BY <1>2, <2>1, <2>2 DEF InList
<1> QED
  BY <1>2, <1>3, <1>4, <1>5 DEF n, Others

\* A list whose chunk at place i begins elsewhere, behind the chunk before it
LEMMA ListResized ==
    ASSUME NEW lo, NEW hi, NEW list, FreeList(lo, hi, list), NEW i \in DOMAIN list,
           NEW c \in Chunk, IsChunk(lo, hi, c.at, c.size),
           c.at + c.size = list[i].at + list[i].size,
           \A j \in DOMAIN list : j < i => list[j].at + list[j].size < c.at,
           NEW new, new = [list EXCEPT ![i] = c]
    PROVE  /\ FreeList(lo, hi, new)
           /\ \A a \in Int : InList(new, a) <=> Holds(c.at, c.size, a) \/ Others(list, i, a)
<1> DEFINE n == Len(list)
<1>1. /\ list \in Seq(Chunk) /\ n \in Nat /\ DOMAIN list = 1 .. n /\ i \in 1 .. n
      /\ \A j \in 1 .. n : list[j] \in Chunk /\ IsChunk(lo, hi, list[j].at, list[j].size)
      /\ \A j, k \in 1 .. n : j < k => list[j].at + list[j].size <= list[k].at
      /\ \A k \in 1 .. n : k < n => list[k].at + list[k].size < list[k + 1].at
  BY DEF FreeList, Rising, Gap
<1>2. /\ new \in Seq(Chunk) /\ Len(new) = n /\ DOMAIN new = 1 .. n
      /\ \A j \in 1 .. n : new[j] = IF j = i THEN c ELSE list[j]
  BY <1>1
<1> HIDE DEF n
<1>3. ASSUME NEW j \in 1 .. n PROVE IsChunk(lo, hi, new[j].at, new[j].size)
  BY <1>1, <1>2
<1>4. ASSUME NEW j \in 1 .. n, NEW k \in 1 .. n, j < k
      PROVE  new[j].at + new[j].size <= new[k].at
  <2>1. /\ list[j].at \in Nat /\ list[j].size \in Nat /\ list[k].at \in Nat /\ c.at \in Nat
    BY <1>1 DEF Chunk
  <2>2. CASE k = i
    BY <1>1, <1>2, <1>4, <2>1, <2>2
  <2>3. CASE k # i
    BY <1>1, <1>2, <1>4, <2>3
  <2> QED
    BY <2>2, <2>3
<1>5. ASSUME NEW k \in 1 .. n, k < n
      PROVE  new[k].at + new[k].size < new[k + 1].at
  <2>1. k + 1 \in 1 .. n /\ k < k + 1
    BY <1>1, <1>5
  <2>2. CASE k + 1 = i
    BY <1>1, <1>2, <2>1, <2>2
  <2>3. CASE k + 1 # i
    BY <1>1, <1>2, <1>5, <2>1, <2>3
  <2> QED
    BY <2>2, <2>3
<1>6. FreeList(lo, hi, new)
  BY <1>2, <1>3, <1>4, <1>5 DEF FreeList, Rising, Gap
<1>7. ASSUME NEW a \in Int
      PROVE  InList(new, a) <=> Holds(c.at, c.size, a) \/ Others(list, i, a)
  BY <1>1, <1>2 DEF InList, Others
<1> QED
  BY <1>6, <1>7

-----------------------------------------------------------------------------
(***************************************************************************)
(* pool_free on the list: where the chunk belongs, and its two merges      *)
(***************************************************************************)

\* What a list says about two of its chunks
LEMMA InOrder ==
    ASSUME NEW lo, NEW hi, NEW list, Rising(lo, hi, list)
    PROVE  /\ list \in Seq(Chunk) /\ Len(list) \in Nat /\ DOMAIN list = 1 .. Len(list)
           /\ \A j \in 1 .. Len(list) : /\ list[j] \in Chunk
                                        /\ list[j].at \in Nat /\ list[j].size \in Nat
                                        /\ IsChunk(lo, hi, list[j].at, list[j].size)
           /\ \A j, k \in 1 .. Len(list) : j < k => list[j].at + list[j].size <= list[k].at
<1>1. \A j \in 1 .. Len(list) : list[j] \in Chunk
  BY DEF Rising
<1>2. \A c \in Chunk : c.at \in Nat /\ c.size \in Nat
  BY DEF Chunk
<1> QED
  BY <1>1, <1>2 DEF Rising

\* Merging chunk i with the next leaves what the list covers, and closes the gap at i: m
\* is another place, before it, where a gap may be missing.
LEMMA MergedUpIs ==
    ASSUME NEW lo, NEW hi, NEW list, Rising(lo, hi, list), NEW i \in DOMAIN list,
           NEW m \in 0 .. i - 1, \A k \in DOMAIN list : k # i /\ k # m => Gap(list, k),
           NEW new, new = Pool!MergedUp(list, i)
    PROVE  /\ Rising(lo, hi, new) /\ i \in DOMAIN new
           /\ \A k \in DOMAIN new : k # m => Gap(new, k)
           /\ \A a \in Int : InList(new, a) <=> InList(list, a)
<1> DEFINE n == Len(list)
<1>1. /\ list \in Seq(Chunk) /\ n \in Nat /\ DOMAIN list = 1 .. n /\ i \in 1 .. n
      /\ \A j \in 1 .. n : /\ list[j] \in Chunk /\ list[j].at \in Nat /\ list[j].size \in Nat
                           /\ IsChunk(lo, hi, list[j].at, list[j].size)
      /\ \A j, k \in 1 .. n : j < k => list[j].at + list[j].size <= list[k].at
  BY InOrder
<1>2. \A k \in 1 .. n : k # i /\ k # m => (k < n => list[k].at + list[k].size < list[k + 1].at)
  BY <1>1 DEF Gap
<1>3. CASE ~(i < n /\ list[i].at + list[i].size = list[i + 1].at)
  <2>1. new = list
    BY <1>3 DEF Pool!MergedUp, Pool!End
  <2>2. i < n => list[i].at + list[i].size < list[i + 1].at
    <3>1. ASSUME i < n PROVE list[i].at + list[i].size < list[i + 1].at
      <4>1. i + 1 \in 1 .. n /\ i < i + 1
        BY <1>1, <3>1
      <4>2. list[i].at + list[i].size <= list[i + 1].at
        BY <1>1, <4>1
      <4>3. list[i].at \in Nat /\ list[i].size \in Nat /\ list[i + 1].at \in Nat
        BY <1>1, <4>1
      <4> QED
        BY <1>3, <3>1, <4>2, <4>3
    <3> QED
      BY <3>1
  <2> QED
    BY <1>1, <1>2, <2>1, <2>2 DEF Gap
<1>4. CASE i < n /\ list[i].at + list[i].size = list[i + 1].at
  <2> DEFINE both == [at |-> list[i].at, size |-> list[i].size + list[i + 1].size]
             merged == [list EXCEPT ![i] = both]
  <2>1. i \in 1 .. n /\ i + 1 \in 1 .. n /\ i < i + 1
    BY <1>1, <1>4
  <2>2. new = Pool!RemoveAt(merged, i + 1)
    <3>1. list[i] = [at |-> list[i].at, size |-> list[i].size]
      <4>1. list[i] \in Chunk
        BY <1>1
      <4> QED
        BY <4>1 DEF Chunk
    <3>2. [list EXCEPT ![i].size = @ + list[i + 1].size] = merged
      <4>1. ASSUME NEW c, c = [at |-> c.at, size |-> c.size], NEW v
            PROVE  [c EXCEPT !.size = v] = [at |-> c.at, size |-> v]
        BY <4>1
      <4>2. [list[i] EXCEPT !.size = list[i].size + list[i + 1].size] = both
        BY <3>1, <4>1, Zenon
      <4> HIDE DEF both
      <4> QED
        BY <4>2, Zenon
    <3>3. new = Pool!RemoveAt([list EXCEPT ![i].size = @ + list[i + 1].size], i + 1)
      BY <1>4, Zenon DEF Pool!MergedUp, Pool!End
    <3> QED
      BY <3>2, <3>3, Zenon
  <2>3. both \in Chunk /\ both.at = list[i].at /\ both.size = list[i].size + list[i + 1].size
    BY <1>1, <2>1 DEF Chunk
  <2> HIDE DEF both
  <2>4. /\ merged \in Seq(Chunk) /\ Len(merged) = n /\ i + 1 \in DOMAIN merged
        /\ \A j \in 1 .. n : merged[j] = IF j = i THEN both ELSE list[j]
    BY <1>1, <2>1, <2>3
  <2> HIDE DEF merged, n
  <2>5. /\ new \in Seq(Chunk) /\ Len(new) = n - 1
        /\ \A j \in 1 .. n - 1 : new[j] = IF j < i + 1 THEN merged[j] ELSE merged[j + 1]
    <3>1. merged \in Seq(Chunk) /\ i + 1 \in DOMAIN merged
      BY <2>4
    <3>2. /\ new \in Seq(Chunk) /\ Len(new) = Len(merged) - 1
          /\ \A j \in 1 .. Len(merged) - 1 : new[j] = IF j < i + 1 THEN merged[j] ELSE merged[j + 1]
      BY <2>2, <3>1, RemovedIs
    <3> QED
      BY <2>4, <3>2, Zenon
  <2>6. /\ DOMAIN new = 1 .. n - 1 /\ i \in 1 .. n - 1
    BY <1>1, <1>4, <2>5
  <2>7. \A j \in 1 .. n - 1 : new[j] = IF j < i THEN list[j] ELSE IF j = i THEN both ELSE list[j + 1]
    <3>1. ASSUME NEW j \in 1 .. n - 1
          PROVE  new[j] = IF j < i THEN list[j] ELSE IF j = i THEN both ELSE list[j + 1]
      <4>1. j \in 1 .. n /\ j + 1 \in 1 .. n /\ (j < i + 1 <=> j < i \/ j = i) /\ (j < i => j # i)
            /\ (~(j < i + 1) => j + 1 # i)
        BY <1>1
      <4>2. /\ new[j] = IF j < i + 1 THEN merged[j] ELSE merged[j + 1]
            /\ merged[j] = IF j = i THEN both ELSE list[j]
            /\ merged[j + 1] = IF j + 1 = i THEN both ELSE list[j + 1]
        BY <2>4, <2>5, <4>1, Zenon
      <4> QED
        BY <4>1, <4>2, Zenon
    <3> QED
      BY <3>1
  \* new[j] begins where list[f(j)] does and ends where list[g(j)] does
  <2> DEFINE f(j) == IF j <= i THEN j ELSE j + 1
             g(j) == IF j < i THEN j ELSE j + 1
  <2>8. ASSUME NEW j \in 1 .. n - 1
        PROVE  /\ f(j) \in 1 .. n /\ g(j) \in 1 .. n
               /\ new[j].at = list[f(j)].at
               /\ new[j].at + new[j].size = list[g(j)].at + list[g(j)].size
               /\ IsChunk(lo, hi, new[j].at, new[j].size)
    <3>1. j \in 1 .. n /\ j + 1 \in 1 .. n /\ (j < i => j <= i) /\ (j = i => j <= i /\ ~(j < i))
          /\ (~(j < i) /\ j # i => ~(j <= i))
      BY <1>1
    <3>2. CASE j < i
      <4>1. f(j) = j /\ g(j) = j /\ new[j] = list[j]
        BY <2>7, <3>1, <3>2, Zenon
      <4> HIDE DEF f, g
      <4> QED
        BY <1>1, <3>1, <4>1, Zenon
    <3>3. CASE j = i
      <4>1. f(j) = i /\ g(j) = i + 1 /\ new[j] = both
        BY <2>7, <3>1, <3>3, Zenon
      <4> HIDE DEF f, g
      <4>2. /\ list[i].at \in Nat /\ list[i].size \in Nat
            /\ list[i + 1].at \in Nat /\ list[i + 1].size \in Nat
            /\ IsChunk(lo, hi, list[i].at, list[i].size)
            /\ IsChunk(lo, hi, list[i + 1].at, list[i + 1].size)
        BY <1>1, <2>1
      <4>3. both.at + both.size = list[i + 1].at + list[i + 1].size
        BY <1>4, <2>3, <4>2
      <4>4. IsChunk(lo, hi, both.at, both.size)
        <5>1. InUnits(list[i].size + list[i + 1].size)
          BY <4>2, UnitsAre, Zenon DEF IsChunk
        <5>2. list[i].size + list[i + 1].size >= 2 * HEADER
          BY <4>2, HeaderIs DEF IsChunk
        <5> QED
          BY <2>3, <4>2, <4>3, <5>1, <5>2 DEF IsChunk
      <4> QED
        BY <2>1, <2>3, <4>1, <4>3, <4>4, Zenon
    <3>4. CASE ~(j < i) /\ j # i
      <4>1. f(j) = j + 1 /\ g(j) = j + 1 /\ new[j] = list[j + 1]
        BY <2>7, <3>1, <3>4, Zenon
      <4> HIDE DEF f, g
      <4> QED
        BY <1>1, <3>1, <4>1, Zenon
    <3> HIDE DEF f, g
    <3> QED
      BY <3>2, <3>3, <3>4
  <2>9. ASSUME NEW j \in 1 .. n - 1, NEW k \in 1 .. n - 1, j < k
        PROVE  new[j].at + new[j].size <= new[k].at
    <3>1. g(j) < f(k)
      BY <1>1, <2>9
    <3>2. /\ g(j) \in 1 .. n /\ f(k) \in 1 .. n
          /\ new[j].at + new[j].size = list[g(j)].at + list[g(j)].size
          /\ new[k].at = list[f(k)].at
      BY <2>8
    <3> HIDE DEF f, g
    <3> QED
      BY <1>1, <3>1, <3>2
  <2>10. Rising(lo, hi, new)
    BY <2>5, <2>6, <2>8, <2>9 DEF Rising
  <2>11. ASSUME NEW k \in 1 .. n - 1, k # m, k < n - 1
         PROVE  new[k].at + new[k].size < new[k + 1].at
    <3>1. /\ k + 1 \in 1 .. n - 1 /\ g(k) < n /\ f(k + 1) = g(k) + 1 /\ g(k) # i /\ g(k) # m
      BY <1>1, <2>11
    <3>2. /\ g(k) \in 1 .. n
          /\ new[k].at + new[k].size = list[g(k)].at + list[g(k)].size
          /\ new[k + 1].at = list[f(k + 1)].at
      BY <2>8, <3>1
    <3> HIDE DEF f, g
    <3>3. list[g(k)].at + list[g(k)].size < list[g(k) + 1].at
      BY <1>2, <3>1, <3>2, Zenon
    <3> QED
      BY <3>1, <3>2, <3>3, Zenon
  <2>12. \A k \in DOMAIN new : k # m => Gap(new, k)
    BY <2>5, <2>6, <2>11 DEF Gap
  <2>13. ASSUME NEW a \in Int PROVE InList(new, a) <=> InList(list, a)
    <3>1. Holds(both.at, both.size, a) <=>
              \/ Holds(list[i].at, list[i].size, a)
              \/ Holds(list[i + 1].at, list[i + 1].size, a)
      <4>1. /\ list[i].at \in Nat /\ list[i].size \in Nat
            /\ list[i + 1].at \in Nat /\ list[i + 1].size \in Nat
        BY <1>1, <2>1
      <4> QED
        BY <1>4, <2>3, <4>1 DEF Holds
    <3>2. ASSUME NEW j \in 1 .. n - 1, Holds(new[j].at, new[j].size, a)
          PROVE  \E k \in 1 .. n : Holds(list[k].at, list[k].size, a)
      <4>1. j \in 1 .. n /\ j + 1 \in 1 .. n
        BY <1>1
      <4> QED
        BY <2>1, <2>7, <3>1, <3>2, <4>1, Zenon
    <3>3. ASSUME NEW k \in 1 .. n, Holds(list[k].at, list[k].size, a)
          PROVE  \E j \in 1 .. n - 1 : Holds(new[j].at, new[j].size, a)
      <4>1. CASE k < i
        <5>1. k \in 1 .. n - 1
          BY <1>1, <1>4, <4>1
        <5> QED
          BY <2>7, <3>3, <4>1, <5>1, Zenon
      <4>2. CASE k = i \/ k = i + 1
        <5>1. ~(i < i) /\ i = i
          BY <1>1
        <5>2. new[i] = both
          BY <2>6, <2>7, <5>1, Zenon
        <5> QED
          BY <2>6, <3>1, <3>3, <4>2, <5>2, Zenon
      <4>3. CASE k > i + 1
        <5> DEFINE j == k - 1
        <5>1. j \in 1 .. n - 1 /\ ~(j < i) /\ j # i /\ j + 1 = k
          BY <1>1, <4>3
        <5> HIDE DEF j
        <5>2. new[j] = list[j + 1]
          BY <2>7, <5>1, Zenon
        <5> QED
          BY <3>3, <5>1, <5>2
      <4> QED
        BY <1>1, <4>1, <4>2, <4>3
    <3> QED
      BY <1>1, <2>6, <3>2, <3>3 DEF InList
  <2> QED
    BY <2>6, <2>10, <2>12, <2>13
<1> QED
  BY <1>3, <1>4

\* The walk along the list ends behind the chunks that begin before an address.
LEMMA BeforeIs ==
    ASSUME NEW lo, NEW hi, NEW list, Rising(lo, hi, list), NEW at \in Nat
    PROVE  /\ Pool!Before(list, at) \in 0 .. Len(list)
           /\ \A j \in 1 .. Pool!Before(list, at) : list[j].at < at
           /\ \A j \in Pool!Before(list, at) + 1 .. Len(list) : list[j].at >= at
<1> DEFINE n == Len(list)
           P(k) == /\ \A j \in 1 .. k : list[j].at < at
                   /\ k < n => list[k + 1].at >= at
           k0 == Pool!Before(list, at)
<1>1. /\ n \in Nat
      /\ \A j \in 1 .. n : list[j].at \in Nat /\ list[j].size \in Nat
      /\ \A j, k \in 1 .. n : j < k => list[j].at + list[j].size <= list[k].at
  BY InOrder
<1>2. \E k \in 0 .. n : P(k)
  <2> DEFINE late == {j \in 1 .. n : list[j].at >= at}
  <2>1. CASE late = {}
    <3>1. P(n) /\ n \in 0 .. n
      BY <1>1, <2>1
    <3> QED
      BY <3>1
  <2>2. CASE late # {}
    <3>1. late \subseteq Nat
      BY <1>1
    <3>2. PICK x \in late : \A y \in late : x <= y
      BY <2>2, <3>1, LeastIn, Zenon
    <3>3. x \in 1 .. n /\ list[x].at >= at /\ \A j \in 1 .. n : j < x => list[j].at < at
      BY <1>1, <3>2
    <3>4. x - 1 \in 0 .. n /\ (x - 1) + 1 = x /\ \A j \in 1 .. x - 1 : j \in 1 .. n /\ j < x
      BY <1>1, <3>3
    <3>5. P(x - 1)
      BY <3>3, <3>4
    <3> QED
      BY <3>4, <3>5
  <2> QED
    BY <2>1, <2>2
<1>3. k0 = CHOOSE k \in 0 .. n : P(k)
  BY DEF Pool!Before
<1> HIDE DEF P, k0
<1>4. k0 \in 0 .. n /\ P(k0)
  BY <1>2, <1>3, Zenon
<1>5. ASSUME NEW j \in k0 + 1 .. n PROVE list[j].at >= at
  <2>1. k0 < n /\ k0 + 1 \in 1 .. n /\ j \in 1 .. n
    BY <1>1, <1>4
  <2>2. list[k0 + 1].at >= at
    BY <1>4, <2>1 DEF P
  <2>3. CASE j = k0 + 1
    BY <2>2, <2>3
  <2>4. CASE k0 + 1 < j
    <3>1. list[k0 + 1].at + list[k0 + 1].size <= list[j].at
      BY <1>1, <2>1, <2>4
    <3> DEFINE x == list[k0 + 1].at
               y == list[k0 + 1].size
               z == list[j].at
    <3>2. x \in Nat /\ y \in Nat /\ z \in Nat /\ x + y <= z /\ x >= at
      BY <1>1, <2>1, <2>2, <3>1
    <3> HIDE DEF x, y, z
    <3>3. z >= at
      BY <3>2
    <3> QED
      BY <3>3 DEF z
  <2> QED
    BY <1>1, <1>4, <2>3, <2>4
<1> QED
  BY <1>4, <1>5 DEF P, k0

\* A chunk that the list does not meet belongs between the two it is put between; the
\* gaps before and behind it may be missing.
LEMMA ListWith ==
    ASSUME NEW lo, NEW hi, NEW list, FreeList(lo, hi, list),
           NEW c \in Chunk, IsChunk(lo, hi, c.at, c.size),
           \A a \in Int : ~(Holds(c.at, c.size, a) /\ InList(list, a)),
           NEW i, i = Pool!Before(list, c.at) + 1,
           NEW new, new = Pool!InsertAt(list, i, c)
    PROVE  /\ Rising(lo, hi, new) /\ i \in DOMAIN new
           /\ \A k \in DOMAIN new : k # i /\ k # i - 1 => Gap(new, k)
           /\ \A a \in Int : InList(new, a) <=> InList(list, a) \/ Holds(c.at, c.size, a)
<1> DEFINE n == Len(list)
<1>1. /\ list \in Seq(Chunk) /\ n \in Nat /\ DOMAIN list = 1 .. n
      /\ \A j \in 1 .. n : /\ list[j] \in Chunk /\ list[j].at \in Nat /\ list[j].size \in Nat
                           /\ IsChunk(lo, hi, list[j].at, list[j].size)
      /\ \A j, k \in 1 .. n : j < k => list[j].at + list[j].size <= list[k].at
  BY InOrder DEF FreeList
<1>2. c.at \in Nat /\ c.size \in Nat /\ c.size > 0
  BY HeaderIs DEF Chunk, IsChunk
<1>3. /\ i \in 1 .. n + 1 /\ i - 1 \in 0 .. n
      /\ \A j \in 1 .. i - 1 : list[j].at < c.at
      /\ \A j \in i .. n : list[j].at >= c.at
  <2> DEFINE k == Pool!Before(list, c.at)
  <2>1. /\ k \in 0 .. n /\ \A j \in 1 .. k : list[j].at < c.at
        /\ \A j \in k + 1 .. n : list[j].at >= c.at
    BY <1>2, BeforeIs, Zenon DEF FreeList
  <2> HIDE DEF k
  <2>2. i = k + 1
    BY DEF k
  <2> QED
    BY <1>1, <2>1, <2>2
<1>4. ASSUME NEW j \in 1 .. n, j < i PROVE list[j].at + list[j].size <= c.at
  <2>1. j \in 1 .. i - 1
    BY <1>1, <1>3, <1>4
  <2>2. list[j].at < c.at /\ list[j].at \in Nat /\ list[j].size \in Nat
    BY <1>1, <1>3, <2>1
  <2>3. ~(Holds(c.at, c.size, c.at) /\ Holds(list[j].at, list[j].size, c.at))
    <3>1. j \in DOMAIN list /\ c.at \in Int
      BY <1>1, <1>2
    <3> QED
      BY <3>1, Zenon DEF InList
  <2> QED
    BY <1>2, <2>2, <2>3 DEF Holds
<1>5. ASSUME NEW j \in 1 .. n, j >= i PROVE c.at + c.size <= list[j].at
  <2>1. j \in i .. n
    BY <1>1, <1>3, <1>5
  <2>2. list[j].at >= c.at /\ list[j].at \in Nat /\ list[j].size \in Nat /\ list[j].size > 0
    BY <1>1, <1>3, <2>1, HeaderIs DEF IsChunk
  <2>3. ~(Holds(c.at, c.size, list[j].at) /\ Holds(list[j].at, list[j].size, list[j].at))
    <3>1. j \in DOMAIN list /\ list[j].at \in Int
      BY <1>1, <2>2
    <3> QED
      BY <3>1, Zenon DEF InList
  <2> QED
    BY <1>2, <2>2, <2>3 DEF Holds
<1>6. /\ new \in Seq(Chunk) /\ Len(new) = n + 1
      /\ \A j \in 1 .. n + 1 : new[j] = IF j < i THEN list[j] ELSE IF j = i THEN c ELSE list[j - 1]
  <2>1. list \in Seq(Chunk) /\ i \in 1 .. Len(list) + 1 /\ c \in Chunk
    BY <1>1, <1>3
  <2>2. new \in Seq(Chunk) /\ HasNew(new, list, i, c)
    BY <2>1, InsertedIs
  <2> QED
    BY <2>2 DEF HasNew
<1> HIDE DEF n
<1>7. DOMAIN new = 1 .. n + 1
  BY <1>1, <1>6
<1>8. ASSUME NEW j \in 1 .. n + 1
      PROVE  \/ j < i /\ j \in 1 .. n /\ new[j] = list[j]
             \/ j = i /\ new[j] = c
             \/ j > i /\ j - 1 \in 1 .. n /\ j - 1 >= i /\ new[j] = list[j - 1]
  <2>1. /\ j < i => j \in 1 .. n
        /\ ~(j < i) /\ j # i => j > i /\ j - 1 \in 1 .. n /\ j - 1 >= i
        /\ j = i => ~(j < i)
    BY <1>1, <1>3
  <2> QED
    BY <1>6, <2>1, Zenon
<1>9. ASSUME NEW j \in 1 .. n + 1 PROVE IsChunk(lo, hi, new[j].at, new[j].size)
  BY <1>1, <1>8, Zenon
<1>10. ASSUME NEW j \in 1 .. n + 1, NEW k \in 1 .. n + 1, j < k
       PROVE  new[j].at + new[j].size <= new[k].at
  <2>1. CASE k < i
    <3>1. j < i
      BY <1>3, <1>10, <2>1
    <3>2. j \in 1 .. n /\ k \in 1 .. n /\ new[j] = list[j] /\ new[k] = list[k]
      BY <1>1, <1>3, <1>6, <2>1, <3>1
    <3> QED
      BY <1>1, <1>10, <3>2, Zenon
  <2>2. CASE k = i
    <3>1. j < i /\ j \in 1 .. n /\ ~(k < i)
      BY <1>1, <1>3, <1>10, <2>2
    <3>2. new[j] = list[j] /\ new[k] = c
      BY <1>6, <2>2, <3>1, Zenon
    <3> QED
      BY <1>4, <3>1, <3>2, Zenon
  <2>3. CASE k > i /\ j = i
    <3>1. k - 1 >= i /\ k - 1 \in 1 .. n /\ ~(j < i) /\ ~(k < i) /\ k # i
      BY <1>1, <1>3, <2>3
    <3>2. new[j] = c /\ new[k] = list[k - 1]
      BY <1>6, <2>3, <3>1, Zenon
    <3> QED
      BY <1>5, <3>1, <3>2, Zenon
  <2>4. CASE k > i /\ j < i
    <3>1. k - 1 \in 1 .. n /\ j \in 1 .. n /\ j < k - 1 /\ ~(k < i) /\ k # i
      BY <1>1, <1>3, <2>4
    <3>2. new[j] = list[j] /\ new[k] = list[k - 1]
      BY <1>6, <2>4, <3>1, Zenon
    <3> QED
      BY <1>1, <3>1, <3>2, Zenon
  <2>5. CASE j > i
    <3>1. /\ k - 1 \in 1 .. n /\ j - 1 \in 1 .. n /\ j - 1 < k - 1
          /\ ~(j < i) /\ j # i /\ ~(k < i) /\ k # i
      BY <1>1, <1>3, <1>10, <2>5
    <3>2. new[j] = list[j - 1] /\ new[k] = list[k - 1]
      BY <1>6, <3>1, Zenon
    <3> QED
      BY <1>1, <3>1, <3>2, Zenon
  <2> QED
    BY <1>1, <1>3, <2>1, <2>2, <2>3, <2>4, <2>5
<1>11. Rising(lo, hi, new)
  BY <1>6, <1>7, <1>9, <1>10 DEF Rising
<1>12. ASSUME NEW k \in 1 .. n + 1, k # i, k # i - 1, k < n + 1
       PROVE  new[k].at + new[k].size < new[k + 1].at
  <2>1. \A j \in 1 .. n : j < n => list[j].at + list[j].size < list[j + 1].at
    BY <1>1 DEF FreeList, Gap, n
  <2>2. CASE k < i
    <3>1. k \in 1 .. n /\ k < n /\ k + 1 \in 1 .. n + 1 /\ k + 1 < i
      BY <1>1, <1>3, <1>12, <2>2
    <3>2. new[k] = list[k] /\ new[k + 1] = list[k + 1]
      BY <1>6, <2>2, <3>1, Zenon
    <3> QED
      BY <2>1, <3>1, <3>2, Zenon
  <2>3. CASE k > i
    <3>1. /\ k - 1 \in 1 .. n /\ k - 1 < n /\ k + 1 \in 1 .. n + 1 /\ ~(k < i) /\ ~(k + 1 < i)
          /\ k + 1 # i /\ (k + 1) - 1 = k /\ (k - 1) + 1 = k
      BY <1>1, <1>3, <1>12, <2>3
    <3>2. new[k] = list[k - 1] /\ new[k + 1] = list[(k - 1) + 1]
      BY <1>6, <1>12, <3>1, Zenon
    <3> QED
      BY <2>1, <3>1, <3>2, Zenon
  <2> QED
    BY <1>1, <1>3, <1>12, <2>2, <2>3
<1>13. \A k \in DOMAIN new : k # i /\ k # i - 1 => Gap(new, k)
  BY <1>6, <1>7, <1>12 DEF Gap
<1>14. ASSUME NEW a \in Int PROVE InList(new, a) <=> InList(list, a) \/ Holds(c.at, c.size, a)
  <2>1. ASSUME NEW j \in 1 .. n + 1, Holds(new[j].at, new[j].size, a)
        PROVE  \/ \E k \in 1 .. n : Holds(list[k].at, list[k].size, a)
               \/ Holds(c.at, c.size, a)
    BY <1>8, <2>1, Zenon
  <2>2. ASSUME NEW k \in 1 .. n, Holds(list[k].at, list[k].size, a)
        PROVE  \E j \in 1 .. n + 1 : Holds(new[j].at, new[j].size, a)
    <3> DEFINE j == IF k < i THEN k ELSE k + 1
    <3>1. j \in 1 .. n + 1 /\ (j < i <=> k < i) /\ (~(k < i) => j - 1 = k /\ j # i) /\ (k < i => j = k)
      BY <1>1, <1>3
    <3> HIDE DEF j
    <3>2. new[j] = list[k]
      BY <1>6, <3>1, Zenon
    <3> QED
      BY <2>2, <3>1, <3>2, Zenon
  <2>3. Holds(c.at, c.size, a) => \E j \in 1 .. n + 1 : Holds(new[j].at, new[j].size, a)
    <3>1. i \in 1 .. n + 1 /\ ~(i < i)
      BY <1>1, <1>3
    <3>2. new[i] = c
      BY <1>6, <3>1, Zenon
    <3> QED
      BY <3>1, <3>2, Zenon
  <2> QED
    BY <1>1, <1>7, <2>1, <2>2, <2>3, Zenon DEF InList
<1>15. i \in DOMAIN new
  BY <1>1, <1>3, <1>7
<1> QED
  BY <1>11, <1>13, <1>14, <1>15

\* pool_free: the list covers the chunk as well, and every two neighbours are merged.
LEMMA ReleasedIs ==
    ASSUME NEW lo, NEW hi, NEW list, FreeList(lo, hi, list),
           NEW c \in Chunk, IsChunk(lo, hi, c.at, c.size),
           \A a \in Int : ~(Holds(c.at, c.size, a) /\ InList(list, a)),
           NEW new, new = Pool!Released(list, c)
    PROVE  /\ FreeList(lo, hi, new)
           /\ \A a \in Int : InList(new, a) <=> InList(list, a) \/ Holds(c.at, c.size, a)
<1> DEFINE i == Pool!Before(list, c.at) + 1
           linked == Pool!InsertAt(list, i, c)
           up == Pool!MergedUp(linked, i)
<1>1. /\ Rising(lo, hi, linked) /\ i \in DOMAIN linked
      /\ \A k \in DOMAIN linked : k # i /\ k # i - 1 => Gap(linked, k)
      /\ \A a \in Int : InList(linked, a) <=> InList(list, a) \/ Holds(c.at, c.size, a)
  BY ListWith
<1>2. new = Pool!MergedDown(up, i)
  BY DEF Pool!Released
<1> HIDE DEF i, linked
<1>3. i - 1 \in 0 .. i - 1 /\ i \in Nat /\ i >= 1
  <2>1. DOMAIN linked = 1 .. Len(linked)
    BY <1>1, InOrder
  <2> QED
    BY <1>1, <2>1
<1>4. /\ Rising(lo, hi, up) /\ i \in DOMAIN up
      /\ \A k \in DOMAIN up : k # i - 1 => Gap(up, k)
      /\ \A a \in Int : InList(up, a) <=> InList(linked, a)
  <2> HIDE DEF up
  <2>1. up = Pool!MergedUp(linked, i)
    BY DEF up
  <2> QED
    BY <1>1, <1>3, <2>1, MergedUpIs
<1> HIDE DEF up
<1>5. CASE i > 1
  <2>1. new = Pool!MergedUp(up, i - 1)
    BY <1>2, <1>5 DEF Pool!MergedDown
  <2> DEFINE h == i - 1
  <2>2. DOMAIN up = 1 .. Len(up) /\ Len(up) \in Nat
    BY <1>4, InOrder
  <2>3. h \in DOMAIN up /\ 0 \in 0 .. h - 1 /\ \A k \in DOMAIN up : k # 0
    BY <1>3, <1>4, <1>5, <2>2
  <2> HIDE DEF h
  <2>4. \A k \in DOMAIN up : k # h /\ k # 0 => Gap(up, k)
    BY <1>4 DEF h
  <2>5. /\ Rising(lo, hi, new) /\ h \in DOMAIN new
        /\ \A k \in DOMAIN new : k # 0 => Gap(new, k)
        /\ \A a \in Int : InList(new, a) <=> InList(up, a)
    <3>1. new = Pool!MergedUp(up, h)
      BY <2>1 DEF h
    <3> QED
      BY <1>4, <2>3, <2>4, <3>1, MergedUpIs
  <2>6. \A k \in DOMAIN new : k # 0
    <3>1. DOMAIN new = 1 .. Len(new)
      BY <2>5, InOrder
    <3> QED
      BY <3>1
  <2> QED
    BY <1>1, <1>4, <2>5, <2>6 DEF FreeList
<1>6. CASE ~(i > 1)
  <2>1. new = up
    BY <1>2, <1>6 DEF Pool!MergedDown
  <2>2. \A k \in DOMAIN up : k # i - 1
    <3>1. DOMAIN up = 1 .. Len(up) /\ i - 1 = 0
      BY <1>3, <1>4, <1>6, InOrder
    <3> QED
      BY <3>1
  <2> QED
    BY <1>1, <1>4, <2>1, <2>2 DEF FreeList
<1> QED
  BY <1>5, <1>6

-----------------------------------------------------------------------------
(***************************************************************************)
(* pool_malloc on the list                                                 *)
(***************************************************************************)

\* The chunk at place i and the others cover what the list covers, each address once.
LEMMA OneOf ==
    ASSUME NEW lo, NEW hi, NEW list, Rising(lo, hi, list), NEW i \in DOMAIN list, NEW a \in Int
    PROVE  /\ InList(list, a) <=> Holds(list[i].at, list[i].size, a) \/ Others(list, i, a)
           /\ ~(Holds(list[i].at, list[i].size, a) /\ Others(list, i, a))
<1>1. InList(list, a) <=> Holds(list[i].at, list[i].size, a) \/ Others(list, i, a)
  BY DEF InList, Others
<1>2. ASSUME NEW j \in DOMAIN list \ {i}
      PROVE  ~(Holds(list[i].at, list[i].size, a) /\ Holds(list[j].at, list[j].size, a))
  <2>1. i \in 1 .. Len(list) /\ j \in 1 .. Len(list) /\ Len(list) \in Nat /\ i # j
    BY <1>2, InOrder
  <2>2. /\ list[i].at \in Nat /\ list[i].size \in Nat /\ list[j].at \in Nat /\ list[j].size \in Nat
    BY <2>1, InOrder
  <2>3. \/ list[i].at + list[i].size <= list[j].at
        \/ list[j].at + list[j].size <= list[i].at
    <3>1. i < j \/ j < i
      BY <2>1
    <3> QED
      BY <2>1, <3>1, InOrder
  <2> QED
    BY <2>2, <2>3 DEF Holds
<1> QED
  BY <1>1, <1>2 DEF Others

\* Taking the front of a chunk, or all of it where too little would be left
LEMMA LeftAfterIs ==
    ASSUME NEW lo \in Int, NEW hi \in Int, NEW list, FreeList(lo, hi, list), NEW i \in DOMAIN list,
           NEW size, InUnits(size), size >= 2 * HEADER, list[i].size >= size,
           NEW granted, granted = Pool!Granted(list[i], size),
           NEW rest, rest = Pool!LeftAfter(list, i, size)
    PROVE  /\ granted \in Nat /\ granted >= size /\ IsChunk(lo, hi, list[i].at, granted)
           /\ FreeList(lo, hi, rest)
           /\ \A a \in Int : /\ InList(list, a) <=> InList(rest, a) \/ Holds(list[i].at, granted, a)
                             /\ ~(InList(rest, a) /\ Holds(list[i].at, granted, a))
<1> DEFINE at == list[i].at
           total == list[i].size
<1>1. /\ list \in Seq(Chunk) /\ list[i] \in Chunk /\ at \in Nat /\ total \in Nat
      /\ IsChunk(lo, hi, at, total) /\ DOMAIN list = 1 .. Len(list) /\ Len(list) \in Nat
      /\ size \in Nat /\ Rising(lo, hi, list)
  BY InOrder DEF FreeList, InUnits
<1>2. CASE Pool!Splits(total, size)
  <2> DEFINE c == [at |-> at + size, size |-> total - size]
  <2>1. granted = size /\ total >= size + 2 * HEADER
    BY <1>2 DEF Pool!Granted, Pool!Splits
  <2>2. rest = [list EXCEPT ![i] = c]
    BY <1>2 DEF Pool!LeftAfter
  <2>3. /\ c \in Chunk /\ c.at = at + size /\ c.size = total - size
        /\ c.at + c.size = at + total
    <3> DEFINE x == at + size
               y == total - size
    <3>1. x \in Nat /\ y \in Nat /\ x + y = at + total
      <4>1. at \in Nat /\ total \in Nat /\ size \in Nat
        BY <1>1
      <4> HIDE DEF at, total
      <4> QED
        BY <2>1, <4>1, HeaderIs
    <3>2. c = [at |-> x, size |-> y]
      OBVIOUS
    <3> HIDE DEF c, x, y
    <3>3. c \in Chunk /\ c.at = x /\ c.size = y
      BY <3>1, <3>2 DEF Chunk
    <3> QED
      BY <3>1, <3>3, Zenon DEF x, y
  <2> HIDE DEF c
  <2>4. IsChunk(lo, hi, c.at, c.size)
    <3>1. InUnits(at) /\ InUnits(total) /\ InUnits(size) /\ total >= size
      BY <1>1, <2>1, HeaderIs DEF IsChunk
    <3>2. InUnits(at + size) /\ InUnits(total - size)
      BY <3>1, UnitsAre, Zenon
    <3>3. total - size >= 2 * HEADER /\ lo <= at + size
      <4>1. lo <= at
        BY <1>1 DEF IsChunk
      <4> HIDE DEF at, total
      <4> QED
        BY <1>1, <2>1, <4>1, HeaderIs
    <3> QED
      BY <1>1, <2>3, <3>2, <3>3 DEF IsChunk
  <2>5. \A j \in DOMAIN list : j < i => list[j].at + list[j].size < c.at
    <3>1. ASSUME NEW j \in DOMAIN list, j < i PROVE list[j].at + list[j].size < c.at
      <4>1. j \in 1 .. Len(list) /\ i \in 1 .. Len(list)
        BY <1>1
      <4>2. list[j].at + list[j].size <= at /\ list[j].at \in Nat /\ list[j].size \in Nat
        BY <1>1, <3>1, <4>1, InOrder
      <4> QED
        BY <1>1, <2>3, <4>2, HeaderIs
    <3> QED
      BY <3>1
  <2>6. /\ FreeList(lo, hi, rest)
        /\ \A a \in Int : InList(rest, a) <=> Holds(c.at, c.size, a) \/ Others(list, i, a)
    <3>1. c.at + c.size = list[i].at + list[i].size
      BY <2>3
    <3> QED
      BY <2>2, <2>3, <2>4, <2>5, <3>1, ListResized
  <2>7. ASSUME NEW a \in Int
        PROVE  /\ InList(list, a) <=> InList(rest, a) \/ Holds(at, granted, a)
               /\ ~(InList(rest, a) /\ Holds(at, granted, a))
    <3>1. /\ InList(list, a) <=> Holds(at, total, a) \/ Others(list, i, a)
          /\ ~(Holds(at, total, a) /\ Others(list, i, a))
      <4>1. Rising(lo, hi, list) /\ i \in DOMAIN list
        BY <1>1
      <4> QED
        BY <4>1, OneOf, Zenon
    <3>2. /\ Holds(at, total, a) <=> Holds(at, size, a) \/ Holds(c.at, c.size, a)
          /\ ~(Holds(at, size, a) /\ Holds(c.at, c.size, a))
      BY <1>1, <2>1, <2>3, HeaderIs DEF Holds
    <3> QED
      BY <2>1, <2>6, <3>1, <3>2
  <2>8. IsChunk(lo, hi, at, granted)
    <3>1. InUnits(at) /\ lo <= at /\ at + total <= hi
      BY <1>1 DEF IsChunk
    <3> HIDE DEF at, total
    <3>2. at + size <= hi
      BY <1>1, <2>1, <3>1, HeaderIs
    <3> QED
      BY <2>1, <3>1, <3>2 DEF IsChunk
  <2> QED
    BY <1>1, <2>1, <2>6, <2>7, <2>8
<1>3. CASE ~Pool!Splits(total, size)
  <2>1. granted = total /\ rest = Pool!RemoveAt(list, i)
    BY <1>3 DEF Pool!Granted, Pool!LeftAfter
  <2>2. /\ FreeList(lo, hi, rest)
        /\ \A a \in Int : InList(rest, a) <=> Others(list, i, a)
    BY <1>1, <2>1, ListWithout
  <2>3. ASSUME NEW a \in Int
        PROVE  /\ InList(list, a) <=> InList(rest, a) \/ Holds(at, granted, a)
               /\ ~(InList(rest, a) /\ Holds(at, granted, a))
    <3>1. /\ InList(list, a) <=> Holds(at, total, a) \/ Others(list, i, a)
          /\ ~(Holds(at, total, a) /\ Others(list, i, a))
      <4>1. Rising(lo, hi, list) /\ i \in DOMAIN list
        BY <1>1
      <4> QED
        BY <4>1, OneOf, Zenon
    <3> QED
      BY <2>1, <2>2, <3>1
  <2> QED
    BY <1>1, <2>1, <2>2, <2>3
<1> QED
  BY <1>2, <1>3

-----------------------------------------------------------------------------
(***************************************************************************)
(* The used and the free chunks of the pool between lo and hi              *)
(***************************************************************************)

At(chunks, p, a) == p \in DOMAIN chunks /\ Holds(p, chunks[p], a)
InUsed(chunks, a) == \E p \in DOMAIN chunks : Holds(p, chunks[p], a)

\* Every address between lo and hi is in one chunk, used or free.
Parts(lo, hi, chunks, list) ==
    /\ \A p \in DOMAIN chunks : IsChunk(lo, hi, p, chunks[p])
    /\ \A p, q \in DOMAIN chunks : p # q =>
          \A a \in Int : ~(Holds(p, chunks[p], a) /\ Holds(q, chunks[q], a))
    /\ FreeList(lo, hi, list)
    /\ \A a \in Int : ~(InUsed(chunks, a) /\ InList(list, a))
    /\ \A a \in lo .. hi - 1 : InUsed(chunks, a) \/ InList(list, a)

\* A step that changes one used chunk and the list keeps the parts apart, if the two cover
\* the same addresses as before.
LEMMA PartsAfter ==
    ASSUME NEW lo \in Int, NEW hi \in Int, NEW chunks, NEW list, Parts(lo, hi, chunks, list),
           NEW x, NEW chunks2, NEW list2,
           DOMAIN chunks2 \ {x} = DOMAIN chunks \ {x},
           \A p \in DOMAIN chunks \ {x} : chunks2[p] = chunks[p],
           x \in DOMAIN chunks2 => IsChunk(lo, hi, x, chunks2[x]),
           FreeList(lo, hi, list2),
           \A a \in Int : /\ At(chunks2, x, a) \/ InList(list2, a)
                             <=> At(chunks, x, a) \/ InList(list, a)
                          /\ ~(At(chunks2, x, a) /\ InList(list2, a))
    PROVE  Parts(lo, hi, chunks2, list2)
<1>1. \A p \in DOMAIN chunks2 : p # x => p \in DOMAIN chunks /\ chunks2[p] = chunks[p]
  BY Zenon
<1>2. \A p \in DOMAIN chunks : p # x => p \in DOMAIN chunks2 /\ chunks2[p] = chunks[p]
  BY Zenon
<1>3. \A p \in DOMAIN chunks2 : IsChunk(lo, hi, p, chunks2[p])
  BY <1>1 DEF Parts
<1>4. ASSUME NEW p \in DOMAIN chunks2, p # x, NEW a \in Int, Holds(p, chunks2[p], a)
      PROVE  ~At(chunks2, x, a) /\ ~InList(list2, a)
  <2>1. p \in DOMAIN chunks /\ Holds(p, chunks[p], a)
    BY <1>1, <1>4, Zenon
  <2>2. ~InList(list, a)
    BY <2>1, Zenon DEF Parts, InUsed
  <2>3. ~At(chunks, x, a)
    BY <1>4, <2>1, Zenon DEF Parts, At
  <2> QED
    BY <2>2, <2>3, Zenon
<1>5. ASSUME NEW p \in DOMAIN chunks2, NEW q \in DOMAIN chunks2, p # q, NEW a \in Int,
             Holds(p, chunks2[p], a), Holds(q, chunks2[q], a)
      PROVE  FALSE
  <2>1. CASE p = x
    BY <1>4, <1>5, <2>1, Zenon DEF At
  <2>2. CASE q = x
    BY <1>4, <1>5, <2>2, Zenon DEF At
  <2>3. CASE p # x /\ q # x
    BY <1>1, <1>5, <2>3, Zenon DEF Parts
  <2> QED
    BY <2>1, <2>2, <2>3
<1>6. ASSUME NEW a \in Int PROVE ~(InUsed(chunks2, a) /\ InList(list2, a))
  <2>1. ASSUME NEW p \in DOMAIN chunks2, Holds(p, chunks2[p], a) PROVE ~InList(list2, a)
    <3>1. CASE p = x
      BY <2>1, <3>1, Zenon DEF At
    <3>2. CASE p # x
      BY <1>4, <2>1, <3>2, Zenon
    <3> QED
      BY <3>1, <3>2
  <2> QED
    BY <2>1, Zenon DEF InUsed
<1>7. ASSUME NEW a \in lo .. hi - 1 PROVE InUsed(chunks2, a) \/ InList(list2, a)
  <2>1. a \in Int /\ (InUsed(chunks, a) \/ InList(list, a))
    BY DEF Parts
  <2>2. CASE InList(list, a)
    BY <2>1, <2>2, Zenon DEF At, InUsed
  <2>3. ASSUME NEW p \in DOMAIN chunks, Holds(p, chunks[p], a)
        PROVE  InUsed(chunks2, a) \/ InList(list2, a)
    <3>1. CASE p = x
      BY <2>1, <2>3, <3>1, Zenon DEF At, InUsed
    <3>2. CASE p # x
      BY <1>2, <2>3, <3>2, Zenon DEF InUsed
    <3> QED
      BY <3>1, <3>2
  <2> QED
    BY <2>1, <2>2, <2>3, Zenon DEF InUsed
<1> QED
  BY <1>3, <1>5, <1>6, <1>7, Zenon DEF Parts

\* Where a chunk ends the next one starts, or the pool ends.
LEMMA NextStarts ==
    ASSUME NEW lo \in Int, NEW hi \in Int, NEW chunks, NEW list, Parts(lo, hi, chunks, list),
           NEW x \in DOMAIN chunks, NEW e, e = x + chunks[x], e # hi
    PROVE  e \in DOMAIN chunks \/ \E j \in DOMAIN list : list[j].at = e
<1>1. /\ x \in Nat /\ chunks[x] \in Nat /\ chunks[x] > 0 /\ lo <= x /\ e <= hi
  <2>1. IsChunk(lo, hi, x, chunks[x])
    BY DEF Parts
  <2> QED
    BY <2>1, HeaderIs DEF IsChunk, InUnits
<1>2. /\ e \in Int /\ e - 1 \in Int /\ e \in lo .. hi - 1
      /\ Holds(x, chunks[x], e - 1) /\ ~Holds(x, chunks[x], e)
  BY <1>1 DEF Holds
<1>3. ASSUME NEW at \in Nat, NEW size \in Nat, at # e, Holds(at, size, e)
      PROVE  Holds(at, size, e - 1)
  BY <1>2, <1>3 DEF Holds
<1>4. ASSUME NEW p \in DOMAIN chunks, Holds(p, chunks[p], e) PROVE p = e
  <2>1. p \in Nat /\ chunks[p] \in Nat
    BY DEF Parts, IsChunk, InUnits
  <2>2. p # x
    BY <1>2, <1>4
  <2>3. ~Holds(p, chunks[p], e - 1)
    BY <1>2, <2>2, Zenon DEF Parts
  <2> QED
    BY <1>3, <1>4, <2>1, <2>3
<1>5. ASSUME NEW j \in DOMAIN list, Holds(list[j].at, list[j].size, e) PROVE list[j].at = e
  <2>1. list[j].at \in Nat /\ list[j].size \in Nat
    BY InOrder DEF Parts, FreeList, Rising
  <2>2. ~Holds(list[j].at, list[j].size, e - 1)
    BY <1>2, Zenon DEF Parts, InUsed, InList
  <2> QED
    BY <1>3, <1>5, <2>1, <2>2
<1>6. InUsed(chunks, e) \/ InList(list, e)
  BY <1>2 DEF Parts
<1> QED
  BY <1>4, <1>5, <1>6 DEF InUsed, InList

-----------------------------------------------------------------------------
(***************************************************************************)
(* The three changes of the chunks: taken, given back, grown in place      *)
(***************************************************************************)

\* What the owners asked for fits their chunks, which are little longer.
Owned(chunks, asks) ==
    /\ DOMAIN asks = DOMAIN chunks
    /\ \A p \in DOMAIN chunks : /\ asks[p] \in Nat \ {0} /\ Pool!ChunkSize(asks[p]) <= chunks[p]
                                /\ chunks[p] <= Pool!ChunkSize(asks[p]) + 2 * HEADER

\* Two different chunks may be added and removed in either order.
LEMMA WithWithout ==
    ASSUME NEW f, NEW x, NEW y, NEW v, x # y
    PROVE  Pool!Without(Pool!With(f, x, v), y) = Pool!With(Pool!Without(f, y), x, v)
<1> DEFINE g == Pool!With(f, x, v)
           h == Pool!Without(f, y)
<1>1. /\ DOMAIN g = DOMAIN f \cup {x} /\ g[x] = v
      /\ \A z \in DOMAIN f : z # x => g[z] = f[z]
  BY DEF Pool!With
<1>2. DOMAIN h = DOMAIN f \ {y} /\ \A z \in DOMAIN f : z # y => h[z] = f[z]
  BY DEF Pool!Without, Pool!Restrict
<1> HIDE DEF g, h
<1>3. DOMAIN g \ {y} = DOMAIN h \cup {x}
  BY <1>1, <1>2
<1>4. \A z \in DOMAIN g \ {y} : g[z] = IF z = x THEN v ELSE h[z]
  BY <1>1, <1>2
<1>5. [z \in DOMAIN g \ {y} |-> g[z]] = [z \in DOMAIN h \cup {x} |-> IF z = x THEN v ELSE h[z]]
  BY <1>3, <1>4
<1> QED
  BY <1>5 DEF g, h, Pool!With, Pool!Without, Pool!Restrict

\* pool_malloc takes a chunk out of the list.
LEMMA TakeIs ==
    ASSUME NEW lo \in Int, NEW hi \in Int, NEW chunks, NEW list, NEW asks,
           Parts(lo, hi, chunks, list), Owned(chunks, asks),
           NEW n \in Nat \ {0}, NEW i \in Pool!Fitting(list, Pool!ChunkSize(n)),
           NEW at, at = list[i].at,
           NEW granted, granted = Pool!Granted(list[i], Pool!ChunkSize(n)),
           NEW chunks2, chunks2 = Pool!With(chunks, at, granted),
           NEW list2, list2 = Pool!LeftAfter(list, i, Pool!ChunkSize(n)),
           NEW asks2, asks2 = Pool!With(asks, at, n)
    PROVE  /\ at \in Nat /\ at \notin DOMAIN chunks
           /\ Parts(lo, hi, chunks2, list2) /\ Owned(chunks2, asks2)
<1> DEFINE size == Pool!ChunkSize(n)
<1>1. InUnits(size) /\ size >= 2 * HEADER /\ size \in Nat
  BY ChunkSizeIs DEF InUnits
<1>2. i \in DOMAIN list /\ list[i].size >= size /\ FreeList(lo, hi, list)
  BY DEF Pool!Fitting, Parts
<1>3. granted = Pool!Granted(list[i], size) /\ list2 = Pool!LeftAfter(list, i, size)
  OBVIOUS
<1> HIDE DEF size
<1>4. /\ granted \in Nat /\ granted >= size /\ IsChunk(lo, hi, at, granted)
      /\ FreeList(lo, hi, list2)
      /\ \A a \in Int : /\ InList(list, a) <=> InList(list2, a) \/ Holds(at, granted, a)
                        /\ ~(InList(list2, a) /\ Holds(at, granted, a))
  BY <1>1, <1>2, <1>3, LeftAfterIs
<1>5. at \in Nat /\ Holds(at, granted, at)
  BY <1>4, HeaderIs DEF IsChunk, InUnits, Holds
<1>6. at \notin DOMAIN chunks
  <2>1. ASSUME at \in DOMAIN chunks PROVE FALSE
    <3>1. IsChunk(lo, hi, at, chunks[at])
      BY <2>1 DEF Parts
    <3>2. Holds(at, chunks[at], at)
      BY <1>5, <3>1, HeaderIs DEF IsChunk, InUnits, Holds
    <3>3. InUsed(chunks, at) /\ InList(list, at) /\ at \in Int
      BY <1>4, <1>5, <2>1, <3>2 DEF InUsed
    <3> QED
      BY <3>3 DEF Parts
  <2> QED
    BY <2>1
<1>7. /\ DOMAIN chunks2 = DOMAIN chunks \cup {at} /\ chunks2[at] = granted
      /\ \A p \in DOMAIN chunks : p # at => chunks2[p] = chunks[p]
  BY DEF Pool!With
<1>8. Parts(lo, hi, chunks2, list2)
  <2>1. DOMAIN chunks2 \ {at} = DOMAIN chunks \ {at}
    BY <1>7
  <2>2. \A p \in DOMAIN chunks \ {at} : chunks2[p] = chunks[p]
    BY <1>7
  <2>3. at \in DOMAIN chunks2 => IsChunk(lo, hi, at, chunks2[at])
    BY <1>4, <1>7
  <2>4. \A a \in Int : /\ At(chunks2, at, a) \/ InList(list2, a)
                          <=> At(chunks, at, a) \/ InList(list, a)
                       /\ ~(At(chunks2, at, a) /\ InList(list2, a))
    BY <1>4, <1>6, <1>7 DEF At
  <2>5. FreeList(lo, hi, list2)
    BY <1>4
  <2> QED
    BY <2>1, <2>2, <2>3, <2>4, <2>5, PartsAfter
<1>9. Owned(chunks2, asks2)
  <2>1. /\ DOMAIN asks2 = DOMAIN asks \cup {at} /\ asks2[at] = n
        /\ \A p \in DOMAIN asks : p # at => asks2[p] = asks[p]
    BY DEF Pool!With
  <2>2. size <= granted /\ granted <= size + 2 * HEADER
    <3>1. list[i].size \in Nat
      BY <1>2, InOrder DEF FreeList, Rising
    <3> QED
      BY <1>1, <1>3, <1>4, <3>1, HeaderIs DEF Pool!Granted, Pool!Splits
  <2> QED
    BY <1>7, <2>1, <2>2 DEF Owned, size
<1> QED
  BY <1>5, <1>6, <1>8, <1>9

\* pool_free gives a chunk back to the list.
LEMMA GiveBackIs ==
    ASSUME NEW lo \in Int, NEW hi \in Int, NEW chunks, NEW list, NEW asks,
           Parts(lo, hi, chunks, list), Owned(chunks, asks), NEW p \in DOMAIN chunks,
           NEW chunks2, chunks2 = Pool!Without(chunks, p),
           NEW list2, list2 = Pool!Released(list, [at |-> p, size |-> chunks[p]]),
           NEW asks2, asks2 = Pool!Without(asks, p)
    PROVE  Parts(lo, hi, chunks2, list2) /\ Owned(chunks2, asks2)
<1> DEFINE c == [at |-> p, size |-> chunks[p]]
<1>1. IsChunk(lo, hi, p, chunks[p]) /\ FreeList(lo, hi, list)
  BY DEF Parts
<1>2. c \in Chunk /\ c.at = p /\ c.size = chunks[p]
  BY <1>1 DEF IsChunk, InUnits, Chunk
<1>3. list2 = Pool!Released(list, c)
  OBVIOUS
<1> HIDE DEF c
<1>4. \A a \in Int : ~(Holds(c.at, c.size, a) /\ InList(list, a))
  BY <1>2 DEF Parts, InUsed
<1>5. /\ FreeList(lo, hi, list2)
      /\ \A a \in Int : InList(list2, a) <=> InList(list, a) \/ Holds(c.at, c.size, a)
  BY <1>1, <1>2, <1>3, <1>4, ReleasedIs
<1>6. /\ DOMAIN chunks2 = DOMAIN chunks \ {p}
      /\ \A q \in DOMAIN chunks : q # p => chunks2[q] = chunks[q]
  BY DEF Pool!Without, Pool!Restrict
<1>7. Parts(lo, hi, chunks2, list2)
  <2>1. DOMAIN chunks2 \ {p} = DOMAIN chunks \ {p} /\ p \notin DOMAIN chunks2
    BY <1>6
  <2>2. \A q \in DOMAIN chunks \ {p} : chunks2[q] = chunks[q]
    BY <1>6
  <2>3. \A a \in Int : /\ At(chunks2, p, a) \/ InList(list2, a) <=> At(chunks, p, a) \/ InList(list, a)
                       /\ ~(At(chunks2, p, a) /\ InList(list2, a))
    BY <1>2, <1>5, <2>1 DEF At
  <2> QED
    BY <1>5, <2>1, <2>2, <2>3, PartsAfter
<1>8. Owned(chunks2, asks2)
  <2>1. /\ DOMAIN asks2 = DOMAIN asks \ {p}
        /\ \A q \in DOMAIN asks : q # p => asks2[q] = asks[q]
    BY DEF Pool!Without, Pool!Restrict
  <2> QED
    BY <1>6, <2>1 DEF Owned
<1> QED
  BY <1>7, <1>8

\* Two chunks in a row hold what one of their sizes together holds.
LEMMA InARow ==
    ASSUME NEW x \in Nat, NEW s \in Nat, NEW t \in Nat, NEW a \in Int
    PROVE  /\ Holds(x, s, a) \/ Holds(x + s, t, a) <=> Holds(x, s + t, a)
           /\ ~(Holds(x, s, a) /\ Holds(x + s, t, a))
BY DEF Holds

\* pool_realloc takes the front of the free chunk above, or all of it.
LEMMA GrowIs ==
    ASSUME NEW lo \in Int, NEW hi \in Int, NEW chunks, NEW list,
           Parts(lo, hi, chunks, list), NEW p \in DOMAIN chunks,
           NEW i \in DOMAIN list, p + chunks[p] = list[i].at,
           NEW size, InUnits(size), size >= 2 * HEADER,
           NEW rest \in Nat, size + rest = chunks[p] + list[i].size,
           NEW v, NEW list2,
           \/ /\ rest > 2 * HEADER /\ v = size
              /\ list2 = [list EXCEPT ![i] = [at |-> p + size, size |-> rest]]
           \/ v = size + rest /\ list2 = Pool!RemoveAt(list, i),
           NEW chunks2, DOMAIN chunks2 = DOMAIN chunks, chunks2[p] = v,
           \A q \in DOMAIN chunks \ {p} : chunks2[q] = chunks[q]
    PROVE  Parts(lo, hi, chunks2, list2)
<1> DEFINE total == chunks[p]
           at == list[i].at
           more == list[i].size
<1>1. /\ IsChunk(lo, hi, p, total) /\ FreeList(lo, hi, list) /\ Rising(lo, hi, list)
      /\ p \in Nat /\ total \in Nat /\ total > 0
  <2>1. IsChunk(lo, hi, p, total) /\ FreeList(lo, hi, list)
    BY DEF Parts
  <2> QED
    BY <2>1, HeaderIs DEF IsChunk, InUnits, FreeList
<1>2. /\ IsChunk(lo, hi, at, more) /\ at \in Nat /\ more \in Nat /\ at = p + total
      /\ size + rest = total + more /\ list[i] \in Chunk
      /\ DOMAIN list = 1 .. Len(list) /\ Len(list) \in Nat
  BY <1>1, InOrder
<1>3. size \in Nat /\ size > 0
  BY HeaderIs DEF InUnits
<1>4. InUnits(p) /\ InUnits(total) /\ InUnits(more) /\ lo <= p /\ at + more <= hi
  BY <1>1, <1>2 DEF IsChunk
<1>5. InUnits(size + rest) /\ InUnits(p + size)
  BY <1>2, <1>4, UnitsAre
<1>6. \A a \in Int : ~(Holds(p, total, a) /\ InList(list, a))
  BY Zenon DEF Parts, InUsed
<1>7. ASSUME NEW a \in Int
      PROVE  /\ InList(list, a) <=> Holds(at, more, a) \/ Others(list, i, a)
             /\ ~(Holds(at, more, a) /\ Others(list, i, a))
             /\ ~(Holds(p, total, a) /\ Others(list, i, a))
  BY <1>1, <1>6, OneOf
<1>8. \A a \in Int : At(chunks, p, a) <=> Holds(p, total, a)
  BY DEF At
<1>9. /\ DOMAIN chunks2 \ {p} = DOMAIN chunks \ {p} /\ p \in DOMAIN chunks2
      /\ \A a \in Int : At(chunks2, p, a) <=> Holds(p, v, a)
  BY DEF At
<1> HIDE DEF total, at, more
<1>0. /\ p \in Nat /\ total \in Nat /\ at \in Nat /\ more \in Nat /\ size \in Nat /\ rest \in Nat
      /\ at = p + total /\ size + rest = total + more /\ size > 0 /\ total > 0
  BY <1>1, <1>2, <1>3
<1>10. CASE /\ rest > 2 * HEADER /\ v = size
            /\ list2 = [list EXCEPT ![i] = [at |-> p + size, size |-> rest]]
  <2> DEFINE c == [at |-> p + size, size |-> rest]
  <2>1. c \in Chunk /\ c.at = p + size /\ c.size = rest /\ list2 = [list EXCEPT ![i] = c]
    BY <1>1, <1>3, <1>10 DEF Chunk
  <2> HIDE DEF c
  <2>2. c.at + c.size = list[i].at + list[i].size
    <3>1. (p + size) + rest = at + more
      BY <1>0
    <3> QED
      BY <2>1, <3>1 DEF at, more
  <2>3. IsChunk(lo, hi, c.at, c.size)
    <3>1. InUnits(rest)
      <4>1. (size + rest) - size = rest /\ size + rest >= size
        BY <1>3
      <4> QED
        BY <1>5, <4>1, UnitsAre
    <3>2. lo <= p + size /\ rest >= 2 * HEADER
      BY <1>1, <1>3, <1>4, <1>10, HeaderIs
    <3>3. c.at + c.size <= hi
      BY <1>4, <2>2 DEF at, more
    <3> QED
      BY <1>5, <2>1, <3>1, <3>2, <3>3 DEF IsChunk
  <2>4. ASSUME NEW j \in DOMAIN list, j < i PROVE list[j].at + list[j].size < c.at
    <3>1. /\ j \in 1 .. Len(list) /\ i \in 1 .. Len(list)
      BY <1>2
    <3>2. /\ list[j].at \in Nat /\ list[j].size \in Nat /\ list[j].size > 0
          /\ list[j].at + list[j].size <= at
      <4>1. /\ list[j].at \in Nat /\ list[j].size \in Nat /\ IsChunk(lo, hi, list[j].at, list[j].size)
            /\ list[j].at + list[j].size <= at
        BY <1>1, <2>4, <3>1, InOrder DEF at
      <4> QED
        BY <4>1, HeaderIs DEF IsChunk
    <3>3. /\ ~(Holds(p, total, p) /\ Holds(list[j].at, list[j].size, p))
          /\ ~(Holds(p, total, list[j].at) /\ Holds(list[j].at, list[j].size, list[j].at))
      <4>1. p \in Int /\ list[j].at \in Int
        BY <1>1, <3>2
      <4> QED
        BY <1>6, <4>1, Zenon DEF InList
    <3>4. list[j].at + list[j].size <= p
      BY <1>0, <3>2, <3>3 DEF Holds
    <3> QED
      BY <1>1, <1>3, <2>1, <3>2, <3>4
  <2>5. /\ FreeList(lo, hi, list2)
        /\ \A a \in Int : InList(list2, a) <=> Holds(c.at, c.size, a) \/ Others(list, i, a)
    BY <1>1, <2>1, <2>2, <2>3, <2>4, ListResized
  <2>6. IsChunk(lo, hi, p, v)
    <3>1. p + size <= hi
      <4>1. at + more <= hi
        BY <1>4
      <4> QED
        BY <1>0, <4>1
    <3> QED
      BY <1>4, <1>10, <3>1 DEF IsChunk
  <2>7. ASSUME NEW a \in Int
        PROVE  /\ Holds(p, v, a) \/ InList(list2, a) <=> Holds(p, total, a) \/ InList(list, a)
               /\ ~(Holds(p, v, a) /\ InList(list2, a))
    <3>1. /\ Holds(p, size, a) \/ Holds(c.at, c.size, a) <=> Holds(p, total, a) \/ Holds(at, more, a)
          /\ ~(Holds(p, size, a) /\ Holds(c.at, c.size, a))
      <4>1. /\ Holds(p, size, a) \/ Holds(p + size, rest, a) <=> Holds(p, size + rest, a)
            /\ ~(Holds(p, size, a) /\ Holds(p + size, rest, a))
            /\ Holds(p, total, a) \/ Holds(p + total, more, a) <=> Holds(p, total + more, a)
        BY <1>0, InARow
      <4> QED
        BY <1>0, <2>1, <4>1
    <3> QED
      BY <1>7, <1>10, <2>5, <3>1
  <2> QED
    BY <1>8, <1>9, <2>5, <2>6, <2>7, PartsAfter
<1>11. CASE v = size + rest /\ list2 = Pool!RemoveAt(list, i)
  <2>1. /\ FreeList(lo, hi, list2)
        /\ \A a \in Int : InList(list2, a) <=> Others(list, i, a)
    BY <1>1, <1>11, ListWithout
  <2>2. IsChunk(lo, hi, p, v)
    <3>1. p + (size + rest) <= hi /\ size + rest >= 2 * HEADER
      <4>1. at + more <= hi
        BY <1>4
      <4> QED
        BY <1>0, <4>1, HeaderIs
    <3> QED
      BY <1>4, <1>5, <1>11, <3>1 DEF IsChunk
  <2>3. ASSUME NEW a \in Int
        PROVE  /\ Holds(p, v, a) \/ InList(list2, a) <=> Holds(p, total, a) \/ InList(list, a)
               /\ ~(Holds(p, v, a) /\ InList(list2, a))
    <3>1. Holds(p, size + rest, a) <=> Holds(p, total, a) \/ Holds(at, more, a)
      BY <1>1, <1>2, <1>3, InARow
    <3> QED
      BY <1>7, <1>11, <2>1, <3>1
  <2> QED
    BY <1>8, <1>9, <2>1, <2>2, <2>3, PartsAfter
<1> QED
  BY <1>10, <1>11

-----------------------------------------------------------------------------
(***************************************************************************)
(* The pool allocator: its chunks lie apart, whatever is called            *)
(***************************************************************************)

Lo == pPool.at + HEADER
Hi == pPool.at + pPool.size

PoolTypes ==
    /\ pBuf \in [at : Nat, size : Nat] /\ pPool \in [at : Nat, size : Nat]
    /\ pPool.size > 0 => pPool.at >= pBuf.at /\ pPool.at + pPool.size <= pBuf.at + pBuf.size
    /\ Lo \in Int /\ Hi \in Int

\* What every call of the allocator relies on
PoolInv ==
    /\ PoolTypes /\ Parts(Lo, Hi, pUsed, pFreeList) /\ Owned(pUsed, pAsked)
    /\ Pool!SpillsOneHeader

\* yyjson_alc_pool_init makes one free chunk, or an allocator that serves nothing.
LEMMA PoolStarts ==
    ASSUME Pool!Init
    PROVE  PoolInv
<1> DEFINE at == Pool!AlignUp(pBuf.at)
           rest == pBuf.size - (at - pBuf.at)
           size == Pool!AlignDown(rest)
<1>1. pBuf \in [at : Nat, size : Nat] /\ pBuf.at \in Nat /\ pBuf.size \in Nat
  BY PoolAssumption DEF Pool!Init, Pool!PoolAssumption
<1>2. /\ pUsed = << >> /\ pAsked = << >> /\ pPool = Pool!PoolIn(pBuf.at, pBuf.size)
      /\ pFreeList = IF pPool.size = 0 THEN << >>
                     ELSE <<[at |-> pPool.at + HEADER, size |-> pPool.size - HEADER]>>
  BY DEF Pool!Init
<1>3. DOMAIN pUsed = {} /\ DOMAIN pAsked = {}
  BY <1>2
<1>4. Owned(pUsed, pAsked) /\ Pool!SpillsOneHeader /\ \A a \in Int : ~InUsed(pUsed, a)
  BY <1>3 DEF Owned, InUsed, Pool!Init, Pool!SpillsOneHeader
<1>5. CASE pBuf.size < 4 * HEADER
  <2>1. pPool = [at |-> pBuf.at, size |-> 0]
    BY <1>2, <1>5 DEF Pool!PoolIn
  <2>2. pPool.at = pBuf.at /\ pPool.size = 0 /\ pPool \in [at : Nat, size : Nat]
    BY <1>1, <2>1
  <2>3. pFreeList = << >> /\ pFreeList \in Seq(Chunk) /\ DOMAIN pFreeList = {}
    BY <1>2, <2>2
  <2>4. FreeList(Lo, Hi, pFreeList) /\ \A a \in Int : ~InList(pFreeList, a)
    BY <2>3 DEF FreeList, Rising, Gap, InList
  <2>5. Lo \in Int /\ Hi \in Int /\ \A a \in Lo .. Hi - 1 : FALSE
    BY <1>1, <2>2, HeaderIs DEF Lo, Hi
  <2>6. Parts(Lo, Hi, pUsed, pFreeList)
    BY <1>3, <1>4, <2>4, <2>5 DEF Parts
  <2> QED
    BY <1>1, <1>4, <2>2, <2>5, <2>6 DEF PoolInv, PoolTypes
<1>6. CASE ~(pBuf.size < 4 * HEADER)
  <2>1. /\ InUnits(at) /\ pBuf.at <= at /\ at < pBuf.at + HEADER /\ at \in Nat
    BY <1>1, UpIs DEF InUnits
  <2> HIDE DEF at
  <2>2. rest \in Nat /\ rest > 3 * HEADER /\ at + rest = pBuf.at + pBuf.size
    BY <1>1, <1>6, <2>1, HeaderIs
  <2> HIDE DEF rest
  <2>3. InUnits(size) /\ size <= rest /\ rest < size + HEADER /\ size \in Nat
    BY <2>2, DownIs DEF InUnits
  <2> HIDE DEF size
  <2>4. size > 2 * HEADER /\ at + size <= pBuf.at + pBuf.size /\ size >= HEADER /\ size # 0
    BY <1>1, <2>1, <2>2, <2>3, HeaderIs
  <2>5. size >= 3 * HEADER /\ InUnits(at + HEADER) /\ InUnits(size - HEADER) /\ size - HEADER \in Nat
    <3>1. InUnits(HEADER + HEADER) /\ InUnits(at + HEADER) /\ InUnits(size - HEADER)
      BY <2>1, <2>3, <2>4, OneUnit, UnitsAre
    <3>2. size >= (HEADER + HEADER) + HEADER
      <4>1. size > HEADER + HEADER
        BY <2>4, HeaderIs
      <4> QED
        BY <2>3, <3>1, <4>1, UnitsAre
    <3> QED
      BY <2>3, <3>1, <3>2, HeaderIs DEF InUnits
  <2>6. pPool = [at |-> at, size |-> size]
    BY <1>2, <1>6 DEF Pool!PoolIn, at, rest, size
  <2>7. /\ pPool.at = at /\ pPool.size = size /\ pPool \in [at : Nat, size : Nat]
        /\ Lo = at + HEADER /\ Hi = at + size /\ Lo \in Int /\ Hi \in Int
    BY <2>1, <2>3, <2>6, HeaderIs DEF Lo, Hi
  <2> DEFINE c == [at |-> at + HEADER, size |-> size - HEADER]
  <2>8. /\ c \in Chunk /\ c.at = Lo /\ c.size = size - HEADER
    BY <2>1, <2>5, <2>7, HeaderIs DEF Chunk
  <2>9. pFreeList = <<c>>
    BY <1>2, <2>4, <2>7
  <2> HIDE DEF c
  <2>10. /\ pFreeList \in Seq(Chunk) /\ Len(pFreeList) = 1 /\ DOMAIN pFreeList = 1 .. 1
         /\ pFreeList[1] = c
    BY <2>8, <2>9
  <2>11. c.at + c.size = Hi
    BY <2>1, <2>3, <2>7, <2>8, HeaderIs
  <2>12. IsChunk(Lo, Hi, c.at, c.size)
    BY <2>3, <2>5, <2>7, <2>8, <2>11, HeaderIs DEF IsChunk
  <2>13. FreeList(Lo, Hi, pFreeList)
    BY <2>10, <2>12 DEF FreeList, Rising, Gap
  <2>14. \A a \in Lo .. Hi - 1 : InList(pFreeList, a)
    <3>1. ASSUME NEW a \in Lo .. Hi - 1 PROVE Holds(c.at, c.size, a)
      BY <2>7, <2>8, <2>11 DEF Holds
    <3> QED
      BY <2>10, <3>1 DEF InList
  <2>15. Parts(Lo, Hi, pUsed, pFreeList)
    BY <1>3, <1>4, <2>13, <2>14 DEF Parts
  <2> QED
    BY <1>1, <1>4, <2>1, <2>4, <2>7, <2>15 DEF PoolInv, PoolTypes
<1> QED
  BY <1>5, <1>6

-----------------------------------------------------------------------------
(***************************************************************************)
(* What the owners have: the memory behind the headers                     *)
(***************************************************************************)

LiveOf(asks) == [a \in {p + HEADER : p \in DOMAIN asks} |-> asks[a - HEADER]]

\* One block for each used chunk, of the size that was asked for
LEMMA LiveIs ==
    ASSUME NEW asks, DOMAIN asks \subseteq Nat
    PROVE  /\ DOMAIN LiveOf(asks) = {p + HEADER : p \in DOMAIN asks}
           /\ \A p \in DOMAIN asks : LiveOf(asks)[p + HEADER] = asks[p]
<1>1. DOMAIN LiveOf(asks) = {p + HEADER : p \in DOMAIN asks}
  BY DEF LiveOf
<1>2. ASSUME NEW p \in DOMAIN asks PROVE LiveOf(asks)[p + HEADER] = asks[p]
  <2>1. (p + HEADER) - HEADER = p
    BY HeaderIs
  <2>2. p + HEADER \in {q + HEADER : q \in DOMAIN asks}
    OBVIOUS
  <2>3. LiveOf(asks)[p + HEADER] = asks[(p + HEADER) - HEADER]
    BY <2>2, Zenon DEF LiveOf
  <2> QED
    BY <2>1, <2>3
<1> QED
  BY <1>1, <1>2

\* A chunk taken is a block more, a chunk given back a block less.
LEMMA LiveWith ==
    ASSUME NEW asks, DOMAIN asks \subseteq Nat, NEW x \in Nat, NEW n
    PROVE  LiveOf(Pool!With(asks, x, n)) = Pool!With(LiveOf(asks), x + HEADER, n)
<1> DEFINE more == Pool!With(asks, x, n)
           live == LiveOf(asks)
           D == {p + HEADER : p \in DOMAIN asks}
<1>1. /\ DOMAIN more = DOMAIN asks \cup {x} /\ more[x] = n
      /\ \A p \in DOMAIN asks : p # x => more[p] = asks[p]
  BY DEF Pool!With
<1>2. DOMAIN live = D /\ \A p \in DOMAIN asks : live[p + HEADER] = asks[p]
  BY LiveIs
<1> HIDE DEF more, live
<1>3. DOMAIN more \subseteq Nat
  BY <1>1
<1>4. {p + HEADER : p \in DOMAIN more} = D \cup {x + HEADER}
  BY <1>1
<1>5. ASSUME NEW a \in D \cup {x + HEADER}
      PROVE  more[a - HEADER] = IF a = x + HEADER THEN n ELSE live[a]
  <2>1. CASE a = x + HEADER
    <3>1. a - HEADER = x
      BY <2>1, HeaderIs
    <3> QED
      BY <1>1, <2>1, <3>1
  <2>2. CASE a # x + HEADER
    <3>1. PICK p \in DOMAIN asks : a = p + HEADER
      BY <2>2
    <3>2. a - HEADER = p /\ p # x
      BY <2>2, <3>1, HeaderIs
    <3> QED
      BY <1>1, <1>2, <2>2, <3>1, <3>2
  <2> QED
    BY <2>1, <2>2
<1>6. [a \in D \cup {x + HEADER} |-> more[a - HEADER]]
      = [a \in DOMAIN live \cup {x + HEADER} |-> IF a = x + HEADER THEN n ELSE live[a]]
  BY <1>2, <1>5, Zenon
<1> QED
  BY <1>4, <1>6, Zenon DEF LiveOf, more, live, Pool!With

\* One owner less, with what it had
LEMMA LiveWithout ==
    ASSUME NEW asks, DOMAIN asks \subseteq Nat, NEW x \in Nat
    PROVE  LiveOf(Pool!Without(asks, x)) = Pool!Without(LiveOf(asks), x + HEADER)
<1> DEFINE less == Pool!Without(asks, x)
           live == LiveOf(asks)
           D == {p + HEADER : p \in DOMAIN asks}
<1>1. /\ DOMAIN less = DOMAIN asks \ {x}
      /\ \A p \in DOMAIN asks : p # x => less[p] = asks[p]
  BY DEF Pool!Without, Pool!Restrict
<1>2. DOMAIN live = D /\ \A p \in DOMAIN asks : live[p + HEADER] = asks[p]
  BY LiveIs
<1> HIDE DEF less, live
<1>3. {p + HEADER : p \in DOMAIN less} = D \ {x + HEADER}
  BY <1>1, HeaderIs
<1>4. ASSUME NEW a \in D \ {x + HEADER} PROVE less[a - HEADER] = live[a]
  <2>1. PICK p \in DOMAIN asks : a = p + HEADER
    OBVIOUS
  <2>2. a - HEADER = p /\ p # x
    BY <2>1, HeaderIs
  <2> QED
    BY <1>1, <1>2, <2>1, <2>2
<1>5. [a \in D \ {x + HEADER} |-> less[a - HEADER]] = [a \in DOMAIN live \ {x + HEADER} |-> live[a]]
  BY <1>2, <1>4, Zenon
<1> QED
  BY <1>3, <1>5, Zenon DEF LiveOf, less, live, Pool!Without, Pool!Restrict

\* The memory behind the header of a used chunk is in the buffer, and nobody else's.
LEMMA VacantIs ==
    ASSUME PoolTypes, NEW chunks, NEW list, NEW asks,
           Parts(Lo, Hi, chunks, list), Owned(chunks, asks), NEW x \in DOMAIN chunks,
           NEW blocks, DOMAIN blocks = {p + HEADER : p \in DOMAIN chunks \ {x}},
           \A p \in DOMAIN chunks \ {x} : blocks[p + HEADER] = asks[p]
    PROVE  Pool!Vacant(blocks, x + HEADER, asks[x])
<1>1. ASSUME NEW p \in DOMAIN chunks
      PROVE  /\ p \in Nat /\ chunks[p] \in Nat /\ asks[p] \in Nat /\ asks[p] > 0
             /\ asks[p] + HEADER <= chunks[p] /\ Lo <= p /\ p + chunks[p] <= Hi
  <2>1. IsChunk(Lo, Hi, p, chunks[p])
    BY <1>1 DEF Parts
  <2>2. asks[p] \in Nat \ {0} /\ Pool!ChunkSize(asks[p]) <= chunks[p]
    BY <1>1 DEF Owned
  <2>3. InUnits(Pool!ChunkSize(asks[p])) /\ Pool!ChunkSize(asks[p]) >= asks[p] + HEADER
    BY <2>2, ChunkSizeIs
  <2>4. p \in Nat /\ chunks[p] \in Nat /\ Pool!ChunkSize(asks[p]) \in Nat
    BY <2>1, <2>3 DEF IsChunk, InUnits
  <2> QED
    BY <2>1, <2>2, <2>3, <2>4, HeaderIs DEF IsChunk
<1>2. ASSUME NEW p \in DOMAIN chunks, NEW a \in Pool!Bytes(p + HEADER, asks[p])
      PROVE  a \in Int /\ Holds(p, chunks[p], a)
  <2>1. a \in Int /\ p + HEADER <= a /\ a <= p + HEADER + asks[p] - 1
    BY <1>1, HeaderIs DEF Pool!Bytes
  <2> QED
    BY <1>1, <2>1, HeaderIs DEF Holds
<1>3. Pool!Bytes(x + HEADER, asks[x]) \subseteq Pool!Bytes(pBuf.at, pBuf.size)
  <2>1. /\ pPool.at \in Nat /\ pPool.size \in Nat /\ pBuf.at \in Nat /\ pBuf.size \in Nat
    BY DEF PoolTypes
  <2>2. /\ x \in Nat /\ asks[x] \in Nat /\ chunks[x] \in Nat /\ asks[x] + HEADER <= chunks[x]
        /\ asks[x] > 0 /\ pPool.at + HEADER <= x /\ x + chunks[x] <= pPool.at + pPool.size
    BY <1>1 DEF Lo, Hi
  <2>3. pPool.size > 0
    BY <2>1, <2>2, HeaderIs
  <2>4. pPool.at >= pBuf.at /\ pPool.at + pPool.size <= pBuf.at + pBuf.size
    BY <2>3 DEF PoolTypes
  <2>5. pBuf.at <= x + HEADER /\ (x + HEADER) + asks[x] <= pBuf.at + pBuf.size
    BY <2>1, <2>2, <2>4, HeaderIs
  <2> QED
    BY <2>1, <2>2, <2>5, HeaderIs DEF Pool!Bytes
<1>4. ASSUME NEW q \in DOMAIN blocks
      PROVE  Pool!Bytes(x + HEADER, asks[x]) \cap Pool!Bytes(q, blocks[q]) = {}
  <2>1. PICK p \in DOMAIN chunks \ {x} : q = p + HEADER
    BY Zenon
  <2>2. blocks[q] = asks[p]
    BY <2>1
  <2>3. ASSUME NEW a \in Pool!Bytes(x + HEADER, asks[x]), a \in Pool!Bytes(p + HEADER, asks[p])
        PROVE  FALSE
    <3>1. a \in Int /\ Holds(x, chunks[x], a)
      BY <1>2, Zenon
    <3>2. p \in DOMAIN chunks /\ p # x /\ Holds(p, chunks[p], a)
      BY <1>2, <2>3, Zenon
    <3> QED
      BY <3>1, <3>2, Zenon DEF Parts
  <2> QED
    BY <2>1, <2>2, <2>3, Zenon
<1> QED
  BY <1>3, <1>4, Zenon DEF Pool!Vacant

-----------------------------------------------------------------------------
(***************************************************************************)
(* The calls of the pool allocator, one by one                             *)
(***************************************************************************)

\* The chunks change, and the pool and its buffer do not.
LEMMA PoolStays ==
    ASSUME PoolInv, UNCHANGED <<pBuf, pPool>>,
           Parts(Lo, Hi, pUsed', pFreeList'), Owned(pUsed', pAsked'),
           pSpilt' = {} \/ Pool!SpillsOneHeader'
    PROVE  PoolInv'
<1>1. Lo' = Lo /\ Hi' = Hi /\ PoolTypes'
  BY DEF PoolInv, PoolTypes, Lo, Hi
<1>2. Parts(Lo', Hi', pUsed', pFreeList')
  BY <1>1, Zenon
<1>3. Pool!SpillsOneHeader'
  <2>1. CASE pSpilt' = {}
    BY <2>1 DEF Pool!SpillsOneHeader
  <2> QED
    BY <2>1
<1>4. Parts(Lo, Hi, pUsed, pFreeList)'
  BY <1>2 DEF Parts, InUsed, InList, Holds, IsChunk, InUnits, FreeList, Rising, Gap
<1>5. Owned(pUsed, pAsked)'
  BY DEF Owned
<1> QED
  BY <1>1, <1>3, <1>4, <1>5 DEF PoolInv

\* What the invariant says of the owners
LEMMA OwnersAre ==
    ASSUME PoolInv
    PROVE  /\ Lo \in Int /\ Hi \in Int /\ Parts(Lo, Hi, pUsed, pFreeList) /\ Owned(pUsed, pAsked)
           /\ DOMAIN pAsked = DOMAIN pUsed /\ DOMAIN pUsed \subseteq Nat
           /\ Pool!Live = LiveOf(pAsked)
           /\ DOMAIN Pool!Live = {p + HEADER : p \in DOMAIN pUsed}
           /\ \A p \in DOMAIN pUsed : Pool!Live[p + HEADER] = pAsked[p]
<1>1. /\ Lo \in Int /\ Hi \in Int /\ Parts(Lo, Hi, pUsed, pFreeList) /\ Owned(pUsed, pAsked)
  BY DEF PoolInv, PoolTypes
<1>2. DOMAIN pAsked = DOMAIN pUsed /\ DOMAIN pUsed \subseteq Nat
  BY <1>1 DEF Parts, Owned, IsChunk, InUnits
<1>3. Pool!Live = LiveOf(pAsked)
  BY DEF Pool!Live, LiveOf
<1> QED
  BY <1>1, <1>2, <1>3, LiveIs

\* pool_malloc gives a block of room that nobody has.
LEMMA MallocStep ==
    ASSUME PoolInv, NEW n \in Nat \ {0}, Pool!Malloc(n)
    PROVE  PoolInv' /\ Pool!Promised
<1>1. /\ Lo \in Int /\ Hi \in Int /\ Parts(Lo, Hi, pUsed, pFreeList) /\ Owned(pUsed, pAsked)
      /\ DOMAIN pAsked = DOMAIN pUsed /\ DOMAIN pUsed \subseteq Nat
      /\ Pool!Live = LiveOf(pAsked)
      /\ DOMAIN Pool!Live = {p + HEADER : p \in DOMAIN pUsed}
      /\ \A p \in DOMAIN pUsed : Pool!Live[p + HEADER] = pAsked[p]
  BY OwnersAre
<1> DEFINE size == Pool!ChunkSize(n)
<1>2. PICK i \in Pool!Fitting(pFreeList, size) :
         /\ pUsed' = Pool!With(pUsed, pFreeList[i].at, Pool!Granted(pFreeList[i], size))
         /\ pAsked' = Pool!With(pAsked, pFreeList[i].at, n)
         /\ pFreeList' = Pool!LeftAfter(pFreeList, i, size)
         /\ UNCHANGED <<pBuf, pPool>> /\ pSpilt' = {}
  BY DEF Pool!Malloc, Pool!Take
<1> DEFINE x == pFreeList[i].at
<1>3. /\ x \in Nat /\ x \notin DOMAIN pUsed
      /\ Parts(Lo, Hi, pUsed', pFreeList') /\ Owned(pUsed', pAsked')
  BY <1>1, <1>2, TakeIs
<1> HIDE DEF size, x
<1>4. PoolInv'
  BY <1>2, <1>3, PoolStays
<1>5. /\ DOMAIN pUsed' = DOMAIN pUsed \cup {x} /\ pAsked' = Pool!With(pAsked, x, n)
      /\ pAsked'[x] = n /\ \A p \in DOMAIN pUsed : p # x => pAsked'[p] = pAsked[p]
  BY <1>1, <1>2 DEF Pool!With, x
<1>6. Pool!Live' = Pool!With(Pool!Live, x + HEADER, n)
  <2>1. Pool!Live' = LiveOf(pAsked')
    BY DEF Pool!Live, LiveOf
  <2> QED
    BY <1>1, <1>3, <1>5, <2>1, LiveWith
<1>7. Pool!Vacant(Pool!Live, x + HEADER, n)
  <2>1. \A p \in DOMAIN pUsed' \ {x} : p \in DOMAIN pUsed /\ p # x
    BY <1>5
  <2>2. DOMAIN pUsed' \ {x} = DOMAIN pUsed
    BY <1>3, <1>5
  <2>3. DOMAIN Pool!Live = {p + HEADER : p \in DOMAIN pUsed' \ {x}}
    BY <1>1, <2>2, Zenon
  <2>4. \A p \in DOMAIN pUsed' \ {x} : Pool!Live[p + HEADER] = pAsked'[p]
    BY <1>1, <1>5, <2>1, Zenon
  <2>5. PoolTypes /\ x \in DOMAIN pUsed'
    BY <1>5 DEF PoolInv
  <2> QED
    BY <1>3, <1>5, <2>3, <2>4, <2>5, VacantIs
<1>8. x + HEADER \in DOMAIN Pool!Live' \ DOMAIN Pool!Live /\ Pool!Live'[x + HEADER] = n
  <2>1. x + HEADER \notin DOMAIN Pool!Live
    BY <1>1, <1>3, HeaderIs
  <2> DEFINE live == Pool!Live
             live2 == Pool!Live'
  <2>2. live2 = Pool!With(live, x + HEADER, n)
    BY <1>6
  <2> HIDE DEF live, live2
  <2>3. x + HEADER \in DOMAIN live2 /\ live2[x + HEADER] = n
    BY <2>2 DEF Pool!With
  <2> QED
    BY <2>1, <2>3 DEF live, live2
<1>9. Pool!Grants(x + HEADER, Pool!Live'[x + HEADER])
  BY <1>6, <1>7, <1>8 DEF Pool!Grants
<1> QED
  BY <1>4, <1>8, <1>9, Zenon DEF Pool!Promised

\* pool_free ends one block.
LEMMA FreeStep ==
    ASSUME PoolInv, NEW p \in DOMAIN pUsed, Pool!Free(p)
    PROVE  PoolInv' /\ Pool!Promised
<1>1. /\ Lo \in Int /\ Hi \in Int /\ Parts(Lo, Hi, pUsed, pFreeList) /\ Owned(pUsed, pAsked)
      /\ DOMAIN pAsked = DOMAIN pUsed /\ DOMAIN pUsed \subseteq Nat
      /\ Pool!Live = LiveOf(pAsked)
      /\ DOMAIN Pool!Live = {q + HEADER : q \in DOMAIN pUsed}
  BY OwnersAre
<1>2. /\ pUsed' = Pool!Without(pUsed, p) /\ pAsked' = Pool!Without(pAsked, p)
      /\ pFreeList' = Pool!Released(pFreeList, [at |-> p, size |-> pUsed[p]])
      /\ UNCHANGED <<pBuf, pPool>> /\ pSpilt' = {}
  BY DEF Pool!Free
<1>3. Parts(Lo, Hi, pUsed', pFreeList') /\ Owned(pUsed', pAsked')
  BY <1>1, <1>2, GiveBackIs
<1>4. PoolInv'
  BY <1>2, <1>3, PoolStays
<1>5. Pool!Live' = Pool!Without(Pool!Live, p + HEADER)
  <2>1. Pool!Live' = LiveOf(pAsked')
    BY DEF Pool!Live, LiveOf
  <2> QED
    BY <1>1, <1>2, <2>1, LiveWithout
<1>6. p + HEADER \in DOMAIN Pool!Live
  BY <1>1
<1> QED
  BY <1>4, <1>5, <1>6, Zenon DEF Pool!Promised, Pool!Frees

\* A block that grew where it is: the room behind its header is its own.
LEMMA GrownInPlace ==
    ASSUME PoolInv, PoolInv', UNCHANGED <<pBuf, pPool>>, NEW p \in DOMAIN pUsed,
           NEW n \in Nat \ {0}, n > pAsked[p],
           DOMAIN pUsed' = DOMAIN pUsed, pAsked' = [pAsked EXCEPT ![p] = n]
    PROVE  Pool!Promised
<1>1. /\ Parts(Lo, Hi, pUsed, pFreeList) /\ Owned(pUsed, pAsked)
      /\ DOMAIN pAsked = DOMAIN pUsed /\ DOMAIN pUsed \subseteq Nat
      /\ Pool!Live = LiveOf(pAsked)
      /\ DOMAIN Pool!Live = {q + HEADER : q \in DOMAIN pUsed}
      /\ \A q \in DOMAIN pUsed : Pool!Live[q + HEADER] = pAsked[q]
  BY OwnersAre
<1> DEFINE less == Pool!Without(pAsked, p)
           live == Pool!Live
           rest == Pool!Without(live, p + HEADER)
<1>2. /\ p \in DOMAIN pAsked /\ p \in Nat /\ pAsked'[p] = n
      /\ \A q \in DOMAIN pUsed : q # p => pAsked'[q] = pAsked[q]
  BY <1>1
<1>3. pAsked' = Pool!With(less, p, n)
  <2>1. DOMAIN less = DOMAIN pAsked \ {p} /\ \A q \in DOMAIN pAsked : q # p => less[q] = pAsked[q]
    BY DEF Pool!Without, Pool!Restrict
  <2> HIDE DEF less
  <2>2. DOMAIN less \cup {p} = DOMAIN pAsked
    BY <1>2, <2>1
  <2>3. pAsked' = [q \in DOMAIN pAsked |-> IF q = p THEN n ELSE pAsked[q]]
    BY <1>1
  <2>4. \A q \in DOMAIN pAsked :
           (IF q = p THEN n ELSE pAsked[q]) = IF q = p THEN n ELSE less[q]
    BY <2>1
  <2>5. pAsked' = [q \in DOMAIN less \cup {p} |-> IF q = p THEN n ELSE less[q]]
    BY <2>2, <2>3, <2>4
  <2> QED
    BY <2>5 DEF Pool!With
<1>4. Pool!Live' = Pool!With(rest, p + HEADER, n)
  <2>1. Pool!Live' = LiveOf(pAsked')
    BY DEF Pool!Live, LiveOf
  <2>2. DOMAIN less \subseteq Nat
    BY <1>1 DEF Pool!Without, Pool!Restrict
  <2>3. LiveOf(less) = rest
    BY <1>1, <1>2, LiveWithout
  <2> HIDE DEF less, rest
  <2> QED
    BY <1>2, <1>3, <2>1, <2>2, <2>3, LiveWith
<1>5. Pool!Vacant(rest, p + HEADER, n)
  <2>1. /\ DOMAIN rest = DOMAIN live \ {p + HEADER}
        /\ \A a \in DOMAIN live : a # p + HEADER => rest[a] = live[a]
    BY DEF Pool!Without, Pool!Restrict
  <2> HIDE DEF rest
  <2>2. \A q \in DOMAIN pUsed \ {p} : q + HEADER # p + HEADER /\ q + HEADER \in DOMAIN live
    BY <1>1, <1>2, HeaderIs
  <2>3. DOMAIN rest = {q + HEADER : q \in DOMAIN pUsed' \ {p}}
    <3>1. DOMAIN live = {q + HEADER : q \in DOMAIN pUsed}
      BY <1>1
    <3> HIDE DEF live
    <3> QED
      BY <2>1, <2>2, <3>1
  <2>4. \A q \in DOMAIN pUsed' \ {p} : rest[q + HEADER] = pAsked'[q]
    BY <1>1, <1>2, <2>1, <2>2
  <2>5. /\ PoolTypes /\ p \in DOMAIN pUsed'
        /\ Parts(Lo, Hi, pUsed', pFreeList') /\ Owned(pUsed', pAsked')
    <3>1. Lo' = Lo /\ Hi' = Hi
      BY DEF Lo, Hi
    <3>2. Parts(Lo', Hi', pUsed', pFreeList') /\ Owned(pUsed', pAsked')
      BY DEF PoolInv, Parts, Owned, InUsed, InList, Holds, IsChunk, InUnits, FreeList, Rising, Gap
    <3> QED
      BY <3>1, <3>2 DEF PoolInv
  <2>6. Pool!Vacant(rest, p + HEADER, pAsked'[p])
    BY <2>3, <2>4, <2>5, VacantIs
  <2> QED
    BY <1>2, <2>6
<1>6. p + HEADER \in DOMAIN live /\ live[p + HEADER] = pAsked[p]
  BY <1>1
<1>7. p + HEADER \in DOMAIN Pool!Live' /\ Pool!Live'[p + HEADER] = n
  <2> DEFINE live2 == Pool!Live'
  <2>1. live2 = Pool!With(rest, p + HEADER, n)
    BY <1>4
  <2> HIDE DEF live2, rest
  <2>2. p + HEADER \in DOMAIN live2 /\ live2[p + HEADER] = n
    BY <2>1 DEF Pool!With
  <2> QED
    BY <2>2 DEF live2
<1>8. Pool!Regrants(p + HEADER, p + HEADER, n)
  BY <1>4, <1>5, <1>6 DEF Pool!Regrants
<1> QED
  BY <1>6, <1>7, <1>8 DEF Pool!Promised

\* pool_realloc, when the chunk is large enough already
LEMMA SameChunkStep ==
    ASSUME PoolInv, NEW p \in DOMAIN pUsed, NEW n \in Nat \ {0}, Pool!SameChunk(p, n)
    PROVE  PoolInv' /\ Pool!Promised
<1>1. /\ Parts(Lo, Hi, pUsed, pFreeList) /\ Owned(pUsed, pAsked) /\ DOMAIN pAsked = DOMAIN pUsed
  BY OwnersAre
<1>2. /\ n > pAsked[p] /\ Pool!ChunkSize(n) = Pool!ChunkSize(pAsked[p])
      /\ pAsked' = [pAsked EXCEPT ![p] = n]
      /\ UNCHANGED <<pBuf, pPool, pFreeList, pUsed>> /\ pSpilt' = {}
  BY DEF Pool!SameChunk, Pool!Regrows
<1>3. Owned(pUsed', pAsked')
  <2>1. /\ DOMAIN pAsked' = DOMAIN pUsed /\ pAsked'[p] = n
        /\ \A q \in DOMAIN pUsed : q # p => pAsked'[q] = pAsked[q]
    BY <1>1, <1>2
  <2>2. Pool!ChunkSize(n) <= pUsed[p] /\ pUsed[p] <= Pool!ChunkSize(n) + 2 * HEADER
    BY <1>1, <1>2 DEF Owned
  <2> QED
    BY <1>1, <1>2, <2>1, <2>2 DEF Owned
<1>4. Parts(Lo, Hi, pUsed', pFreeList')
  BY <1>1, <1>2
<1>5. PoolInv'
  BY <1>2, <1>3, <1>4, PoolStays
<1> QED
  BY <1>2, <1>5, GrownInPlace

\* pool_realloc, when the chunk above is free and large enough
LEMMA ExtendStep ==
    ASSUME PoolInv, NEW p \in DOMAIN pUsed, NEW n \in Nat \ {0}, Pool!Extend(p, n)
    PROVE  PoolInv' /\ Pool!Promised
<1>1. /\ Lo \in Int /\ Hi \in Int /\ Parts(Lo, Hi, pUsed, pFreeList) /\ Owned(pUsed, pAsked)
      /\ DOMAIN pAsked = DOMAIN pUsed
  BY OwnersAre
<1> DEFINE size == Pool!ChunkSize(n)
<1>2. PICK i \in Pool!Extends(p, n) :
         LET rest == pUsed[p] + pFreeList[i].size - size
             splits == rest > 2 * HEADER
         IN  /\ pUsed' = [pUsed EXCEPT ![p] = IF splits THEN size ELSE pUsed[p] + pFreeList[i].size]
             /\ pFreeList' = IF splits
                             THEN [pFreeList EXCEPT ![i] = [at |-> p + size, size |-> rest]]
                             ELSE Pool!RemoveAt(pFreeList, i)
  BY DEF Pool!Extend, Pool!CutsOff
<1>3. /\ n > pAsked[p] /\ pAsked' = [pAsked EXCEPT ![p] = n] /\ UNCHANGED <<pBuf, pPool>>
      /\ pSpilt' = {}
  BY DEF Pool!Extend, Pool!Regrows
<1>4. /\ i \in DOMAIN pFreeList /\ p + pUsed[p] = pFreeList[i].at
      /\ pUsed[p] + pFreeList[i].size >= size
  BY DEF Pool!Extends, Pool!Above
<1>5. InUnits(size) /\ size >= 2 * HEADER /\ size \in Nat
  BY ChunkSizeIs DEF InUnits
<1> DEFINE both == pUsed[p] + pFreeList[i].size
           rest == both - size
           v == IF rest > 2 * HEADER THEN size ELSE both
<1>6. pUsed[p] \in Nat /\ pFreeList[i].size \in Nat
  <2>1. IsChunk(Lo, Hi, p, pUsed[p]) /\ Rising(Lo, Hi, pFreeList)
    BY <1>1 DEF Parts, FreeList
  <2>2. DOMAIN pFreeList = 1 .. Len(pFreeList)
    BY <2>1, InOrder
  <2> QED
    BY <1>4, <2>1, <2>2, InOrder DEF IsChunk, InUnits
<1>7. both \in Nat /\ rest \in Nat /\ size + rest = both
  BY <1>4, <1>5, <1>6
<1>8. /\ pUsed' = [pUsed EXCEPT ![p] = v]
      /\ pFreeList' = IF rest > 2 * HEADER
                      THEN [pFreeList EXCEPT ![i] = [at |-> p + size, size |-> rest]]
                      ELSE Pool!RemoveAt(pFreeList, i)
  <2>1. pUsed[p] + pFreeList[i].size - size = rest
    BY <1>5, <1>6
  <2> HIDE DEF rest
  <2> QED
    BY <1>2, <2>1
<1>9. both = pUsed[p] + pFreeList[i].size /\ v = IF rest > 2 * HEADER THEN size ELSE both
  OBVIOUS
<1> HIDE DEF size, both, rest, v
<1>10. /\ DOMAIN pUsed' = DOMAIN pUsed /\ pUsed'[p] = v
       /\ \A q \in DOMAIN pUsed \ {p} : pUsed'[q] = pUsed[q]
  BY <1>8
<1>11. \/ /\ rest > 2 * HEADER /\ v = size
          /\ pFreeList' = [pFreeList EXCEPT ![i] = [at |-> p + size, size |-> rest]]
       \/ v = size + rest /\ pFreeList' = Pool!RemoveAt(pFreeList, i)
  BY <1>7, <1>8, <1>9
<1>12. Parts(Lo, Hi, pUsed', pFreeList')
  <2>1. size + rest = pUsed[p] + pFreeList[i].size
    BY <1>7, <1>9
  <2> QED
    BY <1>1, <1>4, <1>5, <1>7, <1>10, <1>11, <2>1, GrowIs
<1>13. Owned(pUsed', pAsked')
  <2>1. /\ DOMAIN pAsked' = DOMAIN pUsed /\ pAsked'[p] = n
        /\ \A q \in DOMAIN pUsed : q # p => pAsked'[q] = pAsked[q]
    BY <1>1, <1>3
  <2>2. Pool!ChunkSize(n) <= v /\ v <= Pool!ChunkSize(n) + 2 * HEADER
    BY <1>5, <1>7, <1>9, HeaderIs DEF size
  <2> QED
    BY <1>1, <1>10, <2>1, <2>2 DEF Owned
<1>14. PoolInv'
  BY <1>3, <1>12, <1>13, PoolStays
<1> QED
  BY <1>3, <1>10, <1>14, GrownInPlace

\* pool_realloc otherwise: a new chunk is taken, and then the old one given back, where
\* what was copied fits.
LEMMA MoveStep ==
    ASSUME PoolInv, NEW p \in DOMAIN pUsed, NEW n \in Nat \ {0}, Pool!Move(p, n)
    PROVE  PoolInv' /\ Pool!Promised
<1>1. /\ Lo \in Int /\ Hi \in Int /\ Parts(Lo, Hi, pUsed, pFreeList) /\ Owned(pUsed, pAsked)
      /\ DOMAIN pAsked = DOMAIN pUsed /\ DOMAIN pUsed \subseteq Nat
      /\ Pool!Live = LiveOf(pAsked)
      /\ DOMAIN Pool!Live = {q + HEADER : q \in DOMAIN pUsed}
      /\ \A q \in DOMAIN pUsed : Pool!Live[q + HEADER] = pAsked[q]
  BY OwnersAre
<1> DEFINE size == Pool!ChunkSize(n)
<1>2. PICK i \in Pool!MovesTo(p, n) :
         /\ pFreeList' = Pool!Released(Pool!LeftAfter(pFreeList, i, size), [at |-> p, size |-> pUsed[p]])
         /\ pUsed' = Pool!With(Pool!Without(pUsed, p), pFreeList[i].at,
                               Pool!Granted(pFreeList[i], size))
         /\ pAsked' = Pool!With(Pool!Without(pAsked, p), pFreeList[i].at, n)
         /\ UNCHANGED <<pBuf, pPool, pSpilt>>
  BY DEF Pool!Move
<1>3. n > pAsked[p] /\ i \in Pool!Fitting(pFreeList, size) /\ pSpilt' = {}
  BY <1>2 DEF Pool!MovesTo, Pool!Regrows
<1> DEFINE x == pFreeList[i].at
           granted == Pool!Granted(pFreeList[i], size)
           chunks == Pool!With(pUsed, x, granted)
           asks == Pool!With(pAsked, x, n)
           list == Pool!LeftAfter(pFreeList, i, size)
<1>4. /\ x \in Nat /\ x \notin DOMAIN pUsed /\ Parts(Lo, Hi, chunks, list) /\ Owned(chunks, asks)
  <2> HIDE DEF chunks, asks, list
  <2>1. chunks = Pool!With(pUsed, x, granted) /\ asks = Pool!With(pAsked, x, n)
        /\ list = Pool!LeftAfter(pFreeList, i, size)
    BY DEF chunks, asks, list
  <2> QED
    BY <1>1, <1>3, <2>1, TakeIs
<1>5. x # p
  BY <1>4
<1>6. /\ pUsed' = Pool!Without(chunks, p) /\ pAsked' = Pool!Without(asks, p)
      /\ pFreeList' = Pool!Released(list, [at |-> p, size |-> chunks[p]])
  <2>1. chunks[p] = pUsed[p]
    BY <1>5 DEF Pool!With
  <2>2. Pool!Without(Pool!With(pUsed, x, granted), p) = Pool!With(Pool!Without(pUsed, p), x, granted)
    BY <1>5, WithWithout
  <2>3. Pool!Without(Pool!With(pAsked, x, n), p) = Pool!With(Pool!Without(pAsked, p), x, n)
    BY <1>5, WithWithout
  <2> QED
    BY <1>2, <2>1, <2>2, <2>3
<1>7. /\ DOMAIN chunks = DOMAIN pUsed \cup {x} /\ asks[x] = n
      /\ \A q \in DOMAIN pUsed : q # x => asks[q] = pAsked[q]
  BY <1>1 DEF Pool!With
<1> HIDE DEF size, x, granted, chunks, asks, list
<1>8. Parts(Lo, Hi, pUsed', pFreeList') /\ Owned(pUsed', pAsked')
  <2>1. p \in DOMAIN chunks
    BY <1>7
  <2> QED
    BY <1>1, <1>4, <1>6, <2>1, GiveBackIs
<1>9. PoolInv'
  BY <1>2, <1>3, <1>8, PoolStays
<1> DEFINE less == Pool!Without(pAsked, p)
           live == Pool!Live
           rest == Pool!Without(live, p + HEADER)
<1>10. Pool!Live' = Pool!With(rest, x + HEADER, n)
  <2>1. Pool!Live' = LiveOf(pAsked')
    BY DEF Pool!Live, LiveOf
  <2>2. DOMAIN less \subseteq Nat
    BY <1>1 DEF Pool!Without, Pool!Restrict
  <2>3. LiveOf(less) = rest
    <3>1. p \in Nat /\ DOMAIN pAsked \subseteq Nat
      BY <1>1
    <3> QED
      BY <1>1, <3>1, LiveWithout
  <2>4. pAsked' = Pool!With(less, x, n)
    BY <1>2 DEF x
  <2> HIDE DEF less, rest
  <2> QED
    BY <1>4, <2>1, <2>2, <2>3, <2>4, LiveWith
<1>11. Pool!Vacant(live, x + HEADER, n)
  <2>1. \A q \in DOMAIN chunks \ {x} : q \in DOMAIN pUsed /\ q # x
    BY <1>7
  <2>2. DOMAIN chunks \ {x} = DOMAIN pUsed
    BY <1>4, <1>7
  <2>3. DOMAIN live = {q + HEADER : q \in DOMAIN chunks \ {x}}
    BY <1>1, <2>2, Zenon
  <2>4. \A q \in DOMAIN chunks \ {x} : live[q + HEADER] = asks[q]
    BY <1>1, <1>7, <2>1, Zenon
  <2>5. PoolTypes /\ x \in DOMAIN chunks
    BY <1>7 DEF PoolInv
  <2>6. Pool!Vacant(live, x + HEADER, asks[x])
    BY <1>4, <2>3, <2>4, <2>5, VacantIs
  <2> QED
    BY <1>7, <2>6
<1>12. p + HEADER \in DOMAIN live /\ live[p + HEADER] = pAsked[p] /\ x + HEADER # p + HEADER
  <2>1. p \in Nat
    BY <1>1
  <2> QED
    BY <1>1, <1>4, <1>5, <2>1, HeaderIs
<1>13. x + HEADER \in DOMAIN Pool!Live' /\ Pool!Live'[x + HEADER] = n
  <2> DEFINE live2 == Pool!Live'
  <2>1. live2 = Pool!With(rest, x + HEADER, n)
    BY <1>10
  <2> HIDE DEF live2, rest
  <2>2. x + HEADER \in DOMAIN live2 /\ live2[x + HEADER] = n
    BY <2>1 DEF Pool!With
  <2> QED
    BY <2>2 DEF live2
<1>14. Pool!Regrants(p + HEADER, x + HEADER, n)
  BY <1>3, <1>10, <1>11, <1>12 DEF Pool!Regrants
<1> QED
  BY <1>9, <1>12, <1>13, <1>14 DEF Pool!Promised

\* pool_realloc, where the old chunk has more room than the new one: the copy goes on over
\* the header of the next chunk, and no further.
LEMMA SpillStep ==
    ASSUME PoolInv, NEW p \in DOMAIN pUsed, NEW n \in Nat \ {0}, Pool!Spill(p, n)
    PROVE  PoolInv' /\ pSpilt' # {}
<1>1. /\ Lo \in Int /\ Hi \in Int /\ Parts(Lo, Hi, pUsed, pFreeList) /\ Owned(pUsed, pAsked)
      /\ DOMAIN pUsed \subseteq Nat
  BY OwnersAre
<1> DEFINE size == Pool!ChunkSize(n)
<1>2. PICK i \in Pool!MovesTo(p, n) :
         LET granted == Pool!Granted(pFreeList[i], size)
         IN  /\ pUsed[p] > granted
             /\ pSpilt' = Pool!Bytes(pFreeList[i].at + granted, pUsed[p] - granted)
             /\ pUsed' = Pool!With(pUsed, pFreeList[i].at, granted)
             /\ pAsked' = Pool!With(pAsked, pFreeList[i].at, n)
             /\ pFreeList' = Pool!LeftAfter(pFreeList, i, size)
             /\ UNCHANGED <<pBuf, pPool>>
  BY DEF Pool!Spill, Pool!Take
<1> DEFINE x == pFreeList[i].at
           granted == Pool!Granted(pFreeList[i], size)
           chunks == pUsed'
           list == pFreeList'
<1>3. /\ n > pAsked[p] /\ i \in Pool!Fitting(pFreeList, size) /\ size # Pool!ChunkSize(pAsked[p])
  BY <1>2 DEF Pool!MovesTo, Pool!Regrows
<1>4. /\ x \in Nat /\ x \notin DOMAIN pUsed
      /\ Parts(Lo, Hi, chunks, list) /\ Owned(chunks, pAsked')
  <2> HIDE DEF chunks, list
  <2>1. /\ chunks = Pool!With(pUsed, x, granted) /\ pAsked' = Pool!With(pAsked, x, n)
        /\ list = Pool!LeftAfter(pFreeList, i, size)
    BY <1>2 DEF chunks, list
  <2> QED
    BY <1>1, <1>3, <2>1, TakeIs
<1>5. x \in DOMAIN chunks /\ chunks[x] = granted /\ pAsked'[x] = n
  BY <1>2 DEF Pool!With
<1>6. /\ pSpilt' = Pool!Bytes(x + granted, pUsed[p] - granted) /\ pUsed[p] > granted
      /\ UNCHANGED <<pBuf, pPool>>
  BY <1>2
<1> HIDE DEF x, granted, chunks, list
<1>7. pUsed[p] - granted = HEADER
  <2>1. /\ InUnits(pUsed[p]) /\ InUnits(granted) /\ pUsed[p] \in Nat /\ granted \in Nat
    BY <1>1, <1>4, <1>5 DEF Parts, IsChunk, InUnits
  <2>2. /\ pAsked[p] \in Nat \ {0} /\ pUsed[p] <= Pool!ChunkSize(pAsked[p]) + 2 * HEADER
        /\ size <= granted
    BY <1>1, <1>4, <1>5 DEF Owned
  <2>3. /\ size >= Pool!ChunkSize(pAsked[p]) + HEADER
        /\ size \in Nat /\ Pool!ChunkSize(pAsked[p]) \in Nat
    BY <1>3, <2>2, ChunkSizeGrows, ChunkSizeIs DEF InUnits
  <2>4. pUsed[p] >= granted + HEADER
    BY <1>6, <2>1, UnitsAre
  <2> HIDE DEF size
  <2> QED
    BY <2>1, <2>2, <2>3, <2>4, HeaderIs
<1> DEFINE e == x + granted
<1>8. e = Hi \/ e \in DOMAIN chunks \/ \E j \in DOMAIN list : list[j].at = e
  BY <1>1, <1>4, <1>5, NextStarts
<1>9. pSpilt' = Pool!Bytes(e, HEADER)
  BY <1>6, <1>7
<1>10. pSpilt' # {}
  <2>1. granted \in Nat /\ e \in Nat
    BY <1>4, <1>5 DEF Parts, IsChunk, InUnits
  <2> HIDE DEF e
  <2>2. e \in Pool!Bytes(e, HEADER)
    BY <2>1, HeaderIs DEF Pool!Bytes
  <2> QED
    BY <1>9, <2>2
<1>11. Pool!SpillsOneHeader'
  <2> DEFINE Starts == {c.at : c \in {[at |-> q, size |-> chunks[q]] : q \in DOMAIN chunks}
                                     \cup {list[j] : j \in DOMAIN list}}
  <2> HIDE DEF e
  <2>1. e \in Starts \cup {Hi}
    <3>1. CASE e \in DOMAIN chunks
      <4> DEFINE c == [at |-> e, size |-> chunks[e]]
      <4>1. c.at = e /\ c \in {[at |-> q, size |-> chunks[q]] : q \in DOMAIN chunks}
        BY <3>1
      <4> HIDE DEF c
      <4> QED
        BY <4>1
    <3> QED
      BY <1>8, <3>1
  <2>2. {c.at : c \in Pool!Chunks'} = Starts
    BY DEF Pool!Chunks, Pool!Range, chunks, list
  <2>3. pPool'.at + pPool'.size = Hi
    BY <1>6 DEF Hi
  <2> HIDE DEF Starts
  <2>4. \E at \in {c.at : c \in Pool!Chunks'} \cup {pPool'.at + pPool'.size} :
           pSpilt' = Pool!Bytes(at, HEADER)
    BY <1>9, <2>1, <2>2, <2>3
  <2> QED
    BY <2>4 DEF Pool!SpillsOneHeader, Pool!Bytes
<1>12. PoolInv'
  BY <1>4, <1>6, <1>11, PoolStays DEF chunks, list
<1> QED
  BY <1>10, <1>12

\* What the allocator promises, as long as no copy has left its chunk
Kept == pSpilt' = {} => Pool!Promised

\* Every step of the behaviours that TLC checks keeps the chunks apart, and what the
\* allocator promises.
LEMMA PoolStep ==
    ASSUME PoolInv, [MCNext]_mcVars
    PROVE  PoolInv' /\ [Kept]_poolVars
<1> USE DEF Kept
<1>1. CASE UNCHANGED poolVars
  <2>1. UNCHANGED <<pBuf, pPool, pFreeList, pUsed, pAsked, pSpilt>>
    BY <1>1 DEF poolVars
  <2>2. /\ Parts(Lo, Hi, pUsed, pFreeList) /\ Owned(pUsed, pAsked)
    BY OwnersAre
  <2>3. Parts(Lo, Hi, pUsed', pFreeList') /\ Owned(pUsed', pAsked')
    BY <2>1, <2>2
  <2>4. Pool!SpillsOneHeader'
    BY <2>1 DEF PoolInv, Pool!SpillsOneHeader, Pool!Chunks
  <2> QED
    BY <1>1, <2>1, <2>3, <2>4, PoolStays
<1>2. CASE Pool!Next
  <2>1. \A n \in Asks : n \in Nat \ {0}
    BY PoolAssumption DEF Pool!PoolAssumption
  <2>2. ASSUME NEW n \in Asks, Pool!Malloc(n) PROVE PoolInv' /\ [Kept]_poolVars
    BY <2>1, <2>2, MallocStep
  <2>3. ASSUME NEW p \in DOMAIN pUsed, Pool!Free(p) PROVE PoolInv' /\ [Kept]_poolVars
    BY <2>3, FreeStep
  <2>4. ASSUME NEW p \in DOMAIN pUsed, NEW n \in Asks, Pool!SameChunk(p, n)
        PROVE  PoolInv' /\ [Kept]_poolVars
    BY <2>1, <2>4, SameChunkStep
  <2>5. ASSUME NEW p \in DOMAIN pUsed, NEW n \in Asks, Pool!Extend(p, n)
        PROVE  PoolInv' /\ [Kept]_poolVars
    BY <2>1, <2>5, ExtendStep
  <2>6. ASSUME NEW p \in DOMAIN pUsed, NEW n \in Asks, Pool!Move(p, n)
        PROVE  PoolInv' /\ [Kept]_poolVars
    BY <2>1, <2>6, MoveStep
  <2>7. ASSUME NEW p \in DOMAIN pUsed, NEW n \in Asks, Pool!Spill(p, n)
        PROVE  PoolInv' /\ [Kept]_poolVars
    BY <2>1, <2>7, SpillStep
  <2>8. ASSUME (\E n \in Asks : Pool!Refused(n)) \/ Pool!Undefined PROVE UNCHANGED poolVars
    BY <2>8 DEF Pool!Refused, Pool!Undefined, Pool!vars, poolVars
  <2> QED
    BY <1>1, <1>2, <2>2, <2>3, <2>4, <2>5, <2>6, <2>7, <2>8 DEF Pool!Next
<1> QED
  BY <1>1, <1>2 DEF MCNext, mcVars, CallQueue, CallArray, CallObject, MakeValues, UsePool

-----------------------------------------------------------------------------
(***************************************************************************)
(* What the invariant of the pool allocator says of its chunks             *)
(***************************************************************************)

\* Every chunk is a chunk, and two of them never hold the same address.
LEMMA ChunksAre ==
    ASSUME PoolInv
    PROVE  /\ \A c \in Pool!Chunks : c.at \in Nat /\ c.size \in Nat /\ IsChunk(Lo, Hi, c.at, c.size)
           /\ \A a \in Int : InUsed(pUsed, a) \/ InList(pFreeList, a)
                             => \E c \in Pool!Chunks : Holds(c.at, c.size, a)
           /\ \A a \in Int, c, d \in Pool!Chunks :
                 Holds(c.at, c.size, a) /\ Holds(d.at, d.size, a) => c = d
<1> DEFINE Used == {[at |-> p, size |-> pUsed[p]] : p \in DOMAIN pUsed}
           Listed == {pFreeList[j] : j \in DOMAIN pFreeList}
<1>1. Pool!Chunks = Used \cup Listed
  BY DEF Pool!Chunks, Pool!Range
<1>2. Parts(Lo, Hi, pUsed, pFreeList) /\ Rising(Lo, Hi, pFreeList)
  BY OwnersAre DEF Parts, FreeList
<1>3. /\ Len(pFreeList) \in Nat /\ DOMAIN pFreeList = 1 .. Len(pFreeList)
      /\ \A j \in DOMAIN pFreeList : /\ pFreeList[j].at \in Nat /\ pFreeList[j].size \in Nat
                                     /\ IsChunk(Lo, Hi, pFreeList[j].at, pFreeList[j].size)
  <2>1. DOMAIN pFreeList = 1 .. Len(pFreeList)
    BY <1>2, InOrder
  <2> QED
    BY <1>2, <2>1, InOrder
<1>4. ASSUME NEW c \in Used
      PROVE  \E p \in DOMAIN pUsed : c = [at |-> p, size |-> pUsed[p]] /\ c.at = p /\ c.size = pUsed[p]
  BY <1>4
<1>5. \A p \in DOMAIN pUsed : [at |-> p, size |-> pUsed[p]] \in Used
  OBVIOUS
<1> HIDE DEF Used
<1>6. ASSUME NEW c \in Used
      PROVE  /\ c.at \in Nat /\ c.size \in Nat /\ IsChunk(Lo, Hi, c.at, c.size)
             /\ \A a \in Int : Holds(c.at, c.size, a) => InUsed(pUsed, a)
  <2>1. PICK p \in DOMAIN pUsed : c.at = p /\ c.size = pUsed[p]
    BY <1>4, Zenon
  <2>2. IsChunk(Lo, Hi, p, pUsed[p])
    BY <1>2 DEF Parts
  <2> QED
    BY <2>1, <2>2 DEF IsChunk, InUnits, InUsed
<1>7. ASSUME NEW c \in Listed
      PROVE  /\ c.at \in Nat /\ c.size \in Nat /\ IsChunk(Lo, Hi, c.at, c.size)
             /\ \A a \in Int : Holds(c.at, c.size, a) => InList(pFreeList, a)
  BY <1>3 DEF InList
<1>8. ASSUME NEW a \in Int, InUsed(pUsed, a) \/ InList(pFreeList, a)
      PROVE  \E c \in Pool!Chunks : Holds(c.at, c.size, a)
  <2>1. ASSUME NEW p \in DOMAIN pUsed, Holds(p, pUsed[p], a)
        PROVE  \E c \in Used : Holds(c.at, c.size, a)
    <3> DEFINE c == [at |-> p, size |-> pUsed[p]]
    <3>1. c \in Used /\ c.at = p /\ c.size = pUsed[p]
      BY <1>5
    <3> HIDE DEF c
    <3> QED
      BY <2>1, <3>1
  <2>2. InList(pFreeList, a) => \E c \in Listed : Holds(c.at, c.size, a)
    BY DEF InList
  <2> QED
    BY <1>1, <1>8, <2>1, <2>2 DEF InUsed
<1>9. ASSUME NEW a \in Int, NEW c \in Pool!Chunks, NEW d \in Pool!Chunks,
             Holds(c.at, c.size, a), Holds(d.at, d.size, a)
      PROVE  c = d
  <2>1. CASE c \in Used /\ d \in Used
    <3>1. PICK p \in DOMAIN pUsed : c = [at |-> p, size |-> pUsed[p]] /\ c.at = p /\ c.size = pUsed[p]
      BY <1>4, <2>1
    <3>2. PICK q \in DOMAIN pUsed : d = [at |-> q, size |-> pUsed[q]] /\ d.at = q /\ d.size = pUsed[q]
      BY <1>4, <2>1
    <3>3. Holds(p, pUsed[p], a) /\ Holds(q, pUsed[q], a)
      BY <1>9, <3>1, <3>2, Zenon
    <3>4. p = q
      BY <1>2, <3>3, Zenon DEF Parts
    <3> QED
      BY <3>1, <3>2, <3>4
  <2>2. CASE c \in Listed /\ d \in Listed
    <3>1. PICK j \in DOMAIN pFreeList : c = pFreeList[j]
      BY <2>2
    <3>2. PICK k \in DOMAIN pFreeList : d = pFreeList[k]
      BY <2>2
    <3>3. j = k
      <4>1. ~(Holds(pFreeList[j].at, pFreeList[j].size, a) /\ Others(pFreeList, j, a))
        BY <1>2, OneOf
      <4>2. k # j => Others(pFreeList, j, a)
        BY <1>9, <3>2 DEF Others
      <4> QED
        BY <1>9, <3>1, <4>1, <4>2
    <3> QED
      BY <3>1, <3>2, <3>3
  <2>3. ~(InUsed(pUsed, a) /\ InList(pFreeList, a))
    BY <1>2 DEF Parts
  <2> QED
    BY <1>1, <1>6, <1>7, <1>9, <2>1, <2>2, <2>3
<1> QED
  BY <1>1, <1>6, <1>7, <1>8, <1>9

\* The chunks tile the pool, merged and aligned.
LEMMA PoolIsApart ==
    ASSUME PoolInv
    PROVE  Tiled /\ FreeMerged /\ Aligned /\ LittleSlack /\ SpillsOneHeader
<1>1. /\ \A c \in Pool!Chunks : c.at \in Nat /\ c.size \in Nat /\ IsChunk(Lo, Hi, c.at, c.size)
      /\ \A a \in Int : InUsed(pUsed, a) \/ InList(pFreeList, a)
                        => \E c \in Pool!Chunks : Holds(c.at, c.size, a)
      /\ \A a \in Int, c, d \in Pool!Chunks :
            Holds(c.at, c.size, a) /\ Holds(d.at, d.size, a) => c = d
  BY ChunksAre
<1>2. Lo \in Int /\ Hi \in Int /\ Parts(Lo, Hi, pUsed, pFreeList)
  BY OwnersAre
<1>3. Aligned
  BY <1>1 DEF Aligned, Pool!Aligned, IsChunk, InUnits
<1>4. FreeMerged
  <2>1. FreeList(Lo, Hi, pFreeList)
    BY <1>2 DEF Parts
  <2>2. DOMAIN pFreeList = 1 .. Len(pFreeList) /\ Len(pFreeList) \in Nat
    BY <2>1, InOrder DEF FreeList
  <2>3. ASSUME NEW i \in 1 .. Len(pFreeList) - 1
        PROVE  pFreeList[i].at + pFreeList[i].size < pFreeList[i + 1].at
    <3>1. i \in DOMAIN pFreeList /\ i < Len(pFreeList)
      BY <2>2
    <3> QED
      BY <2>1, <3>1 DEF FreeList, Gap
  <2> QED
    BY <2>3 DEF FreeMerged, Pool!FreeMerged, Pool!End
<1>5. ASSUME NEW a \in Lo .. Hi - 1
      PROVE  \E c \in Pool!Chunks : \A d \in Pool!Chunks : d.at <= a /\ a < Pool!End(d) <=> d = c
  <2>1. a \in Int /\ \E c \in Pool!Chunks : Holds(c.at, c.size, a)
    BY <1>1, <1>2 DEF Parts
  <2>2. PICK c \in Pool!Chunks : Holds(c.at, c.size, a)
    BY <2>1
  <2>3. \A d \in Pool!Chunks : Holds(d.at, d.size, a) <=> d = c
    BY <1>1, <2>1, <2>2, Zenon
  <2> QED
    BY <2>3 DEF Holds, Pool!End
<1>6. \A c \in Pool!Chunks : c.at >= Lo /\ Pool!End(c) <= Hi
  BY <1>1, <1>2 DEF IsChunk, Pool!End
<1>7. Tiled
  BY <1>5, <1>6 DEF Tiled, Pool!Tiled, Lo, Hi, PoolInv, PoolTypes
<1>8. LittleSlack
  BY OwnersAre DEF LittleSlack, Pool!LittleSlack, Owned
<1>9. SpillsOneHeader
  BY DEF SpillsOneHeader, PoolInv
<1> QED
  BY <1>3, <1>4, <1>7, <1>8, <1>9

-----------------------------------------------------------------------------
(***************************************************************************)
(* The pool of a document: its blocks lie one behind the other             *)
(***************************************************************************)

Block == [chunk : Nat, from : Nat, to : Nat]

\* The next chunk can hold something; the newest one is described by cur and end.
ValuesInv ==
    /\ vChunkSize \in Nat /\ vChunkSize > CHUNK_HEADER
    /\ vChunks \in Seq(Nat) /\ vBlocks \in Seq(Block) /\ vCur \in Nat /\ vEnd \in Nat
    /\ IF vChunks = << >> THEN vEnd = 0 ELSE vCur >= CHUNK_HEADER
    /\ BlocksInside /\ BlocksDisjoint

\* The assumptions on the sizes
LEMMA SizesAre ==
    /\ CHUNK_HEADER \in Nat /\ CHUNK_HEADER > 0 /\ INIT_SIZE \in Nat /\ CHUNK_HEADER < INIT_SIZE
    /\ MAX_SIZE \in Nat /\ CHUNK_HEADER < MAX_SIZE /\ SIZE_LIMIT \in Nat /\ MAX_SIZE < SIZE_LIMIT
BY ValuesAssumption DEF Vals!SizesAssumption

\* What the doubling makes of the size of a chunk
LEMMA NextIs ==
    ASSUME vChunkSize \in Nat, vChunkSize > CHUNK_HEADER
    PROVE  /\ Vals!NextChunkSize \in Nat /\ Vals!NextChunkSize > CHUNK_HEADER
           /\ Vals!NextChunkSize <= MAX_SIZE
           /\ Vals!NextChunkSize < vChunkSize => vChunkSize > MAX_SIZE
<1> DEFINE twice == Vals!Doubled
           size == Vals!LesserOf(twice, MAX_SIZE)
<1>1. twice \in Nat
  <2>1. ASSUME NEW x \in Nat, NEW y \in Nat, y > 0 PROVE x % y \in Nat
    BY <2>1
  <2>2. 2 * vChunkSize \in Nat /\ SIZE_LIMIT > 0
    BY SizesAre
  <2> QED
    BY <2>1, <2>2, SizesAre DEF Vals!Doubled
<1> HIDE DEF twice
<1>2. size \in Nat /\ size <= MAX_SIZE
  BY <1>1, SizesAre DEF Vals!LesserOf
<1>3. Vals!NextChunkSize = IF size < vChunkSize THEN MAX_SIZE ELSE size
  BY DEF Vals!NextChunkSize, twice
<1> HIDE DEF size
<1> QED
  BY <1>2, <1>3, SizesAre

\* Where the next block begins: in the newest chunk, which may be a new one.
Place(chunk, from, n) ==
    /\ chunk \in Nat /\ chunk > 0 /\ from \in Nat /\ from >= CHUNK_HEADER
    /\ vChunks' \in Seq(Nat) /\ Len(vChunks') = chunk /\ Len(vChunks) <= chunk
    /\ \A k \in DOMAIN vChunks : vChunks'[k] = vChunks[k]
    /\ vEnd' = vChunks'[chunk] /\ from + n <= vEnd'
    /\ Len(vChunks) < chunk \/ from = vCur

\* One block more, behind everything that its chunk holds
LEMMA BlocksAfter ==
    ASSUME ValuesInv, NEW n \in Nat \ {0}, NEW chunk, NEW from, Place(chunk, from, n),
           Vals!Serve(chunk, from, n)
    PROVE  /\ vBlocks' \in Seq(Block) /\ vCur' \in Nat /\ vCur' >= CHUNK_HEADER
           /\ BlocksInside' /\ BlocksDisjoint'
<1> DEFINE m == Len(vBlocks)
           old == Len(vChunks)
           room == vChunks'[chunk]
           b == [chunk |-> chunk, from |-> from, to |-> from + n]
<1>1. /\ vBlocks \in Seq(Block) /\ vChunks \in Seq(Nat) /\ BlocksInside /\ BlocksDisjoint
  BY DEF ValuesInv
<1>2. /\ chunk \in Nat /\ chunk > 0 /\ from \in Nat /\ from >= CHUNK_HEADER
      /\ vChunks' \in Seq(Nat) /\ Len(vChunks') = chunk /\ old <= chunk
      /\ \A k \in DOMAIN vChunks : vChunks'[k] = vChunks[k]
      /\ vEnd' = room /\ from + n <= vEnd'
      /\ old < chunk \/ from = vCur
  BY Zenon DEF Place
<1>3. /\ m \in Nat /\ DOMAIN vBlocks = 1 .. m /\ \A i \in 1 .. m : vBlocks[i] \in Block
      /\ old \in Nat /\ DOMAIN vChunks = 1 .. old
  BY <1>1
<1>4. DOMAIN vChunks' = 1 .. Len(vChunks')
  <2>1. vChunks' \in Seq(Nat)
    BY <1>2
  <2> QED
    BY <2>1
<1>5. DOMAIN vChunks' = 1 .. chunk /\ \A k \in 1 .. old : vChunks'[k] = vChunks[k]
  BY <1>2, <1>3, <1>4, Zenon
<1>6. ASSUME NEW i \in 1 .. m
      PROVE  /\ vBlocks[i].chunk \in 1 .. old
             /\ CHUNK_HEADER <= vBlocks[i].from /\ vBlocks[i].from < vBlocks[i].to
             /\ vBlocks[i].to <= vChunks[vBlocks[i].chunk]
             /\ vBlocks[i].chunk # old \/ vBlocks[i].to <= vCur
  BY <1>1, <1>3 DEF BlocksInside, Vals!BlocksInside
<1>7. \A i, j \in 1 .. m :
         i < j /\ vBlocks[i].chunk = vBlocks[j].chunk => vBlocks[i].to <= vBlocks[j].from
  BY <1>1, <1>3 DEF BlocksDisjoint, Vals!BlocksDisjoint
<1>8. vBlocks' = Append(vBlocks, b) /\ vCur' = from + n
  BY DEF Vals!Serve
<1>9. b \in Block /\ b.chunk = chunk /\ b.from = from /\ b.to = from + n
  <2>1. from + n \in Nat
    BY <1>2
  <2> QED
    BY <1>2, <2>1 DEF Block
<1> HIDE DEF b
<1>10. vBlocks' \in Seq(Block) /\ DOMAIN vBlocks' = 1 .. m + 1
  BY <1>1, <1>8, <1>9
<1>11. \A i \in 1 .. m : vBlocks'[i] = vBlocks[i]
  BY <1>1, <1>8, <1>9
<1>12. vBlocks'[m + 1] = b
  BY <1>1, <1>8, <1>9
<1> HIDE DEF m, old, room
<1>13. CHUNK_HEADER \in Nat
  BY SizesAre
<1>14. ASSUME NEW i \in 1 .. m
      PROVE  /\ vBlocks[i].to \in Nat /\ vBlocks[i].from \in Nat /\ vBlocks[i].chunk \in Nat
             /\ vBlocks[i].chunk = chunk => vBlocks[i].to <= from
  <2>1. /\ vBlocks[i].to \in Nat /\ vBlocks[i].from \in Nat /\ vBlocks[i].chunk \in Nat
    BY <1>3 DEF Block
  <2>2. ASSUME vBlocks[i].chunk = chunk PROVE vBlocks[i].to <= from
    <3>1. chunk \in 1 .. old
      BY <1>6, <2>2, Zenon
    <3>2. ~(old < chunk) /\ chunk = old
      <4>1. chunk \in Nat /\ old \in Nat /\ old <= chunk
        BY <1>2, <1>3, Zenon
      <4> QED
        BY <3>1, <4>1
    <3>3. from = vCur
      BY <1>2, <3>2, Zenon
    <3>4. vBlocks[i].to <= vCur
      BY <1>6, <2>2, <3>2, Zenon
    <3> QED
      BY <3>3, <3>4, Zenon
  <2> QED
    BY <2>1, <2>2
<1>15. from \in Nat /\ n \in Nat /\ n > 0 /\ from < from + n
  <2>1. from \in Nat
    BY <1>2, Zenon
  <2> QED
    BY <2>1
<1>16. ASSUME NEW i \in 1 .. m + 1
       PROVE  /\ vBlocks'[i].chunk \in 1 .. chunk
              /\ CHUNK_HEADER <= vBlocks'[i].from /\ vBlocks'[i].from < vBlocks'[i].to
              /\ vBlocks'[i].to <= vChunks'[vBlocks'[i].chunk]
              /\ vBlocks'[i].chunk = chunk => vBlocks'[i].to <= vCur'
  <2>1. CASE i \in 1 .. m
    <3>1. vBlocks[i].chunk \in 1 .. old /\ vBlocks'[i] = vBlocks[i]
      BY <1>6, <1>11, <2>1, Zenon
    <3>2. vBlocks[i].chunk \in 1 .. chunk
      <4>1. chunk \in Nat /\ old \in Nat /\ old <= chunk
        BY <1>2, <1>3, Zenon
      <4> QED
        BY <3>1, <4>1
    <3>3. vChunks'[vBlocks[i].chunk] = vChunks[vBlocks[i].chunk]
      BY <1>5, <3>1, Zenon
    <3>4. ASSUME vBlocks[i].chunk = chunk PROVE vBlocks[i].to <= vCur'
      <4>1. vBlocks[i].to \in Nat /\ vBlocks[i].to <= from
        BY <1>14, <2>1, <3>4, Zenon
      <4>2. vBlocks[i].to <= from + n
        BY <1>15, <4>1
      <4> QED
        BY <1>8, <4>2, Zenon
    <3> QED
      BY <1>6, <2>1, <3>1, <3>2, <3>3, <3>4, Zenon
  <2>2. CASE i = m + 1
    <3>1. vBlocks'[i] = b
      BY <1>12, <2>2, Zenon
    <3>2. chunk \in 1 .. chunk
      <4>1. chunk \in Nat /\ chunk > 0
        BY <1>2, Zenon
      <4> QED
        BY <4>1
    <3>3. from >= CHUNK_HEADER
      BY <1>2, Zenon
    <3>4. CHUNK_HEADER <= from /\ from + n <= from + n
      BY <1>13, <1>15, <3>3
    <3>5. from + n <= vChunks'[chunk]
      BY <1>2, Zenon DEF room
    <3> QED
      BY <1>8, <1>9, <1>15, <3>1, <3>2, <3>4, <3>5, Zenon
  <2>3. i \in 1 .. m \/ i = m + 1
    BY <1>3
  <2> QED
    BY <2>1, <2>2, <2>3, Zenon
<1>17. ASSUME NEW i \in 1 .. m + 1, NEW j \in 1 .. m + 1, i < j,
              vBlocks'[i].chunk = vBlocks'[j].chunk
       PROVE  vBlocks'[i].to <= vBlocks'[j].from
  <2>1. i \in 1 .. m /\ (j \in 1 .. m \/ j = m + 1)
    BY <1>3, <1>17
  <2>2. vBlocks'[i] = vBlocks[i]
    BY <1>11, <2>1, Zenon
  <2>3. CASE j = m + 1
    <3>1. vBlocks'[j] = b
      BY <1>12, <2>3, Zenon
    <3>2. vBlocks'[j].chunk = chunk /\ vBlocks'[j].from = from
      BY <1>9, <3>1, Zenon
    <3> QED
      BY <1>14, <1>17, <2>1, <2>2, <3>2, Zenon
  <2>4. CASE j \in 1 .. m
    <3>1. vBlocks'[j] = vBlocks[j]
      BY <1>11, <2>4, Zenon
    <3> QED
      BY <1>7, <1>17, <2>1, <2>2, <2>4, <3>1, Zenon
  <2> QED
    BY <2>1, <2>3, <2>4, Zenon
<1>18. vCur' \in Nat /\ vCur' >= CHUNK_HEADER
  <2>1. from >= CHUNK_HEADER
    BY <1>2, Zenon
  <2>2. from + n \in Nat /\ from + n >= CHUNK_HEADER
    BY <1>13, <1>15, <2>1
  <2> QED
    BY <1>8, <2>2, Zenon
<1>19. vCur' <= vEnd' /\ vEnd' = vChunks'[Len(vChunks')]
  BY <1>8, <1>2, Zenon DEF room
<1>20. BlocksInside'
  <2>1. /\ DOMAIN vBlocks' = 1 .. m + 1 /\ DOMAIN vChunks' = 1 .. chunk /\ Len(vChunks') = chunk
    BY <1>10, <1>5, <1>2, Zenon
  <2> QED
    BY <1>16, <1>19, <2>1, Zenon DEF BlocksInside, Vals!BlocksInside
<1>21. BlocksDisjoint'
  BY <1>10, <1>17, Zenon DEF BlocksDisjoint, Vals!BlocksDisjoint
<1> QED
  BY <1>10, <1>18, <1>20, <1>21, Zenon

\* The step of SizesGrow
Grown ==
    vChunks' # vChunks => /\ vChunkSize' > CHUNK_HEADER
                          /\ vChunkSize' <= MAX_SIZE
                          /\ vChunkSize' < vChunkSize => vChunkSize > MAX_SIZE

\* Every step keeps the blocks apart and the next chunk large enough.
LEMMA ValuesStep ==
    ASSUME ValuesInv, [MCNext]_mcVars
    PROVE  ValuesInv' /\ Grown
<1> USE DEF Grown
<1>1. ASSUME UNCHANGED <<vChunkSize, vChunks, vCur, vEnd, vBlocks>> PROVE ValuesInv' /\ Grown
  BY <1>1 DEF ValuesInv, BlocksInside, BlocksDisjoint, Vals!BlocksInside, Vals!BlocksDisjoint
<1>2. ASSUME NEW n \in Vals!Size \ {0}, Vals!SetPoolSize(n) PROVE ValuesInv' /\ Grown
  <2>1. vChunkSize' = n + CHUNK_HEADER /\ UNCHANGED <<vChunks, vCur, vEnd, vBlocks>>
    BY <1>2 DEF Vals!SetPoolSize
  <2>2. vChunkSize' \in Nat /\ vChunkSize' > CHUNK_HEADER
    BY <2>1, SizesAre DEF Vals!Size
  <2> QED
    BY <2>1, <2>2 DEF ValuesInv, BlocksInside, BlocksDisjoint, Vals!BlocksInside, Vals!BlocksDisjoint
<1>3. ASSUME NEW n \in Vals!Size \ {0}, Vals!Allocate(n) PROVE ValuesInv' /\ Grown
  <2>1. /\ vEnd - vCur >= n /\ Vals!Serve(Len(vChunks), vCur, n)
        /\ UNCHANGED <<vChunkSize, vChunks, vEnd>>
    BY <1>3 DEF Vals!Allocate
  <2>2. n \in Nat \ {0} /\ vCur \in Nat /\ vEnd \in Nat
    BY SizesAre DEF Vals!Size, ValuesInv
  <2>3. vChunks # << >> /\ vCur >= CHUNK_HEADER
    BY <2>1, <2>2 DEF ValuesInv
  <2>4. vChunks \in Seq(Nat) /\ Len(vChunks) \in Nat /\ Len(vChunks) > 0 /\ vEnd = vChunks[Len(vChunks)]
    BY <2>3 DEF ValuesInv, BlocksInside, Vals!BlocksInside
  <2>5. vCur + n <= vEnd
    BY <2>1, <2>2
  <2>6. Place(Len(vChunks), vCur, n)
    BY <2>1, <2>2, <2>3, <2>4, <2>5 DEF Place
  <2>7. /\ vBlocks' \in Seq(Block) /\ vCur' \in Nat /\ vCur' >= CHUNK_HEADER
        /\ BlocksInside' /\ BlocksDisjoint'
    BY <2>1, <2>2, <2>6, BlocksAfter
  <2> QED
    BY <2>1, <2>2, <2>3, <2>7 DEF ValuesInv
<1>4. ASSUME NEW n \in Vals!Size \ {0}, Vals!Grow(n) PROVE ValuesInv' /\ Grown
  <2> DEFINE size == Vals!ChunkFor(n)
             chunk == Len(vChunks) + 1
  <2>1. /\ vChunks' = Append(vChunks, size) /\ vEnd' = size /\ Vals!Serve(chunk, CHUNK_HEADER, n)
        /\ vChunkSize' = Vals!NextChunkSize
    BY <1>4 DEF Vals!Grow
  <2>2. /\ n \in Nat \ {0} /\ vChunkSize \in Nat /\ vChunkSize > CHUNK_HEADER
        /\ vChunks \in Seq(Nat) /\ Len(vChunks) \in Nat /\ DOMAIN vChunks = 1 .. Len(vChunks)
    BY SizesAre DEF Vals!Size, ValuesInv
  <2>3. size \in Nat /\ CHUNK_HEADER + n <= size
    BY <2>2, SizesAre DEF Vals!ChunkFor
  <2> HIDE DEF size
  <2>4. /\ vChunks' \in Seq(Nat) /\ vChunks' # << >> /\ vEnd' \in Nat /\ Place(chunk, CHUNK_HEADER, n)
    <3> DEFINE old == Len(vChunks)
    <3>1. chunk \in Nat /\ chunk > 0 /\ old < chunk /\ old <= chunk /\ chunk = old + 1
      BY <2>2
    <3>2. /\ vChunks' \in Seq(Nat) /\ Len(vChunks') = old + 1
          /\ \A k \in DOMAIN vChunks : vChunks'[k] = vChunks[k]
          /\ vChunks'[old + 1] = size /\ vChunks' # << >>
      BY <2>1, <2>2, <2>3
    <3>3. CHUNK_HEADER >= CHUNK_HEADER /\ CHUNK_HEADER \in Nat
      BY SizesAre
    <3> HIDE DEF chunk, old
    <3>4. Len(vChunks') = chunk /\ vChunks'[chunk] = size
      BY <3>1, <3>2, Zenon
    <3> QED
      BY <2>1, <2>3, <3>1, <3>2, <3>3, <3>4, Zenon DEF Place, old
  <2> HIDE DEF chunk
  <2>5. /\ vBlocks' \in Seq(Block) /\ vCur' \in Nat /\ vCur' >= CHUNK_HEADER
        /\ BlocksInside' /\ BlocksDisjoint'
    BY <2>1, <2>2, <2>4, BlocksAfter
  <2>6. /\ vChunkSize' \in Nat /\ vChunkSize' > CHUNK_HEADER /\ vChunkSize' <= MAX_SIZE
        /\ vChunkSize' < vChunkSize => vChunkSize > MAX_SIZE
    BY <2>1, <2>2, NextIs
  <2> QED
    BY <2>4, <2>5, <2>6 DEF ValuesInv
<1>5. ASSUME Vals!Next PROVE ValuesInv' /\ Grown
  <2>1. ASSUME NEW n \in Vals!Size \ {0}, Vals!GrowFails(n) PROVE ValuesInv' /\ Grown
    BY <1>1, <2>1 DEF Vals!GrowFails, Vals!vars
  <2>2. ASSUME Vals!Release \/ Vals!Freed \/ UNCHANGED Vals!vars PROVE ValuesInv' /\ Grown
    BY <1>1, <2>2 DEF Vals!Release, Vals!Freed, Vals!vars
  <2> QED
    BY <1>2, <1>3, <1>4, <1>5, <2>1, <2>2 DEF Vals!Next
<1>6. ASSUME UNCHANGED valuesVars PROVE ValuesInv' /\ Grown
  BY <1>1, <1>6 DEF valuesVars
<1> QED
  BY <1>5, <1>6 DEF MCNext, mcVars, CallQueue, CallArray, CallObject, MakeValues, UsePool

-----------------------------------------------------------------------------
(***************************************************************************)
(* The results                                                             *)
(***************************************************************************)

\* What holds of both allocators in every state
MemoryInv == PoolInv /\ ValuesInv

\* The invariant holds at the start and is kept by every call.
LEMMA MemoryInvHolds == MCSpec => []MemoryInv
<1>1. MCInit => MemoryInv
  <2>1. ASSUME Vals!Init PROVE ValuesInv
    BY <2>1, SizesAre
    DEF Vals!Init, ValuesInv, BlocksInside, BlocksDisjoint, Vals!BlocksInside, Vals!BlocksDisjoint
  <2> QED
    BY <2>1, PoolStarts DEF MCInit, MemoryInv
<1>2. MemoryInv /\ [MCNext]_mcVars => MemoryInv'
  BY PoolStep, ValuesStep DEF MemoryInv
<1> QED
  BY <1>1, <1>2, PTL DEF MCSpec

\* No unit of memory has two users, and none is lost, for every size of buffer, chunk and
\* header and every sequence of calls (pool_malloc, pool_free, pool_realloc,
\* yyjson_alc_pool_init; unsafe_yyjson_val_pool_grow, unsafe_yyjson_str_pool_grow), as far as
\* the allocators' own bookkeeping goes.  Where pool_realloc copies beyond its new chunk,
\* which CopiesStay says it never does, one header is what it overwrites.
THEOREM MemoryIsApartHolds == MCSpec => []MemoryIsApart
<1>1. MemoryInv => MemoryIsApart
  BY PoolIsApart DEF MemoryInv, ValuesInv, MemoryIsApart
<1> QED
  BY <1>1, MemoryInvHolds, PTL

\* Both allocators keep what they promise.  Every call of the pool allocator is served with
\* room that nobody has, but for the call of pool_realloc whose memcpy leaves the new chunk
\* (yyjson.c:1154) and what follows it, which nothing is said of.  The next chunk of a
\* document's pool can always hold something, also where the doubling of its size wraps.
THEOREM AllocatorsPromiseHolds == MCSpec => AllocatorsPromise
<1>1. MemoryInv /\ [MCNext]_mcVars => [Kept]_poolVars
  BY PoolStep DEF MemoryInv
<1>2. MemoryInv /\ [MCNext]_mcVars => [Grown]_valuesVars
  BY ValuesStep DEF MemoryInv
<1>3. MCSpec => [][Kept]_poolVars
  BY <1>1, MemoryInvHolds, PTL DEF MCSpec
<1>4. MCSpec => [][Grown]_valuesVars
  BY <1>2, MemoryInvHolds, PTL DEF MCSpec
<1>5. [][Kept]_poolVars => KeepsPromise
  BY PTL DEF KeepsPromise, Pool!KeepsPromise, Pool!vars, poolVars, Kept
<1>6. [][Grown]_valuesVars => SizesGrow
  BY PTL DEF SizesGrow, Vals!SizesGrow, Vals!vars, valuesVars, Grown
<1> QED
  BY <1>3, <1>4, <1>5, <1>6, PTL DEF AllocatorsPromise

=============================================================================
