-------------------------- MODULE JsonStringProofs --------------------------
(***************************************************************************)
(* What read_string and write_string never do, for all texts and strings:  *)
(* unescaping in place never changes a byte that is still to be read, what *)
(* is written fits in six bytes for each byte, and without the flags for   *)
(* invalid bytes only well-formed UTF-8 is read and written, but for the   *)
(* strings that are written unseen.                                        *)
(***************************************************************************)
EXTENDS JsonString, SequenceTheorems, WellFoundedInduction, TLAPS

-----------------------------------------------------------------------------
(***************************************************************************)
(* Bytes and characters                                                    *)
(***************************************************************************)

\* A set of natural numbers has a least element.
LEMMA LeastExists ==
    ASSUME NEW S, S \subseteq Nat, S # {}
    PROVE  \E x \in S : \A y \in S : x <= y
<1> DEFINE Before == {p \in Nat \X Nat : p[1] < p[2]}
<1>1. IsWellFoundedOn(Before, Nat)
  BY NatLessThanWellFounded DEF OpToRel
<1> HIDE DEF Before
<1>2. PICK x \in S : \A y \in S : ~(<<y, x>> \in Before)
  BY <1>1, WFMin, Zenon
<1>3. ASSUME NEW y \in S PROVE x <= y
  <2>1. x \in Nat /\ y \in Nat /\ <<y, x>> \notin Before
    BY <1>2
  <2>2. ~(y < x)
    BY <2>1 DEF Before
  <2> QED
    BY <2>1, <2>2
<1> QED
  BY <1>3

\* A byte is a number.
LEMMA ByteIs ==
    ASSUME NEW x \in Byte
    PROVE  x \in Nat /\ (x < 128 => x \in 0 .. 127)
BY SMT DEF Byte

\* A sequence of some bytes
LEMMA SomeBytes ==
    ASSUME NEW S, NEW s \in Seq(S), S \subseteq Byte
    PROVE  s \in Seq(Byte) /\ Len(s) \in Nat /\ \A i \in 1 .. Len(s) : s[i] \in S
<1>1. Len(s) \in Nat /\ s \in [1 .. Len(s) -> S]
  OBVIOUS
<1>2. s \in [1 .. Len(s) -> Byte]
  BY <1>1
<1>3. s \in Seq(Byte)
  BY <1>1, <1>2
<1> QED
  BY <1>1, <1>3

\* A well-formed character of n bytes begins at i: the rows of WellFormedRows, written out.
Trail == 128 .. 191
CharAt(s, i, n) ==
    \/ n = 1 /\ s[i] \in 0 .. 127
    \/ n = 2 /\ s[i] \in 194 .. 223 /\ s[i + 1] \in Trail
    \/ n = 3 /\ s[i] \in {224} /\ s[i + 1] \in 160 .. 191 /\ s[i + 2] \in Trail
    \/ n = 3 /\ s[i] \in (225 .. 239) \ {237} /\ s[i + 1] \in Trail /\ s[i + 2] \in Trail
    \/ n = 3 /\ s[i] \in {237} /\ s[i + 1] \in 128 .. 159 /\ s[i + 2] \in Trail
    \/ n = 4 /\ s[i] \in {240} /\ s[i + 1] \in 144 .. 191 /\ s[i + 2] \in Trail /\ s[i + 3] \in Trail
    \/ n = 4 /\ s[i] \in 241 .. 243 /\ s[i + 1] \in Trail /\ s[i + 2] \in Trail /\ s[i + 3] \in Trail
    \/ n = 4 /\ s[i] \in {244} /\ s[i + 1] \in 128 .. 143 /\ s[i + 2] \in Trail /\ s[i + 3] \in Trail

\* What a row of the standard says of the bytes that begin at i
OnRow(s, i, r) == \A k \in DOMAIN r : s[i + k - 1] \in r[k]

\* A row of one set of bytes
LEMMA RowOf1 ==
    ASSUME NEW s, NEW i \in Nat, NEW a
    PROVE  Len(<<a>>) = 1 /\ (OnRow(s, i, <<a>>) <=> s[i] \in a)
<1>1. i + 1 - 1 = i /\ 1 .. 1 = {1}
  OBVIOUS
<1> QED
  BY <1>1 DEF OnRow

\* A row of two
LEMMA RowOf2 ==
    ASSUME NEW s, NEW i \in Nat, NEW a, NEW b
    PROVE  Len(<<a, b>>) = 2 /\ (OnRow(s, i, <<a, b>>) <=> s[i] \in a /\ s[i + 1] \in b)
<1>1. i + 1 - 1 = i /\ i + 2 - 1 = i + 1 /\ 1 .. 2 = {1, 2}
  OBVIOUS
<1> QED
  BY <1>1 DEF OnRow

\* A row of three
LEMMA RowOf3 ==
    ASSUME NEW s, NEW i \in Nat, NEW a, NEW b, NEW c
    PROVE  /\ Len(<<a, b, c>>) = 3
           /\ OnRow(s, i, <<a, b, c>>) <=> s[i] \in a /\ s[i + 1] \in b /\ s[i + 2] \in c
<1>1. i + 1 - 1 = i /\ i + 2 - 1 = i + 1 /\ i + 3 - 1 = i + 2 /\ 1 .. 3 = {1, 2, 3}
  OBVIOUS
<1> QED
  BY <1>1 DEF OnRow

\* A row of four
LEMMA RowOf4 ==
    ASSUME NEW s, NEW i \in Nat, NEW a, NEW b, NEW c, NEW d
    PROVE  /\ Len(<<a, b, c, d>>) = 4
           /\ OnRow(s, i, <<a, b, c, d>>)
              <=> s[i] \in a /\ s[i + 1] \in b /\ s[i + 2] \in c /\ s[i + 3] \in d
<1>1. /\ i + 1 - 1 = i /\ i + 2 - 1 = i + 1 /\ i + 3 - 1 = i + 2 /\ i + 4 - 1 = i + 3
      /\ 1 .. 4 = {1, 2, 3, 4}
  OBVIOUS
<1> QED
  BY <1>1 DEF OnRow

\* The characters that begin at i are those of the rows that still fit.
LEMMA CharsAre ==
    ASSUME NEW s, NEW i \in Nat, Len(s) \in Nat
    PROVE  /\ CharsAt(s, i) \subseteq 1 .. 4
           /\ \A n \in 1 .. 4 : n \in CharsAt(s, i) <=> i + n - 1 <= Len(s) /\ CharAt(s, i, n)
<1> DEFINE x1 == 0 .. 127
           x2 == 194 .. 223
           x3 == {224}
           y3 == 160 .. 191
           x4 == (225 .. 239) \ {237}
           x5 == {237}
           y5 == 128 .. 159
           x6 == {240}
           y6 == 144 .. 191
           x7 == 241 .. 243
           x8 == {244}
           y8 == 128 .. 143
<1>1. CharsAt(s, i) = {Len(row) : row \in {r \in WellFormedRows : i + Len(r) - 1 <= Len(s)
                                                                 /\ OnRow(s, i, r)}}
  BY Zenon DEF CharsAt, OnRow
<1>2. WellFormedRows =
        {<<x1>>, <<x2, Trail>>, <<x3, y3, Trail>>, <<x4, Trail, Trail>>, <<x5, y5, Trail>>,
         <<x6, y6, Trail, Trail>>, <<x7, Trail, Trail, Trail>>, <<x8, y8, Trail, Trail>>}
  BY Zenon DEF WellFormedRows, Trail
<1>3. ASSUME NEW n
      PROVE  CharAt(s, i, n) <=>
                \/ n = 1 /\ s[i] \in x1
                \/ n = 2 /\ s[i] \in x2 /\ s[i + 1] \in Trail
                \/ n = 3 /\ s[i] \in x3 /\ s[i + 1] \in y3 /\ s[i + 2] \in Trail
                \/ n = 3 /\ s[i] \in x4 /\ s[i + 1] \in Trail /\ s[i + 2] \in Trail
                \/ n = 3 /\ s[i] \in x5 /\ s[i + 1] \in y5 /\ s[i + 2] \in Trail
                \/ n = 4 /\ s[i] \in x6 /\ s[i + 1] \in y6 /\ s[i + 2] \in Trail /\ s[i + 3] \in Trail
                \/ n = 4 /\ s[i] \in x7 /\ s[i + 1] \in Trail /\ s[i + 2] \in Trail /\ s[i + 3] \in Trail
                \/ n = 4 /\ s[i] \in x8 /\ s[i + 1] \in y8 /\ s[i + 2] \in Trail /\ s[i + 3] \in Trail
  BY Zenon DEF CharAt
<1> HIDE DEF x1, x2, x3, y3, x4, x5, y5, x6, y6, x7, x8, y8
<1>4. ASSUME NEW r \in WellFormedRows
      PROVE  Len(r) \in 1 .. 4 /\ (OnRow(s, i, r) => CharAt(s, i, Len(r)))
  <2>0. 1 \in 1 .. 4 /\ 2 \in 1 .. 4 /\ 3 \in 1 .. 4 /\ 4 \in 1 .. 4
    OBVIOUS
  <2>1. CASE r = <<x1>>
    <3>1. Len(r) = 1 /\ (OnRow(s, i, r) <=> s[i] \in x1)
      BY <2>1, RowOf1
    <3> QED
      BY <1>3, <2>0, <3>1, Zenon
  <2>2. CASE r = <<x2, Trail>>
    <3>1. Len(r) = 2 /\ (OnRow(s, i, r) <=> s[i] \in x2 /\ s[i + 1] \in Trail)
      BY <2>2, RowOf2
    <3> QED
      BY <1>3, <2>0, <3>1, Zenon
  <2>3. CASE r = <<x3, y3, Trail>>
    <3>1. Len(r) = 3 /\ (OnRow(s, i, r) <=> s[i] \in x3 /\ s[i + 1] \in y3 /\ s[i + 2] \in Trail)
      BY <2>3, RowOf3
    <3> QED
      BY <1>3, <2>0, <3>1, Zenon
  <2>4. CASE r = <<x4, Trail, Trail>>
    <3>1. Len(r) = 3 /\ (OnRow(s, i, r) <=> s[i] \in x4 /\ s[i + 1] \in Trail /\ s[i + 2] \in Trail)
      BY <2>4, RowOf3
    <3> QED
      BY <1>3, <2>0, <3>1, Zenon
  <2>5. CASE r = <<x5, y5, Trail>>
    <3>1. Len(r) = 3 /\ (OnRow(s, i, r) <=> s[i] \in x5 /\ s[i + 1] \in y5 /\ s[i + 2] \in Trail)
      BY <2>5, RowOf3
    <3> QED
      BY <1>3, <2>0, <3>1, Zenon
  <2>6. CASE r = <<x6, y6, Trail, Trail>>
    <3>1. Len(r) = 4 /\ (OnRow(s, i, r) <=> s[i] \in x6 /\ s[i + 1] \in y6 /\ s[i + 2] \in Trail /\ s[i + 3] \in Trail)
      BY <2>6, RowOf4
    <3> QED
      BY <1>3, <2>0, <3>1, Zenon
  <2>7. CASE r = <<x7, Trail, Trail, Trail>>
    <3>1. Len(r) = 4 /\ (OnRow(s, i, r) <=> s[i] \in x7 /\ s[i + 1] \in Trail /\ s[i + 2] \in Trail /\ s[i + 3] \in Trail)
      BY <2>7, RowOf4
    <3> QED
      BY <1>3, <2>0, <3>1, Zenon
  <2>8. CASE r = <<x8, y8, Trail, Trail>>
    <3>1. Len(r) = 4 /\ (OnRow(s, i, r) <=> s[i] \in x8 /\ s[i + 1] \in y8 /\ s[i + 2] \in Trail /\ s[i + 3] \in Trail)
      BY <2>8, RowOf4
    <3> QED
      BY <1>3, <2>0, <3>1, Zenon
  <2> QED
    BY <1>2, <2>1, <2>2, <2>3, <2>4, <2>5, <2>6, <2>7, <2>8, Zenon
<1>5. ASSUME NEW n, CharAt(s, i, n)
      PROVE  \E r \in WellFormedRows : Len(r) = n /\ OnRow(s, i, r)
  <2>1. CASE n = 1
    BY <1>2, <1>3, <1>5, <2>1, RowOf1
  <2>2. CASE n = 2
    BY <1>2, <1>3, <1>5, <2>2, RowOf2
  <2>3. CASE n = 3
    BY <1>2, <1>3, <1>5, <2>3, RowOf3
  <2>4. CASE n = 4
    BY <1>2, <1>3, <1>5, <2>4, RowOf4
  <2> QED
    BY <1>3, <1>5, <2>1, <2>2, <2>3, <2>4
<1> QED
  BY <1>1, <1>4, <1>5, Zenon

\* The first byte of a character decides its length, and the others are bytes of a tail.
LEMMA CharIs ==
    ASSUME NEW s, NEW i \in Nat, NEW n, CharAt(s, i, n)
    PROVE  /\ n \in 1 .. 4 /\ s[i] \in Byte /\ n = CharLen(s[i])
           /\ n > 1 => s[i] > 127
           /\ \A k \in 1 .. n - 1 : s[i + k] \in Trail
<1> DEFINE x == s[i]
<1>1. x \in Byte /\ n \in 1 .. 4
  BY DEF CharAt, Byte
<1>2. \/ n = 1 /\ x < 128
      \/ n = 2 /\ x \in 192 .. 223 /\ s[i + 1] \in Trail
      \/ n = 3 /\ x \in 224 .. 239 /\ s[i + 1] \in Trail /\ s[i + 2] \in Trail
      \/ n = 4 /\ x \in 240 .. 247 /\ s[i + 1] \in Trail /\ s[i + 2] \in Trail /\ s[i + 3] \in Trail
  BY DEF CharAt, Trail
<1> HIDE DEF x
<1>3. n = CharLen(x) /\ (n > 1 => x > 127)
  BY <1>1, <1>2 DEF CharLen, Byte
<1>4. \A k \in 1 .. n - 1 : s[i + k] \in Trail
  <2>1. ASSUME NEW k \in 1 .. n - 1
        PROVE  k = 1 \/ (k = 2 /\ n > 2) \/ (k = 3 /\ n > 3)
    BY <1>1
  <2> QED
    BY <1>2, <2>1
<1> QED
  BY <1>1, <1>3, <1>4 DEF x

\* What the masks of is_valid_seq_2, _3 and _4 leave of two bytes
LEMMA MasksAre ==
    ASSUME NEW x \in Byte, NEW y \in Byte
    PROVE  /\ y \div 64 = 2 <=> y \in Trail
           /\ x \div 32 = 6 /\ (x % 32) \div 2 # 0 <=> x \in 194 .. 223
           /\ x \div 16 = 14 <=> x \in 224 .. 239
           /\ x \div 8 = 30 <=> x \in 240 .. 247
           /\ x \in 224 .. 239 => x % 16 = x - 224
           /\ x \in 240 .. 247 => x % 8 = x - 240
           /\ y \in Trail => (y \div 32) % 2 = (IF y < 160 THEN 0 ELSE 1)
           /\ y \in Trail => ((y \div 16) % 4 = 0 <=> y < 144)
BY DEF Byte, Trail

\* Where the macros find a sequence, a character begins.
LEMMA SeqIs ==
    ASSUME NEW s, NEW i \in Nat, NEW n, n = SeqLen(s, i), n # 0,
           \A k \in 0 .. n - 1 : s[i + k] \in Byte
    PROVE  n \in 2 .. 4 /\ CharAt(s, i, n)
<1>1. \/ n = 2 /\ IsSeq2(s, i)
      \/ n = 3 /\ IsSeq3(s, i)
      \/ n = 4 /\ IsSeq4(s, i)
  BY DEF SeqLen
<1>2. i + 0 = i
  OBVIOUS
<1>3. CASE n = 2 /\ IsSeq2(s, i)
  <2>1. s[i] \in Byte /\ s[i + 1] \in Byte /\ s[i + 1] \div 64 = 2
    BY <1>2, <1>3 DEF IsSeq2, Follows
  <2>2. s[i + 1] \in Trail /\ s[i] \in 194 .. 223
    BY <1>3, <2>1, MasksAre DEF IsSeq2
  <2> QED
    BY <1>3, <2>2 DEF CharAt
<1>4. CASE n = 3 /\ IsSeq3(s, i)
  <2> DEFINE x == s[i]
             y == s[i + 1]
  <2>1. x \in Byte /\ y \in Byte /\ s[i + 2] \in Byte /\ y \div 64 = 2 /\ s[i + 2] \div 64 = 2
    BY <1>2, <1>4 DEF IsSeq3, Follows
  <2>2. /\ x \div 16 = 14 /\ ~(x % 16 = 0 /\ (y \div 32) % 2 = 0)
        /\ ~(x % 16 = 13 /\ (y \div 32) % 2 = 1)
    BY <1>4 DEF IsSeq3
  <2>3. s[i + 2] \in Trail
    BY <2>1, MasksAre
  <2> HIDE DEF x, y
  <2>4. x \in 224 .. 239 /\ y \in Trail /\ x % 16 = x - 224 /\ (y \div 32) % 2 = (IF y < 160 THEN 0 ELSE 1)
    BY <2>1, <2>2, MasksAre
  <2>5. ~(x = 224 /\ y < 160) /\ ~(x = 237 /\ y >= 160)
    BY <2>2, <2>4 DEF Trail
  <2>6. \/ x \in {224} /\ y \in 160 .. 191
        \/ x \in (225 .. 239) \ {237}
        \/ x \in {237} /\ y \in 128 .. 159
    BY <2>4, <2>5 DEF Trail
  <2> QED
    BY <1>4, <2>3, <2>4, <2>6 DEF CharAt, x, y
<1>5. CASE n = 4 /\ IsSeq4(s, i)
  <2> DEFINE x == s[i]
             y == s[i + 1]
  <2>1. /\ x \in Byte /\ y \in Byte /\ s[i + 2] \in Byte /\ s[i + 3] \in Byte
        /\ y \div 64 = 2 /\ s[i + 2] \div 64 = 2 /\ s[i + 3] \div 64 = 2
    BY <1>2, <1>5 DEF IsSeq4, Follows
  <2>2. /\ x \div 8 = 30 /\ ~(x % 8 = 0 /\ (y \div 16) % 4 = 0)
        /\ x % 8 < 4 \/ ((x % 8) % 4 = 0 /\ (y \div 16) % 4 = 0)
    BY <1>5 DEF IsSeq4
  <2>3. s[i + 2] \in Trail /\ s[i + 3] \in Trail
    BY <2>1, MasksAre
  <2> HIDE DEF x, y
  <2>4. x \in 240 .. 247 /\ y \in Trail /\ x % 8 = x - 240 /\ ((y \div 16) % 4 = 0 <=> y < 144)
    BY <2>1, <2>2, MasksAre
  <2>5. /\ ~(x = 240 /\ y < 144)
        /\ x < 244 \/ ((x - 240) % 4 = 0 /\ y < 144)
    BY <2>2, <2>4
  <2>6. \/ x \in {240} /\ y \in 144 .. 191
        \/ x \in 241 .. 243
        \/ x \in {244} /\ y \in 128 .. 143
    BY <2>4, <2>5 DEF Trail
  <2> QED
    BY <1>5, <2>3, <2>4, <2>6 DEF CharAt, x, y
<1> QED
  BY <1>1, <1>3, <1>4, <1>5

\* The six low bits behind 2
LEMMA TailIs ==
    ASSUME NEW x \in Nat
    PROVE  128 + (x % 64) \in Trail
<1>1. x % 64 \in 0 .. 63
  BY SMT
<1> QED
  BY <1>1, SMT DEF Trail

\* The parts of a code point are numbers.
LEMMA PartsAre ==
    ASSUME NEW u \in Nat
    PROVE  u \div 1 = u /\ u \div 64 \in Nat /\ u \div 4096 \in Nat /\ u \div 262144 \in Nat
BY SMT

\* The first two bytes of a character of three
LEMMA ThreeBytes ==
    ASSUME NEW u \in Nat, 2048 <= u, u <= 65535, ~(55296 <= u /\ u <= 57343), NEW x, NEW y,
           x = 224 + u \div 4096, y = 128 + ((u \div 64) % 64)
    PROVE  \/ x \in {224} /\ y \in 160 .. 191
           \/ x \in (225 .. 239) \ {237} /\ y \in Trail
           \/ x \in {237} /\ y \in 128 .. 159
<1> DEFINE h == u \div 64
<1>1. h \in Nat /\ 32 <= h /\ h <= 1023 /\ 64 * h <= u /\ u < 64 * h + 64
  BY SMT
<1>2. u \div 4096 = h \div 64
  BY SMT
<1> HIDE DEF h
<1>3. h < 864 \/ h > 895
  BY <1>1, SMT
<1>4. x = 224 + h \div 64 /\ y = 128 + (h % 64)
  BY <1>2 DEF h
<1> QED
  BY <1>1, <1>3, <1>4, SMT DEF Trail

\* The first two bytes of a character of four
LEMMA FourBytes ==
    ASSUME NEW u \in Nat, 65536 <= u, u <= 1114111, NEW x, NEW y,
           x = 240 + u \div 262144, y = 128 + ((u \div 4096) % 64)
    PROVE  \/ x \in {240} /\ y \in 144 .. 191
           \/ x \in 241 .. 243 /\ y \in Trail
           \/ x \in {244} /\ y \in 128 .. 143
<1> DEFINE h == u \div 4096
<1>1. h \in Nat /\ 16 <= h /\ h <= 271
  BY SMT
<1>2. u \div 262144 = h \div 64
  BY SMT
<1> HIDE DEF h
<1>3. x = 240 + h \div 64 /\ y = 128 + (h % 64)
  BY <1>2 DEF h
<1> QED
  BY <1>1, <1>3, SMT DEF Trail

\* The code points that have an encoding
IsCode(u) == u \in Nat /\ u <= 1114111 /\ ~(55296 <= u /\ u <= 57343)

\* A code point becomes one character.
LEMMA Utf8Is ==
    ASSUME NEW u, IsCode(u)
    PROVE  /\ ToUtf8(u) \in Seq(Byte) /\ Len(ToUtf8(u)) \in 1 .. 4
           /\ CharAt(ToUtf8(u), 1, Len(ToUtf8(u)))
           /\ u < 65536 => Len(ToUtf8(u)) <= 3
           /\ u >= 65536 => Len(ToUtf8(u)) = 4
<1> DEFINE t1 == 128 + ((u \div 1) % 64)
           t64 == 128 + ((u \div 64) % 64)
           t4096 == 128 + ((u \div 4096) % 64)
           x2 == 192 + u \div 64
           x3 == 224 + u \div 4096
           x4 == 240 + u \div 262144
           c == ToUtf8(u)
<1>1. /\ u \in Nat /\ u <= 1114111 /\ ~(55296 <= u /\ u <= 57343)
  BY SMT DEF IsCode
<1>2. u \div 1 \in Nat /\ u \div 64 \in Nat /\ u \div 4096 \in Nat
  BY <1>1, PartsAre, SMT
<1>3. t1 \in Trail /\ t64 \in Trail /\ t4096 \in Trail
  <2>1. t1 \in Trail
    BY <1>2, TailIs, SMT
  <2>2. t64 \in Trail
    BY <1>2, TailIs, SMT
  <2>3. t4096 \in Trail
    BY <1>2, TailIs, SMT
  <2> QED
    BY <2>1, <2>2, <2>3
<1>4. c = IF u >= 65536 THEN <<x4, t4096, t64, t1>>
          ELSE IF u >= 2048 THEN <<x3, t64, t1>>
          ELSE IF u >= 128 THEN <<x2, t1>> ELSE <<u>>
  BY SMT DEF ToUtf8
<1>5. 128 <= u /\ u <= 2047 => x2 \in 194 .. 223
  BY <1>1, SMT
<1>6. 2048 <= u /\ u <= 65535 => \/ x3 \in {224} /\ t64 \in 160 .. 191
                                 \/ x3 \in (225 .. 239) \ {237} /\ t64 \in Trail
                                 \/ x3 \in {237} /\ t64 \in 128 .. 159
  BY <1>1, ThreeBytes, SMT
<1>7. 65536 <= u => \/ x4 \in {240} /\ t4096 \in 144 .. 191
                    \/ x4 \in 241 .. 243 /\ t4096 \in Trail
                    \/ x4 \in {244} /\ t4096 \in 128 .. 143
  BY <1>1, FourBytes, SMT
<1> HIDE DEF t1, t64, t4096, x2, x3, x4, c
<1>8. CASE u <= 127
  <2>1. c = <<u>> /\ u \in 0 .. 127
    BY <1>1, <1>4, <1>8, SMT
  <2>2. c \in Seq(Byte) /\ Len(c) = 1 /\ c[1] = u
    BY <2>1, SMT DEF Byte
  <2> QED
    BY <1>1, <1>8, <2>1, <2>2, SMT DEF CharAt, c
<1>9. CASE 128 <= u /\ u <= 2047
  <2>1. c = <<x2, t1>>
    BY <1>1, <1>4, <1>9, SMT
  <2>2. x2 \in Byte /\ t1 \in Byte
    BY <1>3, <1>5, <1>9, SMT DEF Byte, Trail
  <2>3. c \in Seq(Byte) /\ Len(c) = 2 /\ c[1] = x2 /\ c[1 + 1] = t1
    BY <2>1, <2>2, SMT
  <2>4. CharAt(c, 1, 2)
    BY <1>3, <1>5, <1>9, <2>3 DEF CharAt
  <2> QED
    BY <1>1, <1>9, <2>3, <2>4, SMT DEF c
<1>10. CASE 2048 <= u /\ u <= 65535
  <2>1. c = <<x3, t64, t1>>
    BY <1>1, <1>4, <1>10, SMT
  <2>2. x3 \in Byte /\ t64 \in Byte /\ t1 \in Byte
    BY <1>3, <1>6, <1>10, SMT DEF Byte, Trail
  <2>3. c \in Seq(Byte) /\ Len(c) = 3 /\ c[1] = x3 /\ c[1 + 1] = t64 /\ c[1 + 2] = t1
    BY <2>1, <2>2, SMT
  <2>4. CharAt(c, 1, 3)
    BY <1>3, <1>6, <1>10, <2>3 DEF CharAt
  <2> QED
    BY <1>1, <1>10, <2>3, <2>4, SMT DEF c
<1>11. CASE 65536 <= u
  <2>1. c = <<x4, t4096, t64, t1>>
    BY <1>1, <1>4, <1>11, SMT
  <2>2. x4 \in Byte /\ t4096 \in Byte /\ t64 \in Byte /\ t1 \in Byte
    BY <1>3, <1>7, <1>11, SMT DEF Byte, Trail
  <2>3. c \in Seq(Byte) /\ Len(c) = 4 /\ c[1] = x4 /\ c[1 + 1] = t4096 /\ c[1 + 2] = t64 /\ c[1 + 3] = t1
    BY <2>1, <2>2, SMT
  <2>4. CharAt(c, 1, 4)
    BY <1>3, <1>7, <1>11, <2>3 DEF CharAt
  <2> QED
    BY <1>1, <1>11, <2>3, <2>4, SMT DEF c
<1> QED
  BY <1>1, <1>8, <1>9, <1>10, <1>11, SMT

-----------------------------------------------------------------------------
(***************************************************************************)
(* Bytes that are characters one after the other                           *)
(***************************************************************************)

\* Each byte from lo on, to the one before hi, is in a character that lies between them.
Covered(s, lo, hi) ==
    \A i \in lo .. hi - 1 : \E j \in lo .. i, n \in 1 .. 4 :
        i < j + n /\ j + n <= hi /\ CharAt(s, j, n)

\* Nothing is covered by nothing.
LEMMA NothingCovered ==
    ASSUME NEW s, NEW lo \in Nat
    PROVE  Covered(s, lo, lo)
BY DEF Covered

\* The reference definition of well-formed bytes
LEMMA CoveredIsWellFormed ==
    ASSUME NEW s \in Seq(Byte), Covered(s, 1, Len(s) + 1)
    PROVE  WellFormed(s)
<1>1. Len(s) \in Nat /\ DOMAIN s = 1 .. Len(s)
  OBVIOUS
<1>2. SUFFICES ASSUME NEW i \in 1 .. Len(s)
               PROVE  \E j \in 1 .. i : \E n \in CharsAt(s, j) : i < j + n
  BY <1>1 DEF WellFormed
<1>3. PICK j \in 1 .. i, n \in 1 .. 4 : i < j + n /\ j + n <= Len(s) + 1 /\ CharAt(s, j, n)
  BY <1>1, <1>2 DEF Covered
<1>4. j \in Nat /\ j + n - 1 <= Len(s)
  BY <1>1, <1>3
<1>5. n \in CharsAt(s, j)
  BY <1>1, <1>3, <1>4, CharsAre, Zenon
<1> QED
  BY <1>3, <1>5

\* A character is the same wherever its bytes are.
LEMMA CharMoves ==
    ASSUME NEW s, NEW t, NEW i \in Nat, NEW j \in Nat, NEW n, CharAt(s, i, n),
           \A k \in 0 .. n - 1 : t[j + k] = s[i + k]
    PROVE  CharAt(t, j, n)
<1>1. n \in 1 .. 4 /\ i + 0 = i /\ j + 0 = j
  BY CharIs
<1>2. t[j] = s[i]
  <2>1. t[j + 0] = s[i + 0]
    BY <1>1
  <2> QED
    BY <1>1, <2>1
<1>3. /\ n >= 2 => t[j + 1] = s[i + 1]
      /\ n >= 3 => t[j + 2] = s[i + 2]
      /\ n >= 4 => t[j + 3] = s[i + 3]
  BY <1>1
<1> QED
  BY <1>1, <1>2, <1>3 DEF CharAt

\* What is covered stays so where its bytes stay, and more bytes may be covered behind it.
LEMMA CoveredGrows ==
    ASSUME NEW s, NEW t, NEW lo \in Nat, NEW a \in Nat, NEW b \in Nat, lo <= a, a <= b,
           Covered(s, lo, a), \A i \in lo .. a - 1 : t[i] = s[i], Covered(t, a, b)
    PROVE  Covered(t, lo, b)
<1> SUFFICES ASSUME NEW i \in lo .. b - 1
             PROVE  \E j \in lo .. i, n \in 1 .. 4 : i < j + n /\ j + n <= b /\ CharAt(t, j, n)
  BY DEF Covered
<1>1. CASE i <= a - 1
  <2>1. i \in lo .. a - 1
    BY <1>1
  <2>2. PICK j \in lo .. i, n \in 1 .. 4 : i < j + n /\ j + n <= a /\ CharAt(s, j, n)
    BY <2>1 DEF Covered
  <2>3. \A k \in 0 .. n - 1 : j + k \in lo .. a - 1
    BY <2>2
  <2>4. j \in Nat /\ \A k \in 0 .. n - 1 : t[j + k] = s[j + k]
    BY <2>2, <2>3
  <2>5. CharAt(t, j, n)
    BY <2>2, <2>4, CharMoves, Zenon
  <2>6. j + n <= b
    BY <2>2
  <2> QED
    BY <2>2, <2>5, <2>6
<1>2. CASE ~(i <= a - 1)
  <2>1. i \in a .. b - 1
    BY <1>2
  <2>2. PICK j \in a .. i, n \in 1 .. 4 : i < j + n /\ j + n <= b /\ CharAt(t, j, n)
    BY <2>1 DEF Covered
  <2>3. j \in lo .. i
    BY <2>2
  <2> QED
    BY <2>2, <2>3
<1> QED
  BY <1>1, <1>2

\* One character covers its bytes.
LEMMA OneCharCovers ==
    ASSUME NEW s, NEW a \in Nat, NEW n, CharAt(s, a, n)
    PROVE  n \in 1 .. 4 /\ Covered(s, a, a + n)
<1>1. n \in 1 .. 4
  BY CharIs
<1> SUFFICES ASSUME NEW i \in a .. a + n - 1
             PROVE  \E j \in a .. i, m \in 1 .. 4 : i < j + m /\ j + m <= a + n /\ CharAt(s, j, m)
  BY <1>1 DEF Covered
<1>2. a \in a .. i /\ i < a + n /\ a + n <= a + n
  BY <1>1
<1> QED
  BY <1>1, <1>2

\* ASCII bytes cover themselves.
LEMMA AsciiCovers ==
    ASSUME NEW s, NEW a \in Nat, NEW b \in Nat, \A i \in a .. b - 1 : s[i] \in 0 .. 127
    PROVE  Covered(s, a, b)
<1> SUFFICES ASSUME NEW i \in a .. b - 1
             PROVE  \E j \in a .. i, n \in 1 .. 4 : i < j + n /\ j + n <= b /\ CharAt(s, j, n)
  BY DEF Covered
<1>1. CharAt(s, i, 1)
  BY DEF CharAt
<1>2. i \in a .. i /\ 1 \in 1 .. 4 /\ i < i + 1 /\ i + 1 <= b
  OBVIOUS
<1> QED
  BY <1>1, <1>2

\* Bytes that are covered are so in another place, too.
LEMMA CoveredMoves ==
    ASSUME NEW s, NEW t, NEW a \in Nat, NEW b \in Nat, NEW c \in Nat, a <= b, Covered(s, a, b),
           \A k \in 0 .. b - a - 1 : t[c + k] = s[a + k]
    PROVE  Covered(t, c, c + (b - a))
<1> SUFFICES ASSUME NEW i \in c .. c + (b - a) - 1
             PROVE  \E j \in c .. i, n \in 1 .. 4 :
                        i < j + n /\ j + n <= c + (b - a) /\ CharAt(t, j, n)
  BY DEF Covered
<1> DEFINE h == a + (i - c)
<1>1. h \in a .. b - 1
  OBVIOUS
<1>2. PICK j \in a .. h, n \in 1 .. 4 : h < j + n /\ j + n <= b /\ CharAt(s, j, n)
  BY <1>1, Zenon DEF Covered
<1> DEFINE g == c + (j - a)
<1>3. g \in c .. i /\ i < g + n /\ g + n <= c + (b - a) /\ g \in Nat /\ j \in Nat
  BY <1>1, <1>2
<1>4. ASSUME NEW k \in 0 .. n - 1
      PROVE  t[g + k] = s[j + k]
  <2> DEFINE d == j - a + k
  <2>1. d \in 0 .. b - a - 1 /\ c + d = g + k /\ a + d = j + k
    BY <1>1, <1>2
  <2> HIDE DEF d, g
  <2> QED
    BY <2>1
<1>5. CharAt(t, g, n)
  <2> HIDE DEF g, h
  <2> QED
    BY <1>2, <1>3, <1>4, CharMoves, Zenon
<1> HIDE DEF g, h
<1> QED
  BY <1>2, <1>3, <1>5

-----------------------------------------------------------------------------
(***************************************************************************)
(* The text in memory, and the stores of the reader                        *)
(***************************************************************************)

\* The reader stands in the text, which zeros follow, and never writes ahead of itself.
InText ==
    /\ mem \in Seq(Byte) /\ EndOfText \in Nat
    /\ src \in Nat /\ dst \in Nat
    /\ 2 <= dst /\ dst <= src /\ src <= EndOfText
    /\ \A k \in EndOfText .. Len(mem) : mem[k] = 0

\* Where the zeros are
LEMMA EndIs ==
    ASSUME mem \in Seq(Byte)
    PROVE  Len(mem) \in Nat /\ EndOfText = Len(mem) - 3
<1>1. Len(mem) \in Nat
  OBVIOUS
<1>2. Len(Padding) = 4
  BY DEF Padding
<1> QED
  BY <1>1, <1>2 DEF EndOfText

\* A byte that is not zero comes before them.
LEMMA NotZero ==
    ASSUME InText, NEW k \in 1 .. Len(mem), mem[k] # 0
    PROVE  k < EndOfText
<1>1. Len(mem) \in Nat /\ EndOfText = Len(mem) - 3
  BY EndIs DEF InText
<1> QED
  BY <1>1 DEF InText

\* What a store changes
LEMMA StoredIs ==
    ASSUME mem \in Seq(Byte), NEW d \in Nat, d > 0, NEW b \in Seq(Byte)
    PROVE  /\ Stored(d, b) \in Seq(Byte) /\ Len(Stored(d, b)) = Len(mem)
           /\ \A i \in 1 .. Len(mem) :
                  Stored(d, b)[i] = IF d <= i /\ i < d + Len(b) THEN b[i - d + 1] ELSE mem[i]
<1> DEFINE after == Stored(d, b)
<1>1. Len(mem) \in Nat /\ DOMAIN mem = 1 .. Len(mem) /\ Len(b) \in Nat /\ DOMAIN b = 1 .. Len(b)
  OBVIOUS
<1>2. after = [i \in 1 .. Len(mem) |-> IF i - d + 1 \in 1 .. Len(b) THEN b[i - d + 1] ELSE mem[i]]
  BY <1>1, Zenon DEF Stored
<1>3. ASSUME NEW i \in 1 .. Len(mem)
      PROVE  /\ i - d + 1 \in 1 .. Len(b) <=> d <= i /\ i < d + Len(b)
             /\ i - d + 1 \in 1 .. Len(b) => b[i - d + 1] \in Byte
             /\ mem[i] \in Byte
  <2>1. i - d + 1 \in 1 .. Len(b) <=> d <= i /\ i < d + Len(b)
    BY <1>1
  <2>2. mem[i] \in Byte /\ \A k \in 1 .. Len(b) : b[k] \in Byte
    OBVIOUS
  <2> QED
    BY <2>1, <2>2, Zenon
<1>4. after \in [1 .. Len(mem) -> Byte]
  BY <1>2, <1>3
<1> HIDE DEF after
<1>5. after \in Seq(Byte) /\ Len(after) = Len(mem)
  BY <1>1, <1>4
<1>6. \A i \in 1 .. Len(mem) : after[i] = IF d <= i /\ i < d + Len(b) THEN b[i - d + 1] ELSE mem[i]
  BY <1>2, <1>3, Zenon
<1> QED
  BY <1>5, <1>6 DEF after

\* What a load yields
LEMMA LoadedIs ==
    ASSUME mem \in Seq(Byte), src \in Nat, src > 0, NEW n \in Nat, src + n - 1 <= Len(mem)
    PROVE  /\ Loaded(n) \in Seq(Byte) /\ Len(Loaded(n)) = n
           /\ \A k \in 1 .. n : Loaded(n)[k] = mem[src + k - 1]
<1> DEFINE b == Loaded(n)
<1>1. Len(mem) \in Nat
  OBVIOUS
<1>2. b = [k \in 1 .. n |-> mem[src + k - 1]]
  <2>1. b = [k \in 1 .. src + n - 1 - src + 1 |-> mem[src + k - 1]]
    BY DEF Loaded
  <2>2. src + n - 1 - src + 1 = n
    BY <1>1
  <2> QED
    BY <2>1, <2>2
<1>3. \A k \in 1 .. n : mem[src + k - 1] \in Byte
  <2> SUFFICES ASSUME NEW k \in 1 .. n PROVE mem[src + k - 1] \in Byte
    OBVIOUS
  <2>1. src + k - 1 \in 1 .. Len(mem)
    BY <1>1
  <2> QED
    BY <2>1
<1>4. b \in [1 .. n -> Byte]
  BY <1>2, <1>3
<1> HIDE DEF b
<1>5. b \in Seq(Byte) /\ Len(b) = n
  BY <1>4
<1> QED
  BY <1>2, <1>5 DEF b

\* What a turn of the reader leaves of the text: the zeros, what is not read yet, and what
\* the string has so far.
Kept(after, d, s) ==
    /\ after \in Seq(Byte) /\ Len(after) = Len(mem)
    /\ \A k \in EndOfText .. Len(mem) : after[k] = 0
    /\ \A i \in s .. Len(mem) : after[i] = mem[i]
    /\ \A i \in 1 .. dst - 1 : after[i] = mem[i]
    /\ d \in Nat /\ s \in Nat /\ 2 <= d /\ d <= s /\ s <= EndOfText

\* Bytes that are made from more bytes of the text than they are
LEMMA Decoded ==
    ASSUME InText, NEW b \in Seq(Byte), NEW m \in Nat, Len(b) < m, src + m <= EndOfText
    PROVE  /\ Kept(Stored(dst, b), dst + Len(b), src + m)
           /\ \A k \in 0 .. Len(b) - 1 : Stored(dst, b)[dst + k] = b[1 + k]
<1> DEFINE after == Stored(dst, b)
           n == Len(b)
           l == Len(mem)
           e == EndOfText
<1>1. /\ mem \in Seq(Byte) /\ l \in Nat /\ e = l - 3 /\ n \in Nat
      /\ src \in Nat /\ dst \in Nat /\ 2 <= dst /\ dst <= src /\ src + m <= e
      /\ \A k \in e .. l : mem[k] = 0
  BY EndIs DEF InText
<1>2. /\ after \in Seq(Byte) /\ Len(after) = l
      /\ \A i \in 1 .. l : after[i] = IF dst <= i /\ i < dst + n THEN b[i - dst + 1] ELSE mem[i]
  BY <1>1, StoredIs
<1> HIDE DEF after, n, l, e
<1>3. \A i \in src + m .. l : after[i] = mem[i]
  <2> SUFFICES ASSUME NEW i \in src + m .. l PROVE after[i] = mem[i]
    OBVIOUS
  <2>1. i \in 1 .. l /\ ~(i < dst + n)
    BY <1>1 DEF n
  <2> QED
    BY <1>2, <2>1
<1>4. \A i \in 1 .. dst - 1 : after[i] = mem[i]
  BY <1>1, <1>2
<1>5. \A k \in e .. l : after[k] = 0
  <2> SUFFICES ASSUME NEW k \in e .. l PROVE after[k] = 0
    OBVIOUS
  <2>1. k \in src + m .. l
    BY <1>1
  <2> QED
    BY <1>1, <1>3, <2>1
<1>6. dst + n \in Nat /\ src + m \in Nat /\ 2 <= dst + n /\ dst + n <= src + m
  BY <1>1 DEF n
<1>7. \A k \in 0 .. n - 1 : after[dst + k] = b[1 + k]
  <2> SUFFICES ASSUME NEW k \in 0 .. n - 1 PROVE after[dst + k] = b[1 + k]
    OBVIOUS
  <2>1. n < m
    BY DEF n
  <2>2. dst + k \in 1 .. l /\ dst <= dst + k /\ dst + k < dst + n
    BY <1>1, <2>1
  <2>3. (dst + k) - dst + 1 = 1 + k
    BY <1>1
  <2> QED
    BY <1>2, <2>2, <2>3
<1>8. Kept(after, dst + n, src + m)
  BY <1>1, <1>2, <1>3, <1>4, <1>5, <1>6 DEF Kept, e, l
<1> QED
  BY <1>7, <1>8 DEF after, n

\* m bytes that are moved with stores of w, which may be one more
LEMMA Moved ==
    ASSUME InText, NEW m \in Nat, NEW w \in Nat, m > 0, m <= w, w <= m + 1, src + m <= EndOfText
    PROVE  /\ Kept(Stored(dst, Loaded(w)), dst + m, src + m)
           /\ \A k \in 0 .. m - 1 : Stored(dst, Loaded(w))[dst + k] = mem[src + k]
<1> DEFINE b == Loaded(w)
           after == Stored(dst, b)
           l == Len(mem)
           e == EndOfText
<1>1. /\ mem \in Seq(Byte) /\ l \in Nat /\ e = l - 3
      /\ src \in Nat /\ dst \in Nat /\ 2 <= dst /\ dst <= src /\ src + m <= e
      /\ \A k \in e .. l : mem[k] = 0
  BY EndIs DEF InText
<1>2. b \in Seq(Byte) /\ Len(b) = w /\ \A k \in 1 .. w : b[k] = mem[src + k - 1]
  <2>1. src > 0 /\ src + w - 1 <= Len(mem)
    BY <1>1
  <2> QED
    BY <1>1, <2>1, LoadedIs
<1>3. /\ after \in Seq(Byte) /\ Len(after) = l
      /\ \A i \in 1 .. l : after[i] = IF dst <= i /\ i < dst + Len(b) THEN b[i - dst + 1] ELSE mem[i]
  <2>1. dst > 0
    BY <1>1
  <2> QED
    BY <1>1, <1>2, <2>1, StoredIs
<1> HIDE DEF after, b, l, e
<1>4. \A i \in 1 .. l : after[i] = IF dst <= i /\ i < dst + w THEN mem[src + (i - dst)] ELSE mem[i]
  <2> SUFFICES ASSUME NEW i \in 1 .. l, dst <= i, i < dst + w
               PROVE  b[i - dst + 1] = mem[src + (i - dst)]
    BY <1>2, <1>3, Zenon
  <2>1. i - dst + 1 \in 1 .. w /\ src + (i - dst + 1) - 1 = src + (i - dst)
    BY <1>1
  <2> HIDE DEF b
  <2> QED
    BY <1>2, <2>1
<1>5. \A i \in src + m .. l : after[i] = mem[i]
  <2> SUFFICES ASSUME NEW i \in src + m .. l PROVE after[i] = mem[i]
    OBVIOUS
  <2>1. i \in 1 .. l
    BY <1>1
  <2>2. CASE ~(i < dst + w)
    BY <1>4, <2>1, <2>2
  <2>3. CASE i < dst + w
    <3>1. dst = src /\ dst <= i /\ src + (i - dst) = i
      BY <1>1, <2>3
    <3> QED
      BY <1>4, <2>1, <3>1
  <2> QED
    BY <2>2, <2>3
<1>6. \A i \in 1 .. dst - 1 : after[i] = mem[i]
  BY <1>1, <1>4
<1>7. \A k \in e .. l : after[k] = 0
  <2> SUFFICES ASSUME NEW k \in e .. l PROVE after[k] = 0
    OBVIOUS
  <2>1. k \in src + m .. l
    BY <1>1
  <2> QED
    BY <1>1, <1>5, <2>1
<1>8. dst + m \in Nat /\ src + m \in Nat /\ 2 <= dst + m /\ dst + m <= src + m
  BY <1>1
<1>9. \A k \in 0 .. m - 1 : after[dst + k] = mem[src + k]
  <2> SUFFICES ASSUME NEW k \in 0 .. m - 1 PROVE after[dst + k] = mem[src + k]
    OBVIOUS
  <2>1. dst + k \in 1 .. l /\ dst <= dst + k /\ dst + k < dst + w
    BY <1>1
  <2>2. src + ((dst + k) - dst) = src + k
    BY <1>1
  <2> QED
    BY <1>4, <2>1, <2>2
<1>10. Kept(after, dst + m, src + m)
  BY <1>1, <1>3, <1>5, <1>6, <1>7, <1>8 DEF Kept, e, l
<1> QED
  BY <1>9, <1>10 DEF after, b

-----------------------------------------------------------------------------
(***************************************************************************)
(* What the reader finds where it stands                                   *)
(***************************************************************************)

\* A sequence of several bytes is a character, and ends before the text does.
LEMMA SeqAt ==
    ASSUME InText, NEW n, n = SeqLen(mem, src), n > 0
    PROVE  n \in 2 .. 4 /\ CharAt(mem, src, n) /\ src + n <= EndOfText
<1>1. /\ mem \in Seq(Byte) /\ Len(mem) \in Nat /\ EndOfText = Len(mem) - 3
      /\ src \in Nat /\ 2 <= src /\ src <= EndOfText
  BY EndIs DEF InText
<1>2. n \in {2, 3, 4}
  BY DEF SeqLen
<1>3. \A k \in 0 .. n - 1 : src + k \in 1 .. Len(mem) /\ mem[src + k] \in Byte
  <2> SUFFICES ASSUME NEW k \in 0 .. n - 1 PROVE src + k \in 1 .. Len(mem)
    BY <1>1
  <2> QED
    BY <1>1, <1>2
<1>4. n # 0
  BY <1>2
<1>5. n \in 2 .. 4 /\ CharAt(mem, src, n)
  BY <1>1, <1>3, <1>4, SeqIs
<1>6. mem[src + (n - 1)] \in Trail
  <2>1. n - 1 \in 1 .. n - 1
    BY <1>2
  <2> QED
    BY <1>1, <1>5, <2>1, CharIs
<1>7. src + (n - 1) \in 1 .. Len(mem) /\ mem[src + (n - 1)] # 0
  <2>1. n - 1 \in 0 .. n - 1
    BY <1>2
  <2> QED
    <3>1. src + (n - 1) \in 1 .. Len(mem)
      BY <1>3, <2>1
    <3>2. 0 \notin Trail
      BY DEF Trail
    <3> QED
      BY <1>6, <3>1, <3>2
<1>8. src + (n - 1) < EndOfText
  BY <1>7, NotZero
<1> QED
  BY <1>1, <1>2, <1>5, <1>8

\* What is no stop is of ASCII.
LEMMA NoStopIs ==
    ASSUME NEW c \in Byte, ~IsStop(c)
    PROVE  c \in 0 .. 127 /\ c # 0
BY DEF IsStop, Byte

\* How long the run is that one turn of copy_ascii moves
Run == CHOOSE k \in 1 .. 16 : /\ \A j \in 0 .. k - 1 : ~IsStop(mem[src + j])
                              /\ k = 16 \/ IsStop(mem[src + k])

\* A run of characters is of ASCII, and ends before the text does.
LEMMA RunIs ==
    ASSUME InText, ~IsStop(mem[src])
    PROVE  /\ Run \in 1 .. 16 /\ src + Run <= EndOfText
           /\ \A j \in 0 .. Run - 1 : mem[src + j] \in 0 .. 127
<1>1. /\ mem \in Seq(Byte) /\ Len(mem) \in Nat /\ EndOfText = Len(mem) - 3
      /\ src \in Nat /\ 2 <= src /\ src <= EndOfText /\ mem[EndOfText] = 0
  BY EndIs DEF InText
<1> DEFINE P(k) == /\ \A j \in 0 .. k - 1 : ~IsStop(mem[src + j])
                   /\ k = 16 \/ IsStop(mem[src + k])
           T == {k \in 1 .. 16 : k = 16 \/ IsStop(mem[src + k])}
<1>2. \E k \in 1 .. 16 : P(k)
  <2>1. T \subseteq Nat /\ 16 \in T
    OBVIOUS
  <2>2. PICK k \in T : \A y \in T : k <= y
    BY <2>1, LeastExists
  <2>3. ASSUME NEW j \in 0 .. k - 1
        PROVE  ~IsStop(mem[src + j])
    <3>1. CASE j = 0
      BY <1>1, <3>1
    <3>2. CASE j # 0
      <4>1. j \in 1 .. 16 /\ ~(k <= j)
        BY <2>2, <3>2
      <4> QED
        BY <2>2, <4>1
    <3> QED
      BY <3>1, <3>2
  <2> QED
    BY <2>2, <2>3
<1>3. Run \in 1 .. 16 /\ P(Run)
  BY <1>2, Zenon DEF Run
<1> DEFINE n == Run
<1> HIDE DEF n
<1>4. n \in 1 .. 16 /\ \A j \in 0 .. n - 1 : ~IsStop(mem[src + j])
  BY <1>3 DEF n
<1>5. src + n <= EndOfText
  <2> SUFFICES ASSUME ~(src + n <= EndOfText) PROVE FALSE
    OBVIOUS
  <2>1. EndOfText - src \in 0 .. n - 1 /\ src + (EndOfText - src) = EndOfText
    BY <1>1, <1>4
  <2>2. ~IsStop(mem[EndOfText])
    BY <1>4, <2>1
  <2> QED
    BY <1>1, <2>2 DEF IsStop
<1>6. ASSUME NEW j \in 0 .. n - 1
      PROVE  mem[src + j] \in 0 .. 127
  <2>1. src + j \in 1 .. Len(mem)
    BY <1>1, <1>4, <1>5
  <2>2. mem[src + j] \in Byte /\ ~IsStop(mem[src + j])
    <3>1. \A k \in 1 .. Len(mem) : mem[k] \in Byte
      BY <1>1
    <3> QED
      BY <1>4, <2>1, <3>1, Zenon
  <2> QED
    BY <2>2, NoStopIs, Zenon
<1> QED
  BY <1>4, <1>5, <1>6 DEF n

\* The digits of the table
LEMMA DigitIs ==
    ASSUME NEW c \in Byte, HexDigit(c) # -1
    PROVE  HexDigit(c) \in 0 .. 15 /\ c # 0
BY DEF HexDigit, Byte

\* What read_hex_u16 accepts has four digits, all before the text ends.
LEMMA HexIs ==
    ASSUME InText, NEW i \in Nat, 2 <= i, i <= EndOfText, NEW h, h = HexU16(i), h # -1
    PROVE  h \in Nat /\ h <= 65535 /\ i + 4 <= EndOfText
<1>1. /\ mem \in Seq(Byte) /\ Len(mem) \in Nat /\ EndOfText = Len(mem) - 3
  BY EndIs DEF InText
<1> DEFINE d == [k \in 1 .. 4 |-> HexDigit(mem[i + k - 1])]
<1>2. /\ ~ \E k \in 1 .. 4 : d[k] = -1
      /\ h = 4096 * d[1] + 256 * d[2] + 16 * d[3] + d[4]
  BY DEF HexU16
<1>3. ASSUME NEW k \in 1 .. 4
      PROVE  d[k] \in 0 .. 15 /\ i + k - 1 < EndOfText
  <2>1. i + k - 1 \in 1 .. Len(mem)
    BY <1>1
  <2>2. mem[i + k - 1] \in Byte
    <3>1. \A j \in 1 .. Len(mem) : mem[j] \in Byte
      BY <1>1
    <3> QED
      BY <2>1, <3>1, Zenon
  <2>3. d[k] = HexDigit(mem[i + k - 1])
    OBVIOUS
  <2> HIDE DEF d
  <2>4. d[k] # -1
    BY <1>2
  <2>5. d[k] \in 0 .. 15 /\ mem[i + k - 1] # 0
    <3> DEFINE c == mem[i + k - 1]
    <3> HIDE DEF c
    <3>1. c \in Byte /\ HexDigit(c) # -1
      BY <2>2, <2>3, <2>4 DEF c
    <3>2. HexDigit(c) \in 0 .. 15 /\ c # 0
      BY <3>1, DigitIs
    <3> QED
      BY <2>3, <3>2 DEF c
  <2> QED
    BY <2>1, <2>5, NotZero
<1> HIDE DEF d
<1>4. d[1] \in 0 .. 15 /\ d[2] \in 0 .. 15 /\ d[3] \in 0 .. 15 /\ d[4] \in 0 .. 15 /\ i + 4 - 1 < EndOfText
  BY <1>3
<1>5. i + 4 <= EndOfText
  BY <1>1, <1>4
<1>6. h \in Nat /\ h <= 65535
  <2> DEFINE d1 == d[1]
             d2 == d[2]
             d3 == d[3]
             d4 == d[4]
  <2>1. /\ d1 \in Nat /\ d2 \in Nat /\ d3 \in Nat /\ d4 \in Nat
        /\ d1 <= 15 /\ d2 <= 15 /\ d3 <= 15 /\ d4 <= 15
    BY <1>4, SMT
  <2>2. h = 4096 * d1 + 256 * d2 + 16 * d3 + d4
    BY <1>2, SMT
  <2> HIDE DEF d1, d2, d3, d4
  <2> QED
    BY <2>1, <2>2, SMT
<1> QED
  BY <1>5, <1>6, SMT

\* A code unit that is no surrogate is a code point.
LEMMA UnitIsCode ==
    ASSUME NEW u \in Nat, u <= 65535, ~IsSurrogate(u)
    PROVE  IsCode(u)
BY SMT DEF IsCode, IsSurrogate

\* So are a high and a low surrogate together.
LEMMA PairIsCode ==
    ASSUME NEW hi \in Nat, NEW lo \in Nat, IsHigh(hi), IsLow(lo),
           NEW u, u = Paired(hi, lo)
    PROVE  IsCode(u) /\ u >= 65536
<1>1. hi >= 55296 /\ hi < 56320
  BY SMT DEF IsHigh
<1>2. lo >= 56320 /\ lo < 57344
  BY SMT DEF IsLow
<1> QED
  BY <1>1, <1>2, SMT DEF IsCode, Paired

-----------------------------------------------------------------------------
(***************************************************************************)
(* The reader: what it made of the text so far is well formed              *)
(***************************************************************************)

Places == {"skip", "copy", "value", "write", "text", "error"}
Strung == [bytes : Seq(Byte), noesc : BOOLEAN]

\* The types of the variables that outlive a place of the program
StringTypes ==
    /\ at \in Places /\ allow \in BOOLEAN /\ flg \in Flag
    /\ mem \in Seq(Byte) /\ out \in Seq(Byte)
    /\ val \in Strung /\ first \in Seq(Strung)

\* Where the string ends that was read so far
Front == IF at = "skip" THEN src ELSE dst
ReaderInv ==
    at \in {"skip", "copy"} => InText /\ (~allow => Covered(mem, 2, Front))
ValueInv ==
    at = "value" /\ (mem # Padding \/ val.noesc) /\ ~allow => Covered(Bytes, 1, Len(Bytes) + 1)

\* What is not read yet stays.
Ahead == \A i \in src' .. Len(mem) : mem'[i] = mem[i]

\* A turn that keeps what it should, and adds only characters
LEMMA TurnKeeps ==
    ASSUME ReaderInv, at = "copy", at' = at, allow' = allow, Kept(mem', dst', src'),
           dst <= dst', ~allow => Covered(mem', dst, dst')
    PROVE  ReaderInv' /\ Ahead
<1>1. InText /\ (~allow => Covered(mem, 2, dst))
  BY DEF ReaderInv, Front
<1>2. Len(mem') = Len(mem) /\ EndOfText' = EndOfText
  BY DEF Kept, EndOfText
<1>3. InText'
  BY <1>1, <1>2 DEF InText, Kept
<1>4. ~allow => Covered(mem', 2, dst')
  <2> SUFFICES ASSUME ~allow PROVE Covered(mem', 2, dst')
    OBVIOUS
  <2>1. Covered(mem, 2, dst) /\ Covered(mem', dst, dst')
    BY <1>1
  <2>2. 2 \in Nat /\ dst \in Nat /\ dst' \in Nat /\ 2 <= dst
    BY <1>1, <1>3 DEF InText
  <2>3. \A i \in 2 .. dst - 1 : mem'[i] = mem[i]
    BY <2>2 DEF Kept
  <2> QED
    BY <2>1, <2>2, <2>3, CoveredGrows, Zenon
<1>5. Front' = dst'
  BY DEF Front
<1>6. Ahead
  BY DEF Ahead, Kept
<1> QED
  BY <1>3, <1>4, <1>5, <1>6 DEF ReaderInv

\* The reader gives up.
LEMMA FailKeeps ==
    ASSUME InText, NEW msg, Fail(msg)
    PROVE  ReaderInv' /\ Ahead
BY DEF Fail, ReaderInv, Ahead

\* skip_ascii and skip_utf8
LEMMA SkipKeeps ==
    ASSUME ReaderInv, Skip
    PROVE  ReaderInv' /\ Ahead
<1>1. at = "skip" /\ mem' = mem /\ dst' = dst /\ allow' = allow
  BY Zenon DEF Skip, Reading
<1>2. Ahead
  BY <1>1 DEF Ahead
<1>3. InText /\ (~allow => Covered(mem, 2, src))
  BY <1>1 DEF ReaderInv, Front
<1>4. /\ mem \in Seq(Byte) /\ Len(mem) \in Nat /\ EndOfText = Len(mem) - 3
      /\ src \in Nat /\ dst \in Nat /\ 2 <= dst /\ dst <= src /\ src <= EndOfText
      /\ \A k \in EndOfText .. Len(mem) : mem[k] = 0
  BY <1>3, EndIs DEF InText
<1>5. src \in 1 .. Len(mem) /\ mem[src] \in Byte
  BY <1>4
<1>6. ASSUME NEW n \in 1 .. 4, src' = src + n, at' = at, src + n <= EndOfText,
             ~allow => CharAt(mem, src, n)
      PROVE  ReaderInv'
  <2>1. InText'
    BY <1>1, <1>4, <1>6 DEF InText, EndOfText
  <2>2. ASSUME ~allow
        PROVE  Covered(mem, 2, src + n)
    <3>1. Covered(mem, src, src + n)
      BY <1>4, <1>6, <2>2, OneCharCovers
    <3>2. src \in Nat /\ src + n \in Nat /\ 2 \in Nat /\ 2 <= src /\ src <= src + n
      BY <1>4
    <3> QED
      BY <1>3, <2>2, <3>1, <3>2, CoveredGrows, Zenon
  <2>3. Front' = src'
    BY <1>1, <1>6 DEF Front
  <2> QED
    BY <1>1, <1>6, <2>1, <2>2, <2>3 DEF ReaderInv
<1>7. CASE ~IsStop(mem[src])
  <2>1. src' = src + 1 /\ at' = at
    BY <1>7, Zenon DEF Skip
  <2>2. mem[src] \in 0 .. 127 /\ mem[src] # 0
    BY <1>5, <1>7, NoStopIs, Zenon
  <2>3. src + 1 <= EndOfText
    BY <1>3, <1>4, <1>5, <2>2, NotZero
  <2>4. CharAt(mem, src, 1) /\ 1 \in 1 .. 4
    BY <2>2 DEF CharAt
  <2> QED
    BY <1>2, <1>6, <2>1, <2>3, <2>4, Zenon
<1>8. CASE IsStop(mem[src]) /\ SeqLen(mem, src) > 0
  <2> DEFINE n == SeqLen(mem, src)
  <2>1. src' = src + n /\ at' = at
    BY <1>8, Zenon DEF Skip
  <2>2. n \in 2 .. 4 /\ CharAt(mem, src, n) /\ src + n <= EndOfText
    BY <1>3, <1>8, SeqAt, Zenon
  <2> HIDE DEF n
  <2>3. n \in 1 .. 4
    BY <2>2
  <2> QED
    BY <1>2, <1>6, <2>1, <2>2, <2>3, Zenon
<1>9. CASE IsStop(mem[src]) /\ ~(SeqLen(mem, src) > 0) /\ allow
  <2>1. src' = src + 1 /\ at' = at /\ mem[src] > 127
    BY <1>9, Zenon DEF Skip
  <2>2. src + 1 <= EndOfText
    BY <1>3, <1>4, <1>5, <2>1, NotZero
  <2>3. 1 \in 1 .. 4
    OBVIOUS
  <2> QED
    BY <1>2, <1>6, <1>9, <2>1, <2>2, <2>3, Zenon
<1>10. CASE IsStop(mem[src]) /\ ~(SeqLen(mem, src) > 0) /\ ~allow
  <2>1. at' = "error"
    BY <1>10, Zenon DEF Skip
  <2> QED
    BY <1>2, <2>1 DEF ReaderInv
<1> QED
  BY <1>2, <1>7, <1>8, <1>9, <1>10

\* The loop that copies begins where the other one stopped.
LEMMA BeginCopyKeeps ==
    ASSUME ReaderInv, BeginCopy
    PROVE  ReaderInv' /\ Ahead
<1>1. at = "skip" /\ at' = "copy" /\ dst' = src /\ mem' = mem /\ src' = src /\ allow' = allow
  BY DEF BeginCopy, Reading
<1>2. InText /\ (~allow => Covered(mem, 2, src))
  BY <1>1 DEF ReaderInv, Front
<1>3. InText'
  BY <1>1, <1>2 DEF InText, EndOfText
<1> QED
  BY <1>1, <1>2, <1>3 DEF ReaderInv, Front, Ahead

\* The string that is closed
LEMMA CloseKeeps ==
    ASSUME StringTypes, ReaderInv, Close
    PROVE  /\ ReaderInv' /\ ValueInv' /\ Ahead
           /\ mem' \in Seq(Byte) /\ val' \in Strung
<1> DEFINE end == Front
<1>1. /\ at \in {"skip", "copy"} /\ at' = "value" /\ src' = src + 1 /\ allow' = allow
      /\ val' = [bytes |-> SubSeq(mem, 2, end - 1), noesc |-> at = "skip"]
      /\ mem' = Stored(end, <<0>>)
  BY DEF Close, Front
<1>2. InText /\ (~allow => Covered(mem, 2, end))
  BY <1>1 DEF ReaderInv
<1>3. /\ mem \in Seq(Byte) /\ Len(mem) \in Nat /\ EndOfText = Len(mem) - 3
      /\ src \in Nat /\ end \in Nat /\ 2 <= end /\ end <= src /\ src <= EndOfText
  BY <1>1, <1>2, EndIs DEF InText, Front
<1> HIDE DEF end
<1>4. /\ mem' \in Seq(Byte) /\ Len(mem') = Len(mem)
      /\ \A i \in 1 .. Len(mem) :
             mem'[i] = IF end <= i /\ i < end + Len(<<0>>) THEN <<0>>[i - end + 1] ELSE mem[i]
  <2>1. <<0>> \in Seq(Byte) /\ end > 0
    BY <1>3 DEF Byte
  <2> QED
    BY <1>1, <1>3, <2>1, StoredIs
<1>5. Ahead
  <2> SUFFICES ASSUME NEW i \in src + 1 .. Len(mem) PROVE mem'[i] = mem[i]
    BY <1>1 DEF Ahead
  <2>1. i \in 1 .. Len(mem) /\ ~(i < end + 1) /\ Len(<<0>>) = 1
    BY <1>3
  <2> QED
    BY <1>4, <2>1
<1> DEFINE b == SubSeq(mem, 2, end - 1)
<1>6. b \in Seq(Byte) /\ Len(b) = end - 2 /\ \A k \in 1 .. end - 2 : b[k] = mem[k + 1]
  <2>1. 2 \in 1 .. Len(mem) + 1 /\ end - 1 \in 2 - 1 .. Len(mem)
    BY <1>3
  <2>2. /\ b \in Seq(Byte)
        /\ Len(b) = IF 2 <= end - 1 THEN (end - 1) - 2 + 1 ELSE 0
        /\ \A k \in 1 .. (end - 1) - 2 + 1 : b[k] = mem[2 + k - 1]
    BY <1>3, <2>1, SubSeqProperties
  <2> HIDE DEF b
  <2>3. Len(b) = end - 2
    BY <1>3, <2>2
  <2>4. ASSUME NEW k \in 1 .. end - 2
        PROVE  b[k] = mem[k + 1]
    <3>1. k \in 1 .. (end - 1) - 2 + 1 /\ 2 + k - 1 = k + 1
      BY <1>3
    <3> QED
      BY <2>2, <3>1
  <2> QED
    BY <2>2, <2>3, <2>4
<1> HIDE DEF b
<1>7. val' \in Strung /\ Bytes' = b
  BY <1>1, <1>6 DEF Strung, Bytes, b
<1>8. ASSUME ~allow
      PROVE  Covered(b, 1, Len(b) + 1)
  <2>1. \A k \in 0 .. end - 2 - 1 : b[1 + k] = mem[2 + k]
    <3> SUFFICES ASSUME NEW k \in 0 .. end - 2 - 1 PROVE b[1 + k] = mem[2 + k]
      OBVIOUS
    <3>1. 1 + k \in 1 .. end - 2 /\ (1 + k) + 1 = 2 + k
      BY <1>3
    <3> QED
      BY <1>6, <3>1
  <2>2. Covered(b, 1, 1 + (end - 2))
    BY <1>2, <1>3, <1>8, <2>1, CoveredMoves
  <2>3. 1 + (end - 2) = Len(b) + 1
    BY <1>3, <1>6
  <2> QED
    BY <2>2, <2>3
<1>9. ReaderInv'
  BY <1>1 DEF ReaderInv
<1>10. ValueInv'
  BY <1>1, <1>7, <1>8 DEF ValueInv
<1> QED
  BY <1>4, <1>5, <1>7, <1>9, <1>10

\* What the actions that copy have in common
LEMMA Copying ==
    ASSUME ReaderInv, Reading("copy")
    PROVE  /\ at = "copy" /\ allow' = allow /\ InText /\ src \in 1 .. Len(mem) /\ mem[src] \in Byte
           /\ src \in Nat /\ dst \in Nat /\ EndOfText \in Nat /\ mem \in Seq(Byte)
           /\ Len(mem) \in Nat /\ EndOfText = Len(mem) - 3 /\ 2 <= src /\ src <= EndOfText
<1>1. at = "copy" /\ allow' = allow
  BY Zenon DEF Reading
<1>2. InText
  BY <1>1 DEF ReaderInv
<1>3. /\ src \in Nat /\ dst \in Nat /\ EndOfText \in Nat /\ mem \in Seq(Byte)
      /\ 2 <= src /\ src <= EndOfText
  BY <1>2 DEF InText
<1>4. Len(mem) \in Nat /\ EndOfText = Len(mem) - 3
  BY <1>3, EndIs
<1>5. src \in 1 .. Len(mem)
  BY <1>3, <1>4
<1>6. mem[src] \in Byte
  BY <1>3, <1>5
<1> QED
  BY <1>1, <1>2, <1>3, <1>4, <1>5, <1>6

\* The widths of the stores
LEMMA WidthIs ==
    ASSUME NEW n \in Nat
    PROVE  Width(n) \in Nat /\ n <= Width(n) /\ Width(n) <= n + 1
BY SMT DEF Width

\* m bytes are moved that are characters
LEMMA MoveKeeps ==
    ASSUME ReaderInv, Reading("copy"), NEW m \in Nat, NEW w \in Nat, m > 0, m <= w, w <= m + 1,
           src + m <= EndOfText, mem' = Stored(dst, Loaded(w)), Advance(m, m),
           ~allow => Covered(mem, src, src + m)
    PROVE  ReaderInv' /\ Ahead
<1>1. /\ at = "copy" /\ allow' = allow /\ InText /\ src \in Nat /\ dst \in Nat
  BY Copying
<1>2. at' = at /\ dst' = dst + m /\ src' = src + m
  BY DEF Advance
<1>3. /\ Kept(mem', dst', src')
      /\ \A k \in 0 .. m - 1 : mem'[dst + k] = mem[src + k]
  BY <1>1, <1>2, Moved
<1>4. ASSUME ~allow
      PROVE  Covered(mem', dst, dst')
  <2>1. src + m \in Nat /\ src <= src + m /\ (src + m) - src = m
    BY <1>1
  <2>2. Covered(mem', dst, dst + ((src + m) - src))
    BY <1>1, <1>3, <1>4, <2>1, CoveredMoves
  <2> QED
    BY <1>2, <2>1, <2>2
<1>5. dst <= dst'
  BY <1>1, <1>2
<1> QED
  BY <1>1, <1>2, <1>3, <1>4, <1>5, TurnKeeps, Zenon

\* copy_ascii
LEMMA CopyAsciiKeeps ==
    ASSUME ReaderInv, CopyAscii
    PROVE  ReaderInv' /\ Ahead
<1>1. Reading("copy") /\ ~IsStop(mem[src])
  BY Zenon DEF CopyAscii
<1>2. mem' = Stored(dst, Loaded(Width(Run))) /\ Advance(Run, Run)
  BY Zenon DEF CopyAscii, Run
<1>3. InText /\ src \in Nat
  BY <1>1, Copying
<1> DEFINE n == Run
<1>4. n \in 1 .. 16 /\ src + n <= EndOfText /\ \A j \in 0 .. n - 1 : mem[src + j] \in 0 .. 127
  BY <1>1, <1>3, RunIs
<1> HIDE DEF n
<1>5. n \in Nat /\ n > 0
  BY <1>4
<1>6. Covered(mem, src, src + n)
  <2>1. ASSUME NEW i \in src .. (src + n) - 1
        PROVE  mem[i] \in 0 .. 127
    <3>1. i - src \in 0 .. n - 1 /\ src + (i - src) = i
      BY <1>3, <1>5
    <3> QED
      BY <1>4, <3>1
  <2>2. src + n \in Nat
    BY <1>3, <1>5
  <2> QED
    BY <1>3, <2>1, <2>2, AsciiCovers
<1>7. Width(n) \in Nat /\ n <= Width(n) /\ Width(n) <= n + 1
  BY <1>5, WidthIs
<1> QED
  BY <1>1, <1>2, <1>4, <1>5, <1>6, <1>7, MoveKeeps, Zenon DEF n

\* copy_utf8
LEMMA CopyUtf8Keeps ==
    ASSUME ReaderInv, CopyUtf8
    PROVE  ReaderInv' /\ Ahead
<1> DEFINE n == SeqLen(mem, src)
<1>1. Reading("copy") /\ mem[src] > 127
  BY Zenon DEF CopyUtf8
<1>2. \/ n > 0 /\ mem' = Stored(dst, Loaded(Width(n))) /\ Advance(n, n)
      \/ n = 0 /\ allow /\ mem' = Stored(dst, Loaded(2)) /\ Advance(1, 1)
      \/ n = 0 /\ ~allow /\ Fail("invalid UTF-8 encoding in string")
  BY Zenon DEF CopyUtf8
<1>3. /\ InText /\ src \in Nat /\ src \in 1 .. Len(mem) /\ EndOfText \in Nat /\ mem[src] \in Byte
  BY <1>1, Copying
<1>4. CASE n > 0 /\ mem' = Stored(dst, Loaded(Width(n))) /\ Advance(n, n)
  <2>1. n \in 2 .. 4 /\ CharAt(mem, src, n) /\ src + n <= EndOfText
    BY <1>3, <1>4, SeqAt, Zenon
  <2>2. Covered(mem, src, src + n)
    BY <1>3, <2>1, OneCharCovers, Zenon
  <2> HIDE DEF n
  <2>3. n \in Nat /\ n > 0
    BY <2>1
  <2>4. Width(n) \in Nat /\ n <= Width(n) /\ Width(n) <= n + 1
    BY <2>3, WidthIs
  <2> QED
    BY <1>1, <1>4, <2>1, <2>2, <2>3, <2>4, MoveKeeps, Zenon
<1>5. CASE allow /\ mem' = Stored(dst, Loaded(2)) /\ Advance(1, 1)
  <2>1. src < EndOfText
    BY <1>1, <1>3, NotZero
  <2>2. src + 1 <= EndOfText /\ 1 \in Nat /\ 2 \in Nat /\ 1 > 0 /\ 1 <= 2 /\ 2 <= 1 + 1
    BY <1>3, <2>1
  <2> QED
    BY <1>1, <1>5, <2>2, MoveKeeps, Zenon
<1>6. CASE Fail("invalid UTF-8 encoding in string")
  BY <1>3, <1>6, FailKeeps, Zenon
<1> QED
  BY <1>2, <1>4, <1>5, <1>6, Zenon

\* A control character
LEMMA CopyControlKeeps ==
    ASSUME ReaderInv, CopyControl
    PROVE  ReaderInv' /\ Ahead
<1>1. Reading("copy")
  BY Zenon DEF CopyControl
<1>2. \/ ~allow /\ Fail("unexpected control character in string")
      \/ allow /\ src >= EndOfText /\ Fail("unclosed string")
      \/ allow /\ ~(src >= EndOfText) /\ mem' = Stored(dst, Loaded(1)) /\ Advance(1, 1)
  BY Zenon DEF CopyControl
<1>3. InText /\ src \in Nat /\ EndOfText \in Nat
  BY <1>1, Copying
<1>4. CASE Fail("unexpected control character in string")
  BY <1>3, <1>4, FailKeeps, Zenon
<1>5. CASE Fail("unclosed string")
  BY <1>3, <1>5, FailKeeps, Zenon
<1>6. CASE allow /\ ~(src >= EndOfText) /\ mem' = Stored(dst, Loaded(1)) /\ Advance(1, 1)
  <2>1. src + 1 <= EndOfText /\ 1 \in Nat /\ 1 > 0 /\ 1 <= 1 /\ 1 <= 1 + 1
    BY <1>3, <1>6
  <2> QED
    BY <1>1, <1>6, <2>1, MoveKeeps, Zenon
<1> QED
  BY <1>2, <1>4, <1>5, <1>6, Zenon

\* A character that is made from more bytes of the text than it has
LEMMA DecodeKeeps ==
    ASSUME ReaderInv, Reading("copy"), NEW b \in Seq(Byte), NEW m \in Nat, Len(b) < m,
           src + m <= EndOfText, mem' = Stored(dst, b), Advance(Len(b), m), CharAt(b, 1, Len(b))
    PROVE  ReaderInv' /\ Ahead
<1>1. /\ at = "copy" /\ allow' = allow /\ InText /\ src \in Nat /\ dst \in Nat
  BY Copying
<1>2. at' = at /\ dst' = dst + Len(b) /\ src' = src + m /\ Len(b) \in Nat
  BY DEF Advance
<1>3. /\ Kept(mem', dst', src')
      /\ \A k \in 0 .. Len(b) - 1 : mem'[dst + k] = b[1 + k]
  BY <1>1, <1>2, Decoded
<1>4. CharAt(mem', dst, Len(b))
  <2>1. 1 \in Nat
    OBVIOUS
  <2> QED
    BY <1>1, <1>3, <2>1, CharMoves, Zenon
<1>5. Covered(mem', dst, dst')
  BY <1>1, <1>2, <1>4, OneCharCovers, Zenon
<1>6. dst <= dst'
  BY <1>1, <1>2
<1> QED
  BY <1>1, <1>2, <1>3, <1>5, <1>6, TurnKeeps, Zenon

\* An escape of two characters
LEMMA UnescapeSingleKeeps ==
    ASSUME ReaderInv, UnescapeSingle
    PROVE  ReaderInv' /\ Ahead
<1> DEFINE c == mem[src + 1]
<1>1. Reading("copy") /\ mem[src] = Backslash
  BY Zenon DEF UnescapeSingle
<1>2. \/ c \in DOMAIN Single /\ mem' = Stored(dst, <<Single[c]>>) /\ Advance(1, 2)
      \/ Fail("invalid escaped character in string")
  BY Zenon DEF UnescapeSingle
<1>3. /\ InText /\ src \in Nat /\ EndOfText \in Nat /\ src \in 1 .. Len(mem) /\ Len(mem) \in Nat
      /\ EndOfText = Len(mem) - 3
  BY <1>1, Copying
<1>4. CASE c \in DOMAIN Single /\ mem' = Stored(dst, <<Single[c]>>) /\ Advance(1, 2)
  <2>1. Single[c] \in 0 .. 127 /\ c # 0
    BY <1>4 DEF Single
  <2>2. src < EndOfText
    <3>1. mem[src] # 0
      BY <1>1 DEF Backslash
    <3> QED
      BY <1>3, <3>1, NotZero
  <2>3. src + 1 < EndOfText
    <3>1. src + 1 \in 1 .. Len(mem)
      BY <1>3, <2>2
    <3> QED
      BY <1>3, <2>1, <3>1, NotZero
  <2> DEFINE x == Single[c]
             b == <<x>>
  <2> HIDE DEF x
  <2>4. b \in Seq(Byte) /\ Len(b) = 1 /\ b[1] = x /\ x \in 0 .. 127
    BY <2>1 DEF Byte, x
  <2> HIDE DEF b
  <2>5. CharAt(b, 1, Len(b))
    BY <2>4 DEF CharAt
  <2>6. 2 \in Nat /\ Len(b) < 2 /\ src + 2 <= EndOfText
    BY <1>3, <2>3, <2>4
  <2>7. mem' = Stored(dst, b) /\ Advance(Len(b), 2)
    BY <1>4, <2>4, Zenon DEF b, x
  <2> QED
    BY <1>1, <2>4, <2>5, <2>6, <2>7, DecodeKeeps, Zenon
<1>5. CASE Fail("invalid escaped character in string")
  BY <1>3, <1>5, FailKeeps, Zenon
<1> QED
  BY <1>2, <1>4, <1>5, Zenon

\* The escapes of one code unit, or of a pair of surrogates
LEMMA UnescapeKeeps ==
    ASSUME ReaderInv, Unescape
    PROVE  ReaderInv' /\ Ahead
<1> DEFINE hi == HexU16(src + 2)
           lo == HexU16(src + 8)
           u == Paired(hi, lo)
<1>1. Reading("copy") /\ mem[src] = Backslash /\ mem[src + 1] = LetterU
  BY Zenon DEF Unescape
<1>2. IF hi = -1 THEN Fail("invalid escaped sequence in string") ELSE UnescapeCode(hi)
  BY Zenon DEF Unescape
<1>3. /\ InText /\ src \in Nat /\ EndOfText \in Nat /\ src \in 1 .. Len(mem) /\ Len(mem) \in Nat
      /\ EndOfText = Len(mem) - 3 /\ 2 <= src
  BY <1>1, Copying, SMT
<1>4. 0 # Backslash /\ 0 # LetterU
  BY SMT DEF Backslash, LetterU
<1>5. src + 2 <= EndOfText
  <2>1. src < EndOfText
    BY <1>1, <1>3, <1>4, NotZero, SMT
  <2>2. src + 1 \in 1 .. Len(mem)
    BY <1>3, <2>1, SMT
  <2>3. src + 1 < EndOfText
    BY <1>1, <1>3, <1>4, <2>2, NotZero, SMT
  <2> QED
    BY <1>3, <2>3, SMT
<1>6. ASSUME hi # -1
      PROVE  hi \in Nat /\ hi <= 65535 /\ src + 6 <= EndOfText
  <2>1. src + 2 \in Nat /\ 2 <= src + 2 /\ (src + 2) + 4 = src + 6
    BY <1>3, SMT
  <2> HIDE DEF lo, u
  <2>2. hi \in Nat /\ hi <= 65535 /\ (src + 2) + 4 <= EndOfText
    BY <1>3, <1>5, <1>6, <2>1, HexIs, SMT
  <2> QED
    BY <2>1, <2>2, SMT
<1>7. CASE hi = -1
  <2>1. Fail("invalid escaped sequence in string")
    BY <1>2, <1>7, Zenon
  <2> QED
    BY <1>3, <2>1, FailKeeps, Zenon
<1>8. CASE hi # -1 /\ ~IsSurrogate(hi)
  <2>1. mem' = Stored(dst, ToUtf8(hi)) /\ Advance(Len(ToUtf8(hi)), 6)
    BY <1>2, <1>8, Zenon DEF UnescapeCode
  <2>2. IsCode(hi) /\ hi < 65536
    BY <1>6, <1>8, UnitIsCode, SMT
  <2> HIDE DEF hi
  <2>3. /\ ToUtf8(hi) \in Seq(Byte) /\ Len(ToUtf8(hi)) <= 3 /\ Len(ToUtf8(hi)) \in 1 .. 4
        /\ CharAt(ToUtf8(hi), 1, Len(ToUtf8(hi)))
    BY <2>2, Utf8Is, SMT
  <2>4. Len(ToUtf8(hi)) < 6 /\ 6 \in Nat
    BY <2>3, SMT
  <2>5. src + 6 <= EndOfText
    BY <1>6, <1>8, SMT
  <2> QED
    BY <1>1, <2>1, <2>3, <2>4, <2>5, DecodeKeeps, Zenon
<1>9. CASE /\ hi # -1 /\ IsHigh(hi) /\ mem[src + 6] = Backslash /\ mem[src + 7] = LetterU
           /\ lo # -1 /\ IsLow(lo) /\ IsSurrogate(hi)
  <2>1. mem' = Stored(dst, ToUtf8(u)) /\ Advance(4, 12)
    BY <1>2, <1>9, Zenon DEF UnescapeCode
  <2>2. src + 6 <= EndOfText /\ hi \in Nat
    BY <1>6, <1>9, SMT
  <2>3. src + 8 <= EndOfText
    <3>1. src + 6 \in 1 .. Len(mem)
      BY <1>3, <2>2, SMT
    <3>2. src + 6 < EndOfText
      BY <1>3, <1>4, <1>9, <3>1, NotZero, SMT
    <3>3. src + 7 \in 1 .. Len(mem)
      BY <1>3, <3>2, SMT
    <3>4. src + 7 < EndOfText
      BY <1>3, <1>4, <1>9, <3>3, NotZero, SMT
    <3> QED
      BY <1>3, <3>4, SMT
  <2>4. lo \in Nat /\ (src + 8) + 4 <= EndOfText
    <3>1. src + 8 \in Nat /\ 2 <= src + 8
      BY <1>3, SMT
    <3> HIDE DEF hi, u
    <3> QED
      BY <1>3, <1>9, <2>3, <3>1, HexIs, SMT
  <2>5. src + 12 <= EndOfText
    BY <1>3, <2>4, SMT
  <2>6. IsCode(u) /\ u >= 65536
    <3> HIDE DEF hi, lo
    <3> QED
      BY <1>9, <2>2, <2>4, PairIsCode, SMT
  <2> HIDE DEF hi, lo, u
  <2>7. /\ ToUtf8(u) \in Seq(Byte) /\ Len(ToUtf8(u)) = 4 /\ CharAt(ToUtf8(u), 1, Len(ToUtf8(u)))
    BY <2>6, Utf8Is, SMT
  <2>8. Len(ToUtf8(u)) < 12 /\ 12 \in Nat /\ Advance(Len(ToUtf8(u)), 12)
    BY <2>1, <2>7, SMT
  <2> QED
    BY <1>1, <2>1, <2>5, <2>7, <2>8, DecodeKeeps, Zenon
<1>10. CASE /\ hi # -1 /\ IsSurrogate(hi)
            /\ ~(/\ IsHigh(hi) /\ mem[src + 6] = Backslash /\ mem[src + 7] = LetterU
                 /\ lo # -1 /\ IsLow(lo))
  <2>1. \E msg : Fail(msg)
    BY <1>2, <1>10, Zenon DEF UnescapeCode
  <2> QED
    BY <1>3, <2>1, FailKeeps, Zenon
<1> QED
  BY <1>7, <1>8, <1>9, <1>10, SMT

\* No turn of the reader spoils what is not read, or leaves what is no character.
LEMMA ReadKeeps ==
    ASSUME StringTypes, ReaderInv, Read
    PROVE  ReaderInv' /\ Ahead
BY SkipKeeps, BeginCopyKeeps, CloseKeeps, CopyAsciiKeeps, CopyUtf8Keeps, CopyControlKeeps,
   UnescapeSingleKeeps, UnescapeKeeps, Zenon DEF Read

-----------------------------------------------------------------------------
(***************************************************************************)
(* The writer: what it wrote so far                                        *)
(***************************************************************************)

IsAscii(s) == \A i \in 1 .. Len(s) : s[i] < 128
WriterInv ==
    /\ at = "write" =>
           /\ src \in 1 .. Len(Bytes) + 1
           /\ 1 <= Len(out) /\ Len(out) + 1 <= 6 * (src - 1) + 2
           /\ ~flg.inv => Covered(out, 1, Len(out) + 1)
    /\ at = "text" =>
           /\ 1 <= Len(out) /\ Len(out) <= 6 * Len(Bytes) + 2
           /\ flg.inv \/ Unseen \/ Covered(out, 1, Len(out) + 1)
    /\ flg.esc => IsAscii(out)

\* A digit of the table
LEMMA UpperIs ==
    ASSUME NEW x \in Nat
    PROVE  Upper[x % 16] \in 48 .. 70
<1>1. x % 16 \in 0 .. 15
  BY SMT
<1>2. \A d \in 0 .. 15 : Upper[d] \in 48 .. 70
  BY SMT DEF Upper
<1> QED
  BY <1>1, <1>2, Zenon

\* An escape is six characters of ASCII.
LEMMA UEscapeIs ==
    ASSUME NEW u \in Nat
    PROVE  UEscape(u) \in Seq(Byte) /\ Len(UEscape(u)) = 6 /\ IsAscii(UEscape(u))
<1> DEFINE w == UEscape(u)
           q1 == u \div 4096
           q2 == u \div 256
           q3 == u \div 16
           q4 == u \div 1
           d1 == Upper[q1 % 16]
           d2 == Upper[q2 % 16]
           d3 == Upper[q3 % 16]
           d4 == Upper[q4 % 16]
           S == 48 .. 117
<1>1. q1 \in Nat /\ q2 \in Nat /\ q3 \in Nat /\ q4 \in Nat
  BY SMT
<1>3. w = <<Backslash, LetterU, d1, d2, d3, d4>>
  BY SMT DEF UEscape
<1> HIDE DEF q1, q2, q3, q4
<1>2. d1 \in 48 .. 70 /\ d2 \in 48 .. 70 /\ d3 \in 48 .. 70 /\ d4 \in 48 .. 70
  <2>1. d1 \in 48 .. 70
    BY <1>1, UpperIs, Zenon
  <2>2. d2 \in 48 .. 70
    BY <1>1, UpperIs, Zenon
  <2>3. d3 \in 48 .. 70
    BY <1>1, UpperIs, Zenon
  <2>4. d4 \in 48 .. 70
    BY <1>1, UpperIs, Zenon
  <2> QED
    BY <2>1, <2>2, <2>3, <2>4, Zenon
<1> HIDE DEF d1, d2, d3, d4, w
<1>4. /\ Backslash \in S /\ LetterU \in S /\ d1 \in S /\ d2 \in S /\ d3 \in S /\ d4 \in S
      /\ S \subseteq Byte
  BY <1>2, SMT DEF Backslash, LetterU, Byte
<1>5. ASSUME NEW x \in S PROVE x < 128
  BY SMT
<1> HIDE DEF S
<1>6. w \in Seq(S) /\ Len(w) = 6
  BY <1>3, <1>4
<1>7. w \in Seq(Byte) /\ \A i \in 1 .. Len(w) : w[i] \in S
  BY <1>4, <1>6, SomeBytes, Zenon
<1>8. IsAscii(w)
  BY <1>5, <1>7, Zenon DEF IsAscii
<1> QED
  BY <1>6, <1>7, <1>8, Zenon DEF w

\* What is written after what was written before
LEMMA JoinedIs ==
    ASSUME NEW s \in Seq(Byte), NEW w \in Seq(Byte), NEW p, p = s \o w
    PROVE  /\ p \in Seq(Byte) /\ Len(p) = Len(s) + Len(w)
           /\ Covered(s, 1, Len(s) + 1) /\ Covered(w, 1, Len(w) + 1) => Covered(p, 1, Len(p) + 1)
           /\ IsAscii(s) /\ IsAscii(w) => IsAscii(p)
<1> DEFINE n == Len(s)
           m == Len(w)
<1>1. n \in Nat /\ m \in Nat
  OBVIOUS
<1>2. /\ p \in Seq(Byte) /\ Len(p) = n + m
      /\ \A i \in 1 .. n + m : p[i] = IF i <= n THEN s[i] ELSE w[i - n]
  BY ConcatProperties
<1> HIDE DEF n, m
<1>3. \A i \in 1 .. n : p[i] = s[i]
  BY <1>1, <1>2
<1>4. \A k \in 1 .. m : p[n + k] = w[k]
  <2> SUFFICES ASSUME NEW k \in 1 .. m PROVE p[n + k] = w[k]
    OBVIOUS
  <2>1. n + k \in 1 .. n + m /\ ~(n + k <= n) /\ (n + k) - n = k
    BY <1>1
  <2> QED
    BY <1>2, <2>1
<1>5. ASSUME Covered(s, 1, n + 1), Covered(w, 1, m + 1)
      PROVE  Covered(p, 1, (n + m) + 1)
  <2>1. \A k \in 0 .. (m + 1) - 1 - 1 : p[(n + 1) + k] = w[1 + k]
    <3> SUFFICES ASSUME NEW k \in 0 .. (m + 1) - 1 - 1 PROVE p[(n + 1) + k] = w[1 + k]
      OBVIOUS
    <3>1. 1 + k \in 1 .. m /\ n + (1 + k) = (n + 1) + k
      BY <1>1
    <3> QED
      BY <1>4, <3>1
  <2>2. Covered(p, n + 1, (n + 1) + ((m + 1) - 1))
    <3>1. 1 \in Nat /\ m + 1 \in Nat /\ n + 1 \in Nat /\ 1 <= m + 1
      BY <1>1
    <3> QED
      BY <1>5, <2>1, <3>1, CoveredMoves
  <2>3. (n + 1) + ((m + 1) - 1) = (n + m) + 1 /\ n + 1 \in Nat /\ (n + m) + 1 \in Nat /\ 1 \in Nat
        /\ 1 <= n + 1 /\ n + 1 <= (n + m) + 1
    BY <1>1
  <2>4. (n + 1) - 1 = n
    BY <1>1
  <2>5. \A i \in 1 .. (n + 1) - 1 : p[i] = s[i]
    BY <1>3, <2>4
  <2>6. Covered(p, n + 1, (n + m) + 1)
    BY <2>2, <2>3
  <2> DEFINE a == n + 1
             b == (n + m) + 1
  <2>7. /\ 1 \in Nat /\ a \in Nat /\ b \in Nat /\ 1 <= a /\ a <= b
        /\ Covered(s, 1, a) /\ Covered(p, a, b) /\ \A i \in 1 .. a - 1 : p[i] = s[i]
    BY <1>5, <2>3, <2>5, <2>6, Zenon
  <2> HIDE DEF a, b
  <2>8. Covered(p, 1, b)
    BY <2>7, CoveredGrows, Zenon
  <2> QED
    BY <2>8, Zenon DEF b
<1>6. ASSUME IsAscii(s), IsAscii(w)
      PROVE  IsAscii(p)
  <2> SUFFICES ASSUME NEW i \in 1 .. n + m PROVE p[i] < 128
    BY <1>2 DEF IsAscii
  <2>1. CASE i <= n
    <3>1. i \in 1 .. n
      BY <1>1, <2>1
    <3> QED
      BY <1>3, <1>6, <3>1 DEF IsAscii, n
  <2>2. CASE ~(i <= n)
    <3>1. i - n \in 1 .. m /\ n + (i - n) = i
      BY <1>1, <2>2
    <3> QED
      BY <1>4, <1>6, <3>1 DEF IsAscii, m
  <2> QED
    BY <2>1, <2>2
<1> QED
  BY <1>2, <1>5, <1>6 DEF n, m

\* ASCII is well formed.
LEMMA AsciiIsCovered ==
    ASSUME NEW s \in Seq(Byte), IsAscii(s)
    PROVE  Covered(s, 1, Len(s) + 1)
<1>1. Len(s) \in Nat /\ \A i \in 1 .. Len(s) : s[i] \in Byte
  OBVIOUS
<1>2. 1 \in Nat /\ Len(s) + 1 \in Nat /\ (Len(s) + 1) - 1 = Len(s)
  BY <1>1
<1>3. \A i \in 1 .. Len(s) : s[i] \in 0 .. 127
  BY <1>1, ByteIs, Zenon DEF IsAscii
<1> QED
  BY <1>2, <1>3, AsciiCovers

\* A code point that is taken from bytes is a number, and so are its surrogates.
LEMMA CodePointIs ==
    ASSUME NEW c \in Seq(Byte), Len(c) \in 2 .. 4
    PROVE  CodePoint(c) \in Nat
<1>1. \A k \in 1 .. Len(c) : c[k] \in Nat
  <2>1. \A k \in 1 .. Len(c) : c[k] \in Byte
    OBVIOUS
  <2> QED
    BY <2>1, ByteIs, Zenon
<1> DEFINE c1 == c[1]
           c2 == c[2]
           c3 == c[3]
           c4 == c[4]
<1>2. CASE Len(c) = 2
  <2>1. c1 \in Nat /\ c2 \in Nat
    BY <1>1, <1>2, SMT
  <2>2. CodePoint(c) = (c1 % 32) * 64 + (c2 % 64)
    BY <1>2, SMT DEF CodePoint
  <2> HIDE DEF c1, c2
  <2> QED
    BY <2>1, <2>2, SMT
<1>3. CASE Len(c) = 3
  <2>1. c1 \in Nat /\ c2 \in Nat /\ c3 \in Nat
    BY <1>1, <1>3, SMT
  <2>2. CodePoint(c) = (c1 % 16) * 4096 + (c2 % 64) * 64 + (c3 % 64)
    BY <1>3, SMT DEF CodePoint
  <2> HIDE DEF c1, c2, c3
  <2> QED
    BY <2>1, <2>2, SMT
<1>4. CASE Len(c) = 4
  <2>1. c1 \in Nat /\ c2 \in Nat /\ c3 \in Nat /\ c4 \in Nat
    BY <1>1, <1>4, SMT
  <2>2. CodePoint(c) = (c1 % 8) * 262144 + (c2 % 64) * 4096 + (c3 % 64) * 64 + (c4 % 64)
    BY <1>4, SMT DEF CodePoint
  <2> HIDE DEF c1, c2, c3, c4
  <2> DEFINE e1 == c1 % 8
             e2 == c2 % 64
             e3 == c3 % 64
             e4 == c4 % 64
  <2>3. e1 \in Nat /\ e2 \in Nat /\ e3 \in Nat /\ e4 \in Nat
    BY <2>1, SMT
  <2>4. CodePoint(c) = e1 * 262144 + e2 * 4096 + e3 * 64 + e4
    BY <2>2, SMT
  <2> HIDE DEF e1, e2, e3, e4
  <2> QED
    BY <2>3, <2>4, SMT
<1> QED
  BY <1>2, <1>3, <1>4, SMT

\* The surrogates of a code point that needs two
LEMMA SurrogatesAre ==
    ASSUME NEW u \in Nat, ~IsBasic(u)
    PROVE  HighOf(u) \in Nat /\ LowOf(u) \in Nat
<1> DEFINE v == u - 65536
<1>1. v \in Nat
  BY SMT DEF IsBasic
<1>2. HighOf(u) = 55296 + v \div 1024 /\ LowOf(u) = 56320 + (v % 1024)
  BY SMT DEF HighOf, LowOf
<1> HIDE DEF v
<1> QED
  BY <1>1, <1>2, SMT

\* Six characters for each byte
LEMMA SixEach ==
    ASSUME NEW k \in 1 .. 4, NEW m, m = 6 \/ (m = 12 /\ k # 1)
    PROVE  m \in Nat /\ m <= 6 * k
BY SMT

\* A character that is escaped
LEMMA EscapeIs ==
    ASSUME NEW c \in Seq(Byte), Len(c) \in 1 .. 4
    PROVE  /\ Escape(c) \in Seq(Byte) /\ Len(Escape(c)) \in Nat /\ Len(Escape(c)) <= 6 * Len(c)
           /\ IsAscii(Escape(c))
<1> DEFINE w == Escape(c)
           u == CodePoint(c)
<1>1. \A k \in 1 .. Len(c) : c[k] \in Byte
  OBVIOUS
<1>2. CASE Len(c) = 1 /\ HasSingle(c[1])
  <2> DEFINE l == Letter[c[1]]
  <2>1. w = <<Backslash, l>>
    BY <1>2, Zenon DEF Escape
  <2>2. l \in 0 .. 127
    <3>1. c[1] \in DOMAIN Letter
      BY <1>2 DEF HasSingle, Letter, Quote, Backslash, Slash
    <3> QED
      BY <3>1 DEF Letter
  <2>3. Backslash \in 0 .. 127 /\ 0 .. 127 \subseteq Byte
    BY DEF Byte, Backslash
  <2> DEFINE S == 0 .. 127
  <2>4. ASSUME NEW x \in S PROVE x < 128
    OBVIOUS
  <2> HIDE DEF l, S, w
  <2>5. w \in Seq(S) /\ Len(w) = 2 /\ S \subseteq Byte
    BY <2>1, <2>2, <2>3 DEF S
  <2>6. w \in Seq(Byte) /\ \A i \in 1 .. Len(w) : w[i] \in S
    BY <2>5, SomeBytes, Zenon
  <2>7. IsAscii(w)
    BY <2>4, <2>6, Zenon DEF IsAscii
  <2> QED
    BY <1>2, <2>5, <2>6, <2>7 DEF w
<1>3. CASE Len(c) = 1 /\ ~HasSingle(c[1])
  <2>1. w = UEscape(c[1])
    BY <1>3, Zenon DEF Escape
  <2>2. c[1] \in Nat
    <3>1. 1 \in 1 .. Len(c)
      BY <1>3
    <3> QED
      BY <1>1, <3>1, ByteIs, Zenon
  <2> HIDE DEF w
  <2>3. w \in Seq(Byte) /\ Len(w) = 6 /\ IsAscii(w)
    BY <2>1, <2>2, UEscapeIs, Zenon
  <2>4. Len(w) \in Nat /\ Len(w) <= 6 * Len(c)
    BY <2>3, SixEach, Zenon
  <2> QED
    BY <2>3, <2>4, Zenon DEF w
<1>4. Len(c) # 1 => u \in Nat
  <2>1. Len(c) # 1 => Len(c) \in 2 .. 4
    OBVIOUS
  <2> QED
    BY <2>1, CodePointIs, Zenon
<1>5. CASE Len(c) # 1 /\ IsBasic(u)
  <2>1. w = UEscape(u)
    BY <1>5, Zenon DEF Escape
  <2> HIDE DEF w, u
  <2>2. w \in Seq(Byte) /\ Len(w) = 6 /\ IsAscii(w)
    BY <1>4, <1>5, <2>1, UEscapeIs, Zenon
  <2>3. Len(w) \in Nat /\ Len(w) <= 6 * Len(c)
    BY <2>2, SixEach, Zenon
  <2> QED
    BY <2>2, <2>3, Zenon DEF w
<1>6. CASE Len(c) # 1 /\ ~IsBasic(u)
  <2> DEFINE hi == HighOf(u)
             lo == LowOf(u)
  <2>1. w = UEscape(hi) \o UEscape(lo)
    BY <1>6, Zenon DEF Escape
  <2>2. hi \in Nat /\ lo \in Nat
    BY <1>4, <1>6, SurrogatesAre, Zenon
  <2> HIDE DEF hi, lo, w
  <2>3. UEscape(hi) \in Seq(Byte) /\ Len(UEscape(hi)) = 6 /\ IsAscii(UEscape(hi))
    BY <2>2, UEscapeIs, Zenon
  <2>4. UEscape(lo) \in Seq(Byte) /\ Len(UEscape(lo)) = 6 /\ IsAscii(UEscape(lo))
    BY <2>2, UEscapeIs, Zenon
  <2>5. w \in Seq(Byte) /\ Len(w) = Len(UEscape(hi)) + Len(UEscape(lo)) /\ IsAscii(w)
    BY <2>1, <2>3, <2>4, JoinedIs, Zenon
  <2>6. Len(w) = 12 /\ Len(c) # 1
    BY <1>6, <2>3, <2>4, <2>5
  <2>7. Len(w) \in Nat /\ Len(w) <= 6 * Len(c)
    BY <2>6, SixEach, Zenon
  <2> QED
    BY <2>5, <2>7, Zenon DEF w
<1> QED
  BY <1>2, <1>3, <1>5, <1>6

\* The table of the lengths
LEMMA LengthIs ==
    ASSUME NEW x \in Byte
    PROVE  CharLen(x) \in 0 .. 4 /\ (CharLen(x) = 1 => x \in 0 .. 127)
BY SMT DEF CharLen, Byte

\* Where write_string finds a character
LEMMA ValidIs ==
    ASSUME NEW s \in Seq(Byte), src \in 1 .. Len(s), NEW n, n = ValidLen(s), n > 0
    PROVE  n \in 1 .. 4 /\ src + n - 1 <= Len(s) /\ CharAt(s, src, n)
<1>1. Len(s) \in Nat /\ src \in Nat /\ s[src] \in Byte
  OBVIOUS
<1> DEFINE x == s[src]
<1>2. n = CharLen(x) /\ ~(src + n - 1 > Len(s)) /\ ~(n > 1 /\ SeqLen(s, src) # n)
  BY SMT DEF ValidLen
<1> HIDE DEF x
<1>3. n \in 1 .. 4 /\ (n = 1 => x \in 0 .. 127)
  <2>1. x \in Byte
    BY <1>1 DEF x
  <2>2. n \in 0 .. 4 /\ (n = 1 => x \in 0 .. 127)
    BY <1>2, <2>1, LengthIs, Zenon
  <2> QED
    BY <2>2
<1>4. src + n - 1 <= Len(s)
  BY <1>1, <1>2, <1>3
<1>5. CharAt(s, src, n)
  <2>1. CASE n = 1
    BY <1>3, <2>1 DEF CharAt, x
  <2>2. CASE n # 1
    <3>1. n = SeqLen(s, src) /\ n # 0
      BY <1>2, <1>3, <2>2
    <3>2. ASSUME NEW k \in 0 .. n - 1 PROVE s[src + k] \in Byte
      <4>1. src + k \in 1 .. Len(s)
        BY <1>1, <1>3, <1>4
      <4> QED
        BY <4>1
    <3> QED
      BY <1>1, <3>1, <3>2, SeqIs, Zenon
  <2> QED
    BY <2>1, <2>2
<1> QED
  BY <1>3, <1>4, <1>5

\* One byte of ASCII
LEMMA OneAscii ==
    ASSUME NEW s, Len(s) = 1, s[1] \in 0 .. 127
    PROVE  IsAscii(s)
<1>1. \A i \in 1 .. 1 : i = 1
  OBVIOUS
<1>2. \A x \in 0 .. 127 : x < 128
  OBVIOUS
<1> QED
  BY <1>1, <1>2, Zenon DEF IsAscii

\* What is written for a character: characters, in ASCII if that was asked for
LEMMA WrittenIs ==
    ASSUME NEW s \in Seq(Byte), src \in 1 .. Len(s), NEW n, n = ValidLen(s), n > 0,
           NEW w, w = Written(SubSeq(s, src, src + n - 1))
    PROVE  /\ w \in Seq(Byte) /\ Len(w) \in Nat /\ Len(w) <= 6 * n
           /\ Covered(w, 1, Len(w) + 1) /\ (flg.esc => IsAscii(w))
<1> DEFINE c == SubSeq(s, src, src + n - 1)
<1>1. n \in 1 .. 4 /\ src + n - 1 <= Len(s) /\ CharAt(s, src, n) /\ src \in Nat /\ Len(s) \in Nat
  BY ValidIs
<1>2. c \in Seq(Byte) /\ Len(c) = n /\ \A k \in 1 .. n : c[k] = s[src + k - 1]
  <2>1. src \in Int /\ src + n - 1 \in Int /\ \A i \in src .. src + n - 1 : s[i] \in Byte
    BY <1>1
  <2>2. /\ c \in Seq(Byte)
        /\ Len(c) = IF src <= src + n - 1 THEN (src + n - 1) - src + 1 ELSE 0
        /\ \A k \in 1 .. (src + n - 1) - src + 1 : c[k] = s[src + k - 1]
    BY <2>1, SubSeqProperties
  <2>3. (src + n - 1) - src + 1 = n /\ src <= src + n - 1
    BY <1>1
  <2> HIDE DEF c
  <2> QED
    BY <2>2, <2>3
<1> HIDE DEF c
<1>3. CharAt(c, 1, n)
  <2>1. \A k \in 0 .. n - 1 : c[1 + k] = s[src + k]
    <3> SUFFICES ASSUME NEW k \in 0 .. n - 1 PROVE c[1 + k] = s[src + k]
      OBVIOUS
    <3>1. 1 + k \in 1 .. n /\ src + (1 + k) - 1 = src + k
      BY <1>1
    <3> QED
      BY <1>2, <3>1
  <2>2. 1 \in Nat
    OBVIOUS
  <2> QED
    BY <1>1, <2>1, <2>2, CharMoves, Zenon
<1> DEFINE escaped == IF Len(c) = 1 THEN c[1] < 32 \/ HasSingle(c[1]) ELSE flg.esc
<1>4. w = IF escaped THEN Escape(c) ELSE c
  BY Zenon DEF Written, c
<1>5. CASE escaped
  <2>1. w = Escape(c)
    BY <1>4, <1>5, Zenon
  <2>2. w \in Seq(Byte) /\ Len(w) \in Nat /\ Len(w) <= 6 * n /\ IsAscii(w)
    BY <1>1, <1>2, <2>1, EscapeIs, Zenon
  <2> QED
    BY <2>2, AsciiIsCovered, Zenon
<1>6. CASE ~escaped
  <2>1. w = c
    BY <1>4, <1>6, Zenon
  <2>2. Covered(w, 1, 1 + n)
    <3>1. 1 \in Nat
      OBVIOUS
    <3> QED
      BY <1>3, <2>1, <3>1, OneCharCovers, Zenon
  <2>3. 1 + n = Len(w) + 1 /\ Len(w) \in Nat /\ Len(w) <= 6 * n
    BY <1>1, <1>2, <2>1
  <2>4. ASSUME flg.esc
        PROVE  IsAscii(w)
    <3>1. n = 1
      BY <1>2, <1>6, <2>4, Zenon
    <3>2. c[1] \in 0 .. 127
      BY <1>3, <3>1 DEF CharAt
    <3>3. Len(w) = 1 /\ w[1] \in 0 .. 127
      BY <1>2, <2>1, <3>1, <3>2, Zenon
    <3> QED
      BY <3>3, OneAscii, Zenon
  <2> QED
    BY <1>2, <2>1, <2>2, <2>3, <2>4
<1> QED
  BY <1>5, <1>6

\* A character, or an invalid byte, is written.
LEMMA PutKeeps ==
    ASSUME StringTypes, WriterInv, Writing, src <= Len(Bytes), NEW w \in Seq(Byte), NEW n \in 1 .. 4,
           src + n - 1 <= Len(Bytes), Len(w) <= 6 * n, Put(w, n),
           ~flg.inv => Covered(w, 1, Len(w) + 1), flg.esc => IsAscii(w)
    PROVE  StringTypes' /\ WriterInv'
<1>1. /\ at = "write" /\ at' = at /\ flg' = flg /\ val' = val /\ allow' = allow /\ mem' = mem
      /\ first' = first
  BY Zenon DEF Writing, Put
<1>2. out' = out \o w /\ src' = src + n
  BY DEF Put
<1>3. out \in Seq(Byte) /\ Len(out) \in Nat /\ Len(w) \in Nat /\ Bytes' = Bytes
  BY <1>1 DEF StringTypes, Bytes
<1>4. /\ out' \in Seq(Byte) /\ Len(out') = Len(out) + Len(w)
      /\ Covered(out, 1, Len(out) + 1) /\ Covered(w, 1, Len(w) + 1) => Covered(out', 1, Len(out') + 1)
      /\ IsAscii(out) /\ IsAscii(w) => IsAscii(out')
  BY <1>2, <1>3, JoinedIs, Zenon
<1>5. /\ src \in 1 .. Len(Bytes) + 1 /\ 1 <= Len(out) /\ Len(out) + 1 <= 6 * (src - 1) + 2
      /\ ~flg.inv => Covered(out, 1, Len(out) + 1)
      /\ flg.esc => IsAscii(out)
  BY <1>1 DEF WriterInv
<1>6. Len(Bytes) \in Nat
  BY DEF StringTypes, Strung, Bytes
<1>7. src' \in 1 .. Len(Bytes) + 1
  BY <1>2, <1>5, <1>6
<1>8. 1 <= Len(out') /\ Len(out') + 1 <= 6 * (src' - 1) + 2
  <2> DEFINE m == Len(w)
             l == Len(out)
  <2>1. m \in Nat /\ l \in Nat /\ src \in Nat /\ n \in Nat /\ 1 <= l /\ l + 1 <= 6 * (src - 1) + 2 /\ m <= 6 * n
    BY <1>3, <1>5, <1>6
  <2>2. Len(out') = l + m /\ src' = src + n
    BY <1>2, <1>4
  <2> HIDE DEF m, l
  <2> QED
    BY <2>1, <2>2
<1>9. StringTypes'
  BY <1>1, <1>4 DEF StringTypes
<1>10. ~flg.inv => Covered(out', 1, Len(out') + 1)
  BY <1>4, <1>5, Zenon
<1>11. flg.esc => IsAscii(out')
  BY <1>4, <1>5, Zenon
<1>12. at' # "text"
  BY <1>1
<1> QED
  BY <1>1, <1>3, <1>7, <1>8, <1>9, <1>10, <1>11, <1>12, Zenon DEF WriterInv

\* write_string at a valid character
LEMMA WriteCharKeeps ==
    ASSUME StringTypes, WriterInv, WriteChar
    PROVE  StringTypes' /\ WriterInv'
<1> DEFINE n == ValidLen(Bytes)
           w == Written(SubSeq(Bytes, src, src + n - 1))
<1>1. Writing /\ src <= Len(Bytes) /\ n > 0 /\ Put(w, n)
  BY Zenon DEF WriteChar
<1>2. at = "write" /\ Bytes \in Seq(Byte) /\ src \in 1 .. Len(Bytes)
  <2>1. at = "write" /\ Bytes \in Seq(Byte)
    BY <1>1 DEF Writing, StringTypes, Strung, Bytes
  <2> HIDE DEF n, w
  <2> QED
    BY <1>1, <2>1 DEF WriterInv
<1>3. n \in 1 .. 4 /\ src + n - 1 <= Len(Bytes)
  BY <1>1, <1>2, ValidIs, Zenon
<1>4. /\ w \in Seq(Byte) /\ Len(w) <= 6 * n
      /\ Covered(w, 1, Len(w) + 1) /\ (flg.esc => IsAscii(w))
  BY <1>1, <1>2, WrittenIs, Zenon
<1> HIDE DEF n, w
<1> QED
  BY <1>1, <1>3, <1>4, PutKeeps, Zenon

\* An invalid byte is copied or replaced, or the writer gives up.
LEMMA WriteInvalidKeeps ==
    ASSUME StringTypes, WriterInv, WriteInvalid
    PROVE  StringTypes' /\ WriterInv'
<1> DEFINE w == IF flg.esc THEN UEscape(Replacement) ELSE <<Bytes[src]>>
<1>1. Writing /\ src <= Len(Bytes)
  BY Zenon DEF WriteInvalid
<1>2. IF flg.inv THEN Put(w, 1) ELSE at' = "error" /\ UNCHANGED <<out, src>>
  BY Zenon DEF WriteInvalid
<1>3. at = "write" /\ Bytes \in Seq(Byte) /\ src \in 1 .. Len(Bytes) /\ Len(Bytes) \in Nat
  <2>1. at = "write" /\ Bytes \in Seq(Byte)
    BY <1>1 DEF Writing, StringTypes, Strung, Bytes
  <2> HIDE DEF w
  <2> QED
    BY <1>1, <2>1 DEF WriterInv
<1>4. CASE flg.inv
  <2>1. w \in Seq(Byte) /\ Len(w) <= 6 * 1 /\ (flg.esc => IsAscii(w))
    <3>1. CASE flg.esc
      <4>1. Replacement \in Nat
        BY SMT DEF Replacement
      <4>2. w = UEscape(Replacement)
        BY <3>1, Zenon
      <4> HIDE DEF w
      <4>3. w \in Seq(Byte) /\ Len(w) = 6 /\ IsAscii(w)
        BY <4>1, <4>2, UEscapeIs, Zenon
      <4> QED
        BY <4>3
    <3>2. CASE ~flg.esc
      <4>1. w = <<Bytes[src]>> /\ Bytes[src] \in Byte
        BY <1>3, <3>2
      <4> HIDE DEF w
      <4> QED
        BY <3>2, <4>1
    <3> QED
      BY <3>1, <3>2, Zenon
  <2> HIDE DEF w
  <2>2. 1 \in 1 .. 4 /\ src + 1 - 1 <= Len(Bytes)
    BY <1>3
  <2>3. Put(w, 1)
    BY <1>2, <1>4, Zenon
  <2> QED
    BY <1>1, <1>4, <2>1, <2>2, <2>3, PutKeeps, Zenon
<1>5. CASE ~flg.inv
  <2>1. /\ at' = "error" /\ out' = out /\ flg' = flg /\ val' = val /\ allow' = allow /\ mem' = mem
        /\ first' = first
    BY <1>1, <1>2, <1>5, Zenon DEF Writing
  <2> QED
    BY <2>1 DEF StringTypes, WriterInv, Places
<1> QED
  BY <1>4, <1>5, Zenon

\* The closing quote
LEMMA WriteCloseKeeps ==
    ASSUME StringTypes, WriterInv, WriteClose
    PROVE  StringTypes' /\ WriterInv'
<1>1. /\ at = "write" /\ at' = "text" /\ out' = Append(out, Quote) /\ ~(src <= Len(Bytes))
      /\ flg' = flg /\ val' = val /\ allow' = allow /\ mem' = mem /\ first' = first
  <2>1. Writing /\ src > Len(Bytes) /\ at' = "text" /\ out' = Append(out, Quote)
    BY Zenon DEF WriteClose
  <2>2. Len(Bytes) \in Nat /\ src \in 1 .. Len(Bytes) + 1
    BY <2>1 DEF Writing, StringTypes, Strung, Bytes, WriterInv
  <2>3. ~(src <= Len(Bytes))
    BY <2>1, <2>2
  <2> QED
    BY <2>1, <2>3, Zenon DEF Writing
<1>2. out \in Seq(Byte) /\ Len(out) \in Nat /\ Bytes' = Bytes /\ Len(Bytes) \in Nat
  BY <1>1 DEF StringTypes, Strung, Bytes
<1>3. Quote \in 0 .. 127 /\ <<Quote>> \in Seq(Byte) /\ Len(<<Quote>>) = 1 /\ <<Quote>>[1] = Quote
  BY DEF Quote, Byte
<1>4. IsAscii(<<Quote>>) /\ Covered(<<Quote>>, 1, Len(<<Quote>>) + 1)
  BY <1>3, OneAscii, AsciiIsCovered, Zenon
<1>5. out' = out \o <<Quote>>
  BY <1>1, <1>2
<1>6. /\ out' \in Seq(Byte) /\ Len(out') = Len(out) + Len(<<Quote>>)
      /\ Covered(out, 1, Len(out) + 1) => Covered(out', 1, Len(out') + 1)
      /\ IsAscii(out) => IsAscii(out')
  BY <1>2, <1>3, <1>4, <1>5, JoinedIs, Zenon
<1>7. /\ src \in 1 .. Len(Bytes) + 1 /\ 1 <= Len(out) /\ Len(out) + 1 <= 6 * (src - 1) + 2
      /\ ~flg.inv => Covered(out, 1, Len(out) + 1)
      /\ flg.esc => IsAscii(out)
  BY <1>1 DEF WriterInv
<1>8. 1 <= Len(out') /\ Len(out') <= 6 * Len(Bytes) + 2
  <2> DEFINE n == Len(Bytes)
             l == Len(out)
  <2>1. n \in Nat /\ src = n + 1 /\ l \in Nat /\ 1 <= l /\ l + 1 <= 6 * (src - 1) + 2
    BY <1>1, <1>2, <1>7
  <2>2. Len(out') = l + 1
    BY <1>3, <1>6
  <2> HIDE DEF n, l
  <2>3. 1 <= Len(out') /\ Len(out') <= 6 * n + 2
    BY <2>1, <2>2
  <2> QED
    BY <2>3 DEF n
<1>9. StringTypes'
  BY <1>1, <1>6 DEF StringTypes, Places
<1>10. at' # "write"
  BY <1>1
<1> QED
  BY <1>1, <1>2, <1>6, <1>7, <1>8, <1>9, <1>10, Zenon DEF WriterInv

\* Writing begins: with a quote, or with all of a string that needs no escapes.
LEMMA BeginWriteKeeps ==
    ASSUME StringTypes, ValueInv, WriterInv, BeginWrite
    PROVE  StringTypes' /\ WriterInv'
<1>1. /\ at = "value"
      /\ flg' \in Flag /\ first' = <<val>> /\ allow' = allow /\ mem' = mem /\ val' = val
      /\ \/ /\ at' = "text" /\ out' = (<<Quote>> \o Bytes) \o <<Quote>>
            /\ ~flg'.esc /\ ~flg'.slash /\ val.noesc
         \/ at' = "write" /\ out' = <<Quote>> /\ src' = 1
  BY Zenon DEF BeginWrite
<1>2. Bytes \in Seq(Byte) /\ Len(Bytes) \in Nat /\ Bytes' = Bytes
  BY <1>1 DEF StringTypes, Strung, Bytes
<1>3. Quote \in 0 .. 127 /\ <<Quote>> \in Seq(Byte) /\ Len(<<Quote>>) = 1 /\ <<Quote>>[1] = Quote
  BY DEF Quote, Byte
<1>4. IsAscii(<<Quote>>) /\ Covered(<<Quote>>, 1, Len(<<Quote>>) + 1)
  BY <1>3, OneAscii, AsciiIsCovered, Zenon
<1>5. first' \in Seq(Strung) /\ first'[1] = val
  BY <1>1 DEF StringTypes
<1>6. CASE /\ at' = "text" /\ out' = (<<Quote>> \o Bytes) \o <<Quote>>
           /\ ~flg'.esc /\ ~flg'.slash /\ val.noesc
  <2> DEFINE front == <<Quote>> \o Bytes
  <2>1. /\ front \in Seq(Byte) /\ Len(front) = Len(<<Quote>>) + Len(Bytes)
        /\ Covered(Bytes, 1, Len(Bytes) + 1) => Covered(front, 1, Len(front) + 1)
    BY <1>2, <1>3, <1>4, JoinedIs, Zenon
  <2>2. out' = front \o <<Quote>>
    BY <1>6, Zenon
  <2> HIDE DEF front
  <2>3. /\ out' \in Seq(Byte) /\ Len(out') = Len(front) + Len(<<Quote>>)
        /\ Covered(front, 1, Len(front) + 1) => Covered(out', 1, Len(out') + 1)
    BY <1>3, <1>4, <2>1, <2>2, JoinedIs, Zenon
  <2>4. 1 <= Len(out') /\ Len(out') <= 6 * Len(Bytes) + 2
    <3> DEFINE n == Len(Bytes)
    <3>1. n \in Nat /\ Len(out') = (1 + n) + 1
      BY <1>2, <1>3, <2>1, <2>3
    <3> HIDE DEF n
    <3>2. 1 <= Len(out') /\ Len(out') <= 6 * n + 2
      BY <3>1
    <3> QED
      BY <3>2 DEF n
  <2>5. StringTypes'
    BY <1>1, <1>5, <1>6, <2>3 DEF StringTypes, Places
  <2>6. at' # "write" /\ ~flg'.esc
    BY <1>6
  <2>7. Unseen' \/ Covered(out', 1, Len(out') + 1)
    <3>1. CASE allow
      BY <1>1, <1>5, <1>6, <3>1 DEF Unseen
    <3>2. CASE ~allow
      <4>1. Covered(Bytes, 1, Len(Bytes) + 1)
        BY <1>1, <1>6, <3>2, Zenon DEF ValueInv
      <4> QED
        BY <2>1, <2>3, <4>1, Zenon
    <3> QED
      BY <3>1, <3>2
  <2> QED
    BY <1>2, <2>4, <2>5, <2>6, <2>7, Zenon DEF WriterInv
<1>7. CASE at' = "write" /\ out' = <<Quote>> /\ src' = 1
  <2>1. StringTypes'
    BY <1>1, <1>3, <1>5, <1>7 DEF StringTypes, Places
  <2>2. src' \in 1 .. Len(Bytes') + 1 /\ 1 <= Len(out') /\ Len(out') + 1 <= 6 * (src' - 1) + 2
    BY <1>2, <1>3, <1>7
  <2>3. Covered(out', 1, Len(out') + 1) /\ IsAscii(out')
    BY <1>4, <1>7, Zenon
  <2>4. at' # "text"
    BY <1>7
  <2> QED
    BY <2>1, <2>2, <2>3, <2>4, Zenon DEF WriterInv
<1> QED
  BY <1>1, <1>6, <1>7, Zenon

\* A text and its padding
LEMMA PaddedIs ==
    ASSUME NEW t \in Seq(Byte), NEW m, m = t \o Padding
    PROVE  /\ m \in Seq(Byte) /\ Len(m) = Len(t) + 4
           /\ \A k \in Len(t) + 1 .. Len(m) : m[k] = 0
<1>1. Padding \in Seq(Byte) /\ Len(Padding) = 4 /\ \A k \in 1 .. 4 : Padding[k] = 0
  BY DEF Padding, Byte
<1> DEFINE n == Len(t)
<1>2. n \in Nat
  OBVIOUS
<1>3. /\ m \in Seq(Byte) /\ Len(m) = n + Len(Padding)
      /\ \A i \in 1 .. n + Len(Padding) : m[i] = IF i <= n THEN t[i] ELSE Padding[i - n]
  BY <1>1, ConcatProperties
<1> HIDE DEF n
<1>4. ASSUME NEW k \in n + 1 .. n + 4 PROVE m[k] = 0
  <2>1. k \in 1 .. n + Len(Padding) /\ ~(k <= n) /\ k - n \in 1 .. 4
    BY <1>1, <1>2
  <2> QED
    BY <1>1, <1>3, <2>1
<1> QED
  BY <1>1, <1>3, <1>4 DEF n

\* What was written is where the reader may begin.
LEMMA ReadBackKeeps ==
    ASSUME StringTypes, WriterInv, ReadBack
    PROVE  StringTypes' /\ ReaderInv' /\ WriterInv'
<1>1. /\ at = "text" /\ at' = "skip" /\ allow' \in BOOLEAN /\ mem' = out \o Padding
      /\ src' = 2 /\ dst' = 2 /\ flg' = flg /\ val' = val /\ out' = out /\ first' = first
  BY Zenon DEF ReadBack
<1>2. out \in Seq(Byte) /\ Len(out) \in Nat /\ 1 <= Len(out)
  BY <1>1 DEF StringTypes, WriterInv
<1>3. mem' \in Seq(Byte) /\ Len(mem') = Len(out) + 4 /\ \A k \in Len(out) + 1 .. Len(mem') : mem'[k] = 0
  BY <1>1, <1>2, PaddedIs, Zenon
<1>4. EndOfText' = Len(out) + 1
  BY <1>2, <1>3 DEF EndOfText, Padding
<1>5. InText'
  BY <1>1, <1>2, <1>3, <1>4 DEF InText
<1>6. Covered(mem', 2, Front')
  BY <1>1, NothingCovered DEF Front
<1>7. StringTypes'
  BY <1>1, <1>3 DEF StringTypes, Places
<1>8. WriterInv'
  BY <1>1 DEF WriterInv
<1> QED
  BY <1>5, <1>6, <1>7, <1>8 DEF ReaderInv

\* The reader changes nothing but the text and the string.
LEMMA ReadTypes ==
    ASSUME StringTypes, ReaderInv, WriterInv, Read
    PROVE  StringTypes' /\ ValueInv' /\ WriterInv' /\ at \in {"skip", "copy"}
<1>1. /\ at \in {"skip", "copy"} /\ allow' = allow /\ flg' = flg /\ out' = out /\ first' = first
  BY Zenon DEF Read, Skip, BeginCopy, Close, CopyAscii, CopyUtf8, CopyControl, UnescapeSingle,
               Unescape, Reading
<1>2. ReaderInv'
  BY ReadKeeps
<1>3. CASE Close
  <2>1. at' = "value"
    BY <1>3 DEF Close
  <2>2. ValueInv' /\ mem' \in Seq(Byte) /\ val' \in Strung
    BY <1>3, CloseKeeps
  <2>3. StringTypes'
    BY <1>1, <2>1, <2>2 DEF StringTypes, Places
  <2>4. WriterInv'
    BY <1>1, <2>1 DEF WriterInv
  <2> QED
    BY <1>1, <2>2, <2>3, <2>4
<1>4. CASE ~Close
  <2>1. val' = val /\ (at' = at \/ at' = "copy" \/ (at' = "error" /\ mem' = mem))
    <3>1. Skip \/ BeginCopy => val' = val /\ (at' = at \/ at' = "copy" \/ (at' = "error" /\ mem' = mem))
      BY Zenon DEF Skip, BeginCopy
    <3>2. CopyAscii \/ CopyUtf8 \/ CopyControl => val' = val /\ (at' = at \/ (at' = "error" /\ mem' = mem))
      BY Zenon DEF CopyAscii, CopyUtf8, CopyControl, Advance, Fail
    <3>3. UnescapeSingle => val' = val /\ (at' = at \/ (at' = "error" /\ mem' = mem))
      BY Zenon DEF UnescapeSingle, Advance, Fail
    <3>4. Unescape => val' = val /\ (at' = at \/ (at' = "error" /\ mem' = mem))
      BY Zenon DEF Unescape, UnescapeCode, Advance, Fail
    <3> QED
      BY <1>4, <3>1, <3>2, <3>3, <3>4, Zenon DEF Read
  <2>2. at' \in {"skip", "copy", "error"}
    BY <1>1, <2>1
  <2>3. mem' \in Seq(Byte)
    BY <1>1, <1>2, <2>1, <2>2 DEF StringTypes, ReaderInv, InText
  <2>4. StringTypes'
    BY <1>1, <2>1, <2>2, <2>3 DEF StringTypes, Places
  <2>5. WriterInv' /\ ValueInv'
    BY <1>1, <2>2 DEF WriterInv, ValueInv
  <2> QED
    BY <1>1, <2>4, <2>5
<1> QED
  BY <1>3, <1>4

-----------------------------------------------------------------------------
(***************************************************************************)
(* The theorems                                                            *)
(***************************************************************************)

StringInv == StringTypes /\ ReaderInv /\ ValueInv /\ WriterInv

\* Wherever the reader or the writer begins, the invariant holds.
LEMMA StringInit ==
    ASSUME BytesAssumption, Init
    PROVE  StringInv
<1>1. /\ allow \in BOOLEAN /\ flg = [inv |-> FALSE, esc |-> FALSE, slash |-> FALSE]
      /\ src = 2 /\ dst = 2 /\ out = << >> /\ first = << >>
  BY DEF Init
<1>2. flg \in Flag /\ ~flg.esc /\ out \in Seq(Byte) /\ first \in Seq(Strung)
  BY <1>1 DEF Flag
<1>3. CASE \E t \in Texts : at = "skip" /\ mem = t \o Padding /\ val = [bytes |-> << >>, noesc |-> FALSE]
  <2>1. PICK t \in Texts : at = "skip" /\ mem = t \o Padding /\ val = [bytes |-> << >>, noesc |-> FALSE]
    BY <1>3
  <2>2. t \in Seq(Byte) /\ Len(t) \in Nat /\ 1 <= Len(t)
    BY DEF BytesAssumption
  <2>3. mem \in Seq(Byte) /\ Len(mem) = Len(t) + 4 /\ \A k \in Len(t) + 1 .. Len(mem) : mem[k] = 0
    BY <2>1, <2>2, PaddedIs, Zenon
  <2>4. EndOfText = Len(t) + 1
    BY <2>2, <2>3 DEF EndOfText, Padding
  <2>5. InText
    BY <1>1, <2>2, <2>3, <2>4 DEF InText
  <2>6. Covered(mem, 2, Front)
    BY <1>1, <2>1, NothingCovered DEF Front
  <2>7. StringTypes
    BY <1>1, <1>2, <2>1, <2>3 DEF StringTypes, Places, Strung
  <2> QED
    BY <1>2, <2>1, <2>5, <2>6, <2>7 DEF StringInv, ReaderInv, ValueInv, WriterInv
<1>4. CASE \E s \in Strings : at = "value" /\ mem = Padding /\ val = [bytes |-> s, noesc |-> FALSE]
  <2>1. PICK s \in Strings : at = "value" /\ mem = Padding /\ val = [bytes |-> s, noesc |-> FALSE]
    BY <1>4
  <2>2. s \in Seq(Byte) /\ Padding \in Seq(Byte)
    BY DEF BytesAssumption, Padding, Byte
  <2>3. StringTypes
    BY <1>1, <1>2, <2>1, <2>2 DEF StringTypes, Places, Strung
  <2> QED
    BY <1>2, <2>1, <2>3 DEF StringInv, ReaderInv, ValueInv, WriterInv
<1> QED
  BY <1>3, <1>4 DEF Init

\* Every step keeps it, and a step of the reader what is not read yet.
LEMMA StringStep ==
    ASSUME StringInv, [Next]_vars
    PROVE  StringInv' /\ (at \in {"skip", "copy"} => Ahead)
<1>1. StringTypes /\ ReaderInv /\ ValueInv /\ WriterInv
  BY Zenon DEF StringInv
<1>2. CASE Read
  BY <1>1, <1>2, ReadKeeps, ReadTypes, Zenon DEF StringInv
<1>3. CASE WriteChar \/ WriteInvalid \/ WriteClose
  <2>1. StringTypes' /\ WriterInv'
    BY <1>1, <1>3, WriteCharKeeps, WriteInvalidKeeps, WriteCloseKeeps, Zenon
  <2>2. at = "write" /\ at' \in {"write", "text", "error"}
    BY <1>3, Zenon DEF WriteChar, WriteInvalid, WriteClose, Writing, Put
  <2>3. ReaderInv' /\ ValueInv'
    BY <2>2 DEF ReaderInv, ValueInv
  <2>4. at \notin {"skip", "copy"}
    BY <2>2
  <2> QED
    BY <2>1, <2>3, <2>4, Zenon DEF StringInv
<1>4. CASE BeginWrite
  <2>1. StringTypes' /\ WriterInv'
    BY <1>1, <1>4, BeginWriteKeeps, Zenon
  <2>2. at = "value" /\ at' \in {"write", "text"}
    BY <1>4, Zenon DEF BeginWrite
  <2>3. ReaderInv' /\ ValueInv'
    BY <2>2 DEF ReaderInv, ValueInv
  <2>4. at \notin {"skip", "copy"}
    BY <2>2
  <2> QED
    BY <2>1, <2>3, <2>4, Zenon DEF StringInv
<1>5. CASE ReadBack
  <2>1. StringTypes' /\ ReaderInv' /\ WriterInv'
    BY <1>1, <1>5, ReadBackKeeps, Zenon
  <2>2. at = "text" /\ at' = "skip"
    BY <1>5, Zenon DEF ReadBack
  <2>3. ValueInv'
    BY <2>2 DEF ValueInv
  <2>4. at \notin {"skip", "copy"}
    BY <2>2
  <2> QED
    BY <2>1, <2>3, <2>4, Zenon DEF StringInv
<1>6. CASE UNCHANGED vars
  <2>1. /\ at' = at /\ allow' = allow /\ flg' = flg /\ mem' = mem /\ src' = src /\ dst' = dst
        /\ val' = val /\ out' = out /\ first' = first
    BY <1>6 DEF vars
  <2>2. StringTypes'
    BY <1>1, <2>1 DEF StringTypes
  <2>3. ReaderInv'
    BY <1>1, <2>1 DEF ReaderInv, InText, EndOfText, Front
  <2>4. ValueInv'
    BY <1>1, <2>1 DEF ValueInv, Bytes
  <2>5. WriterInv'
    BY <1>1, <2>1 DEF WriterInv, Bytes, Unseen
  <2>6. Ahead
    BY <2>1 DEF Ahead
  <2> QED
    BY <2>2, <2>3, <2>4, <2>5, <2>6, Zenon DEF StringInv
<1> QED
  BY <1>2, <1>3, <1>4, <1>5, <1>6, Zenon DEF Next

\* What is read and written is in its types and made of characters, for all texts, strings
\* and flags (read_string, write_string).
THEOREM StringInvHolds ==
    ASSUME BytesAssumption
    PROVE  Spec => []StringInv
<1>1. Init => StringInv
  BY StringInit
<1>2. StringInv /\ [Next]_vars => StringInv'
  BY StringStep
<1> QED
  BY <1>1, <1>2, PTL DEF Spec

\* While read_string removes the escapes in the text itself, it never changes a byte that it
\* has not read yet, although it stores up to one byte more than it moves.
THEOREM UnreadIntactHolds ==
    ASSUME BytesAssumption
    PROVE  Spec => UnreadIntact
<1> DEFINE Intact == (at = "skip" \/ at = "copy") => \A i \in src' .. Len(mem) : mem'[i] = mem[i]
<1>1. StringInv /\ [Next]_vars => [Intact]_vars
  <2> SUFFICES ASSUME StringInv, [Next]_vars PROVE Intact
    OBVIOUS
  <2>1. at \in {"skip", "copy"} => Ahead
    BY StringStep
  <2> QED
    BY <2>1 DEF Ahead
<1>2. Spec => [][Intact]_vars
  BY <1>1, StringInvHolds, PTL DEF Spec
<1> QED
  BY <1>2 DEF UnreadIntact

\* write_string never needs more than the six bytes for each byte, and two for the quotes,
\* that its callers make room for.
THEOREM TextFitsHolds ==
    ASSUME BytesAssumption
    PROVE  Spec => []TextFits
<1>1. StringInv => TextFits
  BY DEF StringInv, WriterInv, TextFits
<1> QED
  BY <1>1, StringInvHolds, PTL

\* Without the flags for invalid bytes read_string returns and the writer writes nothing but
\* well-formed UTF-8, whatever escapes there are, and with ESCAPE_UNICODE only ASCII.  What
\* the writer copies unseen (yyjson.c:9065), a string without an escape that was read with
\* ALLOW_INVALID_UNICODE, is excluded: of that string ReportsInvalid is not true.
THEOREM OnlyWellFormedHolds ==
    ASSUME BytesAssumption
    PROVE  Spec => []OnlyWellFormed
<1>1. StringInv => OnlyWellFormed
  <2> SUFFICES ASSUME StringInv PROVE OnlyWellFormed
    OBVIOUS
  <2>1. StringTypes /\ ValueInv /\ WriterInv
    BY Zenon DEF StringInv
  <2>2. Bytes \in Seq(Byte) /\ out \in Seq(Byte) /\ DOMAIN out = 1 .. Len(out)
    BY <2>1 DEF StringTypes, Strung, Bytes
  <2>3. at = "value" /\ mem # Padding /\ ~allow => WellFormed(Bytes)
    BY <2>1, <2>2, CoveredIsWellFormed, Zenon DEF ValueInv
  <2>4. at = "text" /\ ~flg.inv /\ ~Unseen => WellFormed(out)
    BY <2>1, <2>2, CoveredIsWellFormed, Zenon DEF WriterInv
  <2>5. flg.esc => \A i \in DOMAIN out : out[i] < 128
    BY <2>1, <2>2, Zenon DEF WriterInv, IsAscii
  <2> QED
    BY <2>3, <2>4, <2>5, Zenon DEF OnlyWellFormed
<1> QED
  BY <1>1, StringInvHolds, PTL

\* Both: what is read and written is UTF-8 as far as the flags ask for it, except for the
\* strings that are Unseen, and fits the room that the callers of write_string make.
THEOREM StringsSoundHolds ==
    ASSUME BytesAssumption
    PROVE  Spec => []StringsSound
BY OnlyWellFormedHolds, TextFitsHolds, PTL DEF StringsSound
=============================================================================
