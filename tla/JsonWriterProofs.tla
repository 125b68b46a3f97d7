-------------------------- MODULE JsonWriterProofs --------------------------
(***************************************************************************)
(* The text of a writer and the contexts at the other end of its buffer    *)
(* never meet, for every document and every estimate of its size.          *)
(***************************************************************************)
EXTENDS JsonWriter, TLAPS

Options == [pretty : BOOLEAN, newline : BOOLEAN, spaces : {2, 4}, mutable : BOOLEAN]
Labels == {"val_begin", "ctn_end", "pop", "doc_end", "done", "failed"}
Contexts == [ctn_len : Int, ctn_obj : BOOLEAN, ctn : Nat]

WriterTypes ==
    /\ doc \in Docs /\ opts \in Options /\ pc \in Labels
    /\ ctn \in Nat /\ ctn_len \in Int /\ ctn_obj \in BOOLEAN
    /\ level \in Nat /\ ctx \in Seq(Contexts)
    /\ cur \in Nat /\ top \in Nat /\ alc_len \in Nat

\* The depth of the indent is that of the contexts.
LevelIsDepth ==
    /\ pc \in {"val_begin", "ctn_end"} => level = Len(ctx) + 1
    /\ pc = "pop" => level = Len(ctx)

\* NoOverlap is not inductive: a closing bracket needs the byte that the value before it
\* left over, and the end of the text the one that the last bracket did.
RoomLeft ==
    pc \notin {"done", "failed"} =>
        /\ alc_len >= 64 /\ cur >= Marks
        /\ cur <= CtxStart
        /\ pc = "ctn_end" /\ ~ opts.pretty => cur + 1 <= CtxStart
        /\ pc \in {"pop", "doc_end"} /\ opts.pretty => cur + 1 <= CtxStart

Inv == WriterTypes /\ LevelIsDepth /\ RoomLeft /\ NoOverlap

-----------------------------------------------------------------------------
\* A rounded size is not smaller than the size.
LEMMA AlignUpBound ==
    ASSUME NEW n \in Nat, NEW size \in {8, 16}
    PROVE  SizeAlignUp(n, size) \in Nat /\ SizeAlignUp(n, size) >= n
<1>1. CASE size = 8
  BY <1>1 DEF SizeAlignUp
<1>2. CASE size = 16
  BY <1>2 DEF SizeAlignUp
<1> QED
  BY <1>1, <1>2

\* What incr_len reserves lies in front of the contexts, and a buffer that grows, grows
\* by at least 32 bytes.
LEMMA IncrLenFits ==
    ASSUME WriterTypes, alc_len >= 64, NEW at \in Nat, NEW len \in Nat, at <= CtxStart
    PROVE  /\ IncrLen(at, len) \in Nat
           /\ IncrLen(at, len) >= alc_len
           /\ at + len <= IncrLen(at, len) - CtxSize * Len(ctx)
           /\ \/ at + len < IncrLen(at, len) - CtxSize * Len(ctx)
              \/ at + 32 <= IncrLen(at, len) - CtxSize * Len(ctx)
<1>1. opts.mutable \in BOOLEAN /\ CtxSize \in {8, 16} /\ Len(ctx) \in Nat /\ alc_len \in Nat
  BY DEF WriterTypes, Options, CtxSize
<1> DEFINE taken == CtxSize * Len(ctx)
<1>2. taken \in Nat
  BY <1>1
<1> DEFINE more == LargerOf(alc_len \div 2, len)
<1>3. more \in Nat /\ more >= 32 /\ more >= len
  BY <1>1 DEF LargerOf
<1> DEFINE inc == SizeAlignUp(more, CtxSize)
<1>4. inc \in Nat /\ inc >= more
  BY <1>1, <1>3, AlignUpBound
<1>5. IncrLen(at, len) = IF at + len >= alc_len - taken THEN alc_len + inc ELSE alc_len
  BY DEF IncrLen, CtxStart
<1>6. at <= alc_len - taken
  BY DEF CtxStart
<1> HIDE DEF taken, more, inc
<1>7. CASE at + len >= alc_len - taken
  <2>1. IncrLen(at, len) = alc_len + inc
    BY <1>5, <1>7
  <2> QED
    BY <2>1, <1>1, <1>2, <1>3, <1>4, <1>6 DEF taken
<1>8. CASE ~ (at + len >= alc_len - taken)
  <2>1. IncrLen(at, len) = alc_len
    BY <1>5, <1>8
  <2> QED
    BY <2>1, <1>1, <1>2, <1>6, <1>8 DEF taken
<1> QED
  BY <1>7, <1>8

-----------------------------------------------------------------------------
\* The indent in front of a value fits the room counted for it.
LEMMA IndentFits ==
    ASSUME WriterTypes
    PROVE  /\ Levels \in Nat /\ IndentRoom \in Nat /\ Indent \in Nat /\ Marks \in {1, 2}
           /\ Indent <= IndentRoom
           /\ IndentTop(Levels) \in Nat /\ IndentTop(Levels) <= IndentRoom
           /\ IndentTop(Levels) <= Indent + 2
<1>1. Levels \in Nat /\ opts.spaces \in {2, 4} /\ opts.pretty \in BOOLEAN
  BY DEF WriterTypes, Options, Levels
<1>2. CASE opts.spaces = 2
  BY <1>1, <1>2 DEF IndentRoom, Indent, IndentTop, Marks
<1>3. CASE opts.spaces = 4
  BY <1>1, <1>3 DEF IndentRoom, Indent, IndentTop, Marks
<1> QED
  BY <1>1, <1>2, <1>3

\* A value for which two bytes more than its text were reserved leaves, behind the comma,
\* one for a bracket in front of the contexts; in pretty text the marks take both.
LEMMA WrittenKeepsInv ==
    ASSUME Inv, pc = "val_begin", NEW room \in Nat, NEW w \in Nat, NEW copied \in Nat, NEW tokens,
           w + 2 <= room, copied <= room,
           alc_len' = IncrLen(cur, room + IndentRoom), Written(tokens, w, copied), ValEnd
    PROVE  Inv'
<1>1. /\ Levels \in Nat /\ IndentRoom \in Nat /\ Indent \in Nat /\ Marks \in {1, 2}
      /\ Indent <= IndentRoom
  BY IndentFits DEF Inv
<1>2. /\ WriterTypes
      /\ cur \in Nat /\ alc_len \in Nat /\ alc_len >= 64 /\ cur <= CtxStart /\ cur >= Marks
  BY DEF Inv, WriterTypes, RoomLeft
<1> DEFINE len == room + IndentRoom
           taken == CtxSize * Len(ctx)
           after == Indent + w + Marks
<1>3. len \in Nat /\ taken \in Nat
  BY <1>1, <1>2 DEF WriterTypes, Options, CtxSize
<1>4. /\ doc' = doc /\ opts' = opts /\ ctn' = ctn /\ ctn_obj' = ctn_obj /\ level' = level
      /\ ctx' = ctx /\ ctn_len' = ctn_len - 1 /\ pc' \in {"val_begin", "ctn_end"}
  BY DEF ValEnd
<1>5. CtxStart' = alc_len' - taken /\ Marks' = Marks
  BY <1>4 DEF CtxStart, CtxSize, Marks
<1>6. cur' = cur + after /\ top' = cur + LargerOf(after, Indent + copied)
  BY DEF Written
<1>7. after \in Nat /\ after <= len /\ Indent + copied \in Nat /\ Indent + copied <= len
  BY <1>1
<1>8. ~ opts.pretty => after + 1 <= len
  BY <1>1 DEF Marks
<1>9. alc_len' = IncrLen(cur, len)
  OBVIOUS
<1> HIDE DEF len, after
<1>10. /\ alc_len' \in Nat /\ alc_len' >= alc_len
       /\ cur + len <= alc_len' - taken
  BY <1>2, <1>3, <1>9, IncrLenFits
<1> HIDE DEF taken
<1>11. /\ cur' \in Nat /\ top' \in Nat /\ cur' <= top' /\ cur' >= Marks
       /\ top' <= CtxStart'
       /\ ~ opts.pretty => cur' + 1 <= CtxStart'
  BY <1>1, <1>2, <1>3, <1>5, <1>6, <1>7, <1>8, <1>10 DEF LargerOf
<1>12. WriterTypes'
  BY <1>2, <1>4, <1>10, <1>11 DEF WriterTypes, Labels
<1>13. LevelIsDepth'
  BY <1>4 DEF Inv, LevelIsDepth
<1>14. CtxStart' \in Int
  BY <1>3, <1>5, <1>10
<1>15. RoomLeft' /\ NoOverlap'
  BY <1>2, <1>4, <1>5, <1>10, <1>11, <1>14 DEF RoomLeft, NoOverlap
<1> QED
  BY <1>12, <1>13, <1>15 DEF Inv

\* A failed write keeps only the types.
LEMMA FailKeepsInv ==
    ASSUME Inv, Fail
    PROVE  Inv'
BY DEF Inv, Fail, WriterTypes, LevelIsDepth, RoomLeft, NoOverlap, Labels

\* The node at hand is one of the document's, and what is known of its text holds.
LEMMA NodeAtHand ==
    ASSUME WriterTypes, val \in DOMAIN doc
    PROVE  /\ val \in Nat /\ doc[val] \in Node
           /\ doc[val].t = "str" => doc[val].w <= 6 * doc[val].n + 2
           /\ doc[val].t = "raw" => doc[val].w = doc[val].n
           /\ doc[val].t = "num" => doc[val].w + 2 <= NUM_LEN
           /\ doc[val].t = "null" => doc[val].w = 4
           /\ doc[val].t = "bool" => doc[val].w \in {4, 5}
BY WriterAssumption DEF WriterTypes

LEMMA WriteStringKeepsInv ==
    ASSUME Inv, WriteString
    PROVE  Inv'
<1>1. CASE ~ doc[val].ok
  BY <1>1, FailKeepsInv DEF WriteString
<1>2. CASE doc[val].ok
  <2>1. doc[val].n \in Nat /\ doc[val].w \in Nat /\ doc[val].w <= 6 * doc[val].n + 2
    BY NodeAtHand DEF Inv, WriteString, At, Node
  <2>2. alc_len' = IncrLen(cur, (6 * doc[val].n + 16) + IndentRoom)
    BY <1>2 DEF WriteString, At, Reserve, Room
  <2>3. doc[val].w + 2 <= 6 * doc[val].n + 16 /\ 0 <= 6 * doc[val].n + 16
        /\ 6 * doc[val].n + 16 \in Nat
    BY <2>1
  <2> QED
    BY <1>2, <2>1, <2>2, <2>3, WrittenKeepsInv DEF WriteString, At
<1> QED
  BY <1>1, <1>2

LEMMA WriteNumberKeepsInv ==
    ASSUME Inv, WriteNumber
    PROVE  Inv'
<1>1. CASE ~ doc[val].ok
  BY <1>1, FailKeepsInv DEF WriteNumber
<1>2. CASE doc[val].ok
  <2>1. doc[val].w \in Nat /\ doc[val].w + 2 <= NUM_LEN /\ NUM_LEN \in Nat
    BY NodeAtHand, WriterAssumption DEF Inv, WriteNumber, At, Node
  <2>2. alc_len' = IncrLen(cur, NUM_LEN + IndentRoom)
    BY <1>2 DEF WriteNumber, At, Reserve, Room
  <2> QED
    BY <1>2, <2>1, <2>2, WrittenKeepsInv DEF WriteNumber, At
<1> QED
  BY <1>1, <1>2

LEMMA WriteNullOrBoolKeepsInv ==
    ASSUME Inv, WriteNullOrBool
    PROVE  Inv'
<1>1. doc[val].w \in {4, 5}
  BY NodeAtHand DEF Inv, WriteNullOrBool, At
<1>2. alc_len' = IncrLen(cur, 16 + IndentRoom)
  BY DEF WriteNullOrBool, At, Reserve, Room
<1>3. doc[val].w \in Nat /\ doc[val].w + 2 <= 16
  BY <1>1
<1> QED
  BY <1>2, <1>3, WrittenKeepsInv DEF WriteNullOrBool, At

LEMMA WriteRawKeepsInv ==
    ASSUME Inv, WriteRaw
    PROVE  Inv'
<1>1. doc[val].n \in Nat /\ doc[val].w \in Nat /\ doc[val].w = doc[val].n
  BY NodeAtHand DEF Inv, WriteRaw, At, Node
<1> DEFINE room == doc[val].n + Marks + 1
<1>2. alc_len' = IncrLen(cur, room + IndentRoom)
  BY DEF WriteRaw, At, Reserve, Room
<1>3. room \in Nat /\ doc[val].w + 2 <= room
  BY <1>1 DEF Marks
<1> QED
  BY <1>1, <1>2, <1>3, WrittenKeepsInv DEF WriteRaw, At

LEMMA WriteEmptyContainerKeepsInv ==
    ASSUME Inv, WriteEmptyContainer
    PROVE  Inv'
<1>1. alc_len' = IncrLen(cur, 16 + IndentRoom)
  BY DEF WriteEmptyContainer, At, Reserve, Room
<1> QED
  BY <1>1, WrittenKeepsInv DEF WriteEmptyContainer, At

\* What ends 16 bytes in front of the contexts ends in front of a new one.
LEMMA ContextFits ==
    ASSUME NEW end \in Int, NEW at \in Int, NEW room \in Int, NEW limit \in Int,
           NEW taken \in Int, NEW more \in Int, more <= taken + 16,
           \/ end <= at + room + 2 /\ at + (32 + room) <= limit - taken
           \/ end = at + 1 /\ (at + 16 < limit - taken \/ at + 32 <= limit - taken)
    PROVE  end <= limit - more
OBVIOUS

\* The new context takes its place out of what was reserved.
LEMMA OpenContainerKeepsInv ==
    ASSUME Inv, OpenContainer
    PROVE  Inv'
<1>1. /\ Levels \in Nat /\ IndentRoom \in Nat /\ Indent \in Nat /\ Marks \in {1, 2}
      /\ Indent <= IndentRoom
      /\ IndentTop(Levels) \in Nat /\ IndentTop(Levels) <= IndentRoom
      /\ ~ opts.pretty => Indent = 0 /\ IndentRoom = 0 /\ IndentTop(Levels) = 0
  <2>1. ~ opts.pretty => Levels = 0 /\ opts.spaces * 0 = 0
    BY DEF Levels, Inv, WriterTypes, Options
  <2> QED
    BY <2>1, IndentFits DEF Inv, Indent, IndentRoom, IndentTop
<1>2. /\ WriterTypes
      /\ cur \in Nat /\ alc_len \in Nat /\ alc_len >= 64 /\ cur <= CtxStart /\ cur >= Marks
  BY DEF Inv, WriterTypes, RoomLeft, OpenContainer, At
<1> DEFINE own == IF opts.pretty THEN 32 ELSE 16
           len == own + IndentRoom
           taken == CtxSize * Len(ctx)
<1>3. alc_len' = IncrLen(cur, len)
  BY DEF OpenContainer, At, Reserve, Room
<1>4. /\ doc' = doc /\ opts' = opts /\ pc' = pc /\ level' = level + 1
      /\ cur' = cur + Indent + Marks /\ top' = LargerOf(cur', cur + IndentTop(Levels))
      /\ pc = "val_begin" /\ ctn' = val /\ val \in DOMAIN doc
      /\ ctn_obj' \in BOOLEAN
      /\ ctx' = <<[ctn_len |-> ctn_len, ctn_obj |-> ctn_obj, ctn |-> ctn]>> \o ctx
      /\ ctn_len' = IF ctn_obj' THEN 2 * doc[val].n ELSE doc[val].n
  BY DEF OpenContainer, At
<1>5. ctx' \in Seq(Contexts) /\ Len(ctx') = Len(ctx) + 1 /\ Len(ctx) \in Nat
  BY <1>2, <1>4 DEF WriterTypes, Contexts
<1>6. CtxSize \in {8, 16} /\ CtxSize' = CtxSize /\ Marks' = Marks /\ taken \in Nat
  BY <1>2, <1>4, <1>5 DEF WriterTypes, Options, CtxSize, Marks
<1>7. CtxStart' = alc_len' - (taken + CtxSize)
  BY <1>5, <1>6 DEF CtxStart
<1>8. len \in Nat /\ (opts.pretty => len = 32 + IndentRoom) /\ (~ opts.pretty => len = 16)
  BY <1>1
<1> DEFINE more == taken + CtxSize
<1>9. more \in Nat /\ more <= taken + 16
  BY <1>6
<1>10. CtxStart' = alc_len' - more
  BY <1>7
<1> HIDE DEF taken, more, own, len
<1>11. /\ alc_len' \in Nat /\ alc_len' >= alc_len
       /\ cur + len <= alc_len' - taken
       /\ cur + len < alc_len' - taken \/ cur + 32 <= alc_len' - taken
  BY <1>2, <1>3, <1>8, IncrLenFits DEF taken
<1>12. cur' \in Nat /\ top' \in Nat /\ cur' <= top' /\ cur' >= Marks
  BY <1>1, <1>2, <1>4 DEF LargerOf
<1>13. /\ alc_len' \in Int /\ taken \in Int /\ cur \in Int /\ top' \in Int
       /\ IndentRoom \in Int /\ more \in Int
  <2>1. alc_len' \in Int
    BY <1>11
  <2>2. top' \in Int
    BY <1>12
  <2> QED
    BY <1>1, <1>2, <1>6, <1>9, <2>1, <2>2
<1>14. \/ top' <= cur + IndentRoom + 2 /\ cur + (32 + IndentRoom) <= alc_len' - taken
       \/ top' = cur + 1 /\ (cur + 16 < alc_len' - taken \/ cur + 32 <= alc_len' - taken)
  <2>1. CASE opts.pretty
    <3>1. top' <= cur + IndentRoom + 2
      BY <1>1, <1>2, <1>4, <1>12 DEF LargerOf
    <3>2. cur + (32 + IndentRoom) <= alc_len' - taken
      <4>1. len = 32 + IndentRoom
        BY <2>1, <1>8
      <4> QED
        BY <1>11, <4>1
    <3> QED
      BY <3>1, <3>2
  <2>2. CASE ~ opts.pretty
    <3>1. top' = cur + 1
      BY <2>2, <1>1, <1>2, <1>4 DEF Marks, LargerOf
    <3>2. cur + 16 < alc_len' - taken \/ cur + 32 <= alc_len' - taken
      BY <2>2, <1>8, <1>11
    <3> QED
      BY <3>1, <3>2
  <2> QED
    BY <2>1, <2>2
<1>15. top' <= alc_len' - more
  BY ONLY <1>14, <1>9, <1>13, ContextFits, Zenon
<1>16. top' <= CtxStart'
  BY <1>10, <1>15
<1>17. CtxStart' \in Int
  BY <1>9, <1>13, <1>10
<1>18. ctn' \in Nat /\ ctn_len' \in Int
  BY <1>2, <1>4, NodeAtHand DEF Node
<1>19. WriterTypes'
  <2>1. alc_len' \in Nat /\ cur' \in Nat /\ top' \in Nat
    BY <1>11, <1>12
  <2>2. ctx' \in Seq(Contexts) /\ ctn' \in Nat /\ ctn_len' \in Int /\ level' \in Nat
    BY <1>2, <1>4, <1>5, <1>18 DEF WriterTypes
  <2> QED
    BY <1>2, <1>4, <2>1, <2>2 DEF WriterTypes
<1>20. LevelIsDepth'
  BY <1>4, <1>5 DEF Inv, LevelIsDepth
<1>21. cur' <= CtxStart'
  BY <1>12, <1>16, <1>17
<1>22. alc_len' >= 64 /\ cur' >= Marks'
  BY <1>2, <1>6, <1>11, <1>12
<1>23. pc' = "val_begin"
  BY <1>4
<1>24. RoomLeft'
  BY <1>21, <1>22, <1>23, Zenon DEF RoomLeft
<1>25. NoOverlap'
  BY <1>12, <1>16, Zenon DEF NoOverlap
<1> QED
  BY <1>19, <1>20, <1>24, <1>25 DEF Inv

\* The closing bracket and its indent take less than four bytes per level.
LEMMA BracketIndent ==
    ASSUME WriterTypes, level >= 1
    PROVE  /\ opts.spaces * (level - 1) \in Nat
           /\ opts.spaces * (level - 1) <= 4 * level - 4
           /\ IndentTop(level - 1) \in Nat
           /\ IndentTop(level - 1) <= 4 * level - 4
<1>1. level \in Nat /\ opts.spaces \in {2, 4}
  BY DEF WriterTypes, Options
<1>2. CASE opts.spaces = 2
  BY <1>1, <1>2 DEF IndentTop
<1>3. CASE opts.spaces = 4
  BY <1>1, <1>3 DEF IndentTop
<1> QED
  BY <1>1, <1>2, <1>3

LEMMA Behind ==
    ASSUME NEW end \in Int, NEW at \in Int, NEW len \in Int, NEW limit \in Int,
           end <= at + len, at + len <= limit
    PROVE  end <= limit
OBVIOUS

LEMMA CtnEndKeepsInv ==
    ASSUME Inv, CtnEnd
    PROVE  Inv'
<1>1. /\ WriterTypes /\ pc = "ctn_end" /\ pc' = "pop"
      /\ cur \in Nat /\ alc_len \in Nat /\ alc_len >= 64 /\ cur <= CtxStart /\ cur >= Marks
      /\ ~ opts.pretty => cur + 1 <= CtxStart
  BY DEF Inv, WriterTypes, RoomLeft, CtnEnd
<1>2. level \in Nat /\ level = Len(ctx) + 1 /\ level >= 1 /\ Len(ctx) \in Nat
  BY <1>1 DEF Inv, WriterTypes, LevelIsDepth
<1>3. /\ doc' = doc /\ opts' = opts /\ ctn' = ctn /\ ctn_len' = ctn_len /\ ctn_obj' = ctn_obj
      /\ ctx' = ctx /\ level' = level - 1
  BY DEF CtnEnd
<1> DEFINE taken == CtxSize * Len(ctx)
<1>4. taken \in Nat /\ CtxStart = alc_len - taken /\ CtxStart' = alc_len' - taken /\ Marks' = Marks
  BY <1>1, <1>2, <1>3 DEF CtxStart, CtxSize, Marks, WriterTypes, Options
<1>5. LevelIsDepth'
  BY <1>1, <1>2, <1>3 DEF LevelIsDepth
<1>6. CASE opts.pretty
  <2> DEFINE at == cur - Dropped + 1
             len == 4 * level
             indent == opts.spaces * (level - 1)
  <2>1. Marks = 2 /\ at \in Nat /\ at = cur - 1 /\ at <= CtxStart /\ len \in Nat
    BY <1>1, <1>2, <1>4, <1>6 DEF Marks, Dropped
  <2>2. /\ alc_len' = IncrLen(at, len) /\ cur' = at + indent + 1
        /\ top' = LargerOf(cur', at + IndentTop(level - 1))
    BY <1>6 DEF CtnEnd
  <2> HIDE DEF at
  <2>3. /\ indent \in Nat /\ indent <= len - 4
        /\ IndentTop(level - 1) \in Nat /\ IndentTop(level - 1) <= len - 4
    BY <1>1, <1>2, BracketIndent
  <2> HIDE DEF len
  <2>4. alc_len' \in Nat /\ alc_len' >= alc_len /\ at + len <= alc_len' - taken
    BY <1>1, <2>1, <2>2, IncrLenFits
  <2> HIDE DEF indent, taken
  <2>5. /\ cur' \in Nat /\ top' \in Nat /\ cur' <= top' /\ cur' >= Marks
        /\ cur' + 1 <= at + len /\ top' <= at + len
    BY <1>1, <2>1, <2>2, <2>3 DEF LargerOf
  <2>6. alc_len' - taken \in Int /\ at + len \in Int /\ cur' + 1 \in Int
    BY <1>4, <2>1, <2>4, <2>5
  <2>7. cur' + 1 <= alc_len' - taken /\ top' <= alc_len' - taken
    BY <2>1, <2>4, <2>5, <2>6, Behind
  <2>8. WriterTypes'
    BY <1>1, <1>2, <1>3, <2>4, <2>5 DEF WriterTypes, Labels
  <2>9. CtxStart' \in Int /\ cur' <= CtxStart' /\ cur' + 1 <= CtxStart' /\ top' <= CtxStart'
    BY <1>4, <2>5, <2>6, <2>7
  <2>10. alc_len' >= 64 /\ cur' >= Marks'
    BY <1>1, <1>4, <2>4, <2>5
  <2>11. RoomLeft'
    BY <1>1, <2>9, <2>10, Zenon DEF RoomLeft
  <2>12. NoOverlap'
    BY <2>5, <2>9, Zenon DEF NoOverlap
  <2> QED
    BY <1>5, <2>8, <2>11, <2>12 DEF Inv
<1>7. CASE ~ opts.pretty
  <2>1. /\ cur' = cur - Dropped + 2 /\ top' = cur' /\ alc_len' = alc_len
        /\ Dropped = 1
    BY <1>7 DEF CtnEnd, Dropped, Marks
  <2>2. cur' = cur + 1 /\ top' = cur + 1 /\ alc_len' = alc_len
    BY <1>1, <2>1
  <2>3. WriterTypes'
    BY <1>1, <1>2, <1>3, <2>2 DEF WriterTypes, Labels
  <2>4. CtxStart' = CtxStart /\ CtxStart \in Int
    BY <1>1, <1>4, <2>2
  <2>5. cur' <= CtxStart' /\ cur' <= top' /\ top' <= CtxStart' /\ opts' = opts
    BY <1>1, <1>3, <1>7, <2>2, <2>4
  <2>6. alc_len' >= 64 /\ cur' >= Marks'
    BY <1>1, <1>4, <1>7, <2>2 DEF Marks
  <2>7. RoomLeft'
    BY <1>1, <1>7, <2>5, <2>6, Zenon DEF RoomLeft
  <2>8. NoOverlap'
    BY <2>5, Zenon DEF NoOverlap
  <2> QED
    BY <1>5, <2>3, <2>7, <2>8 DEF Inv
<1> QED
  BY <1>6, <1>7

\* The context that is popped gives its place to the separator.
LEMMA PopKeepsInv ==
    ASSUME Inv, Pop
    PROVE  Inv'
<1>1. /\ WriterTypes /\ pc = "pop" /\ level = Len(ctx) /\ level \in Nat
      /\ cur \in Nat /\ alc_len \in Nat /\ alc_len >= 64 /\ cur <= CtxStart /\ cur >= Marks
      /\ opts.pretty => cur + 1 <= CtxStart
      /\ cur <= top /\ top <= CtxStart /\ top \in Nat
  BY DEF Inv, WriterTypes, RoomLeft, LevelIsDepth, NoOverlap, Pop
<1>2. doc' = doc /\ opts' = opts /\ level' = level /\ alc_len' = alc_len
  BY DEF Pop
<1>3. Marks' = Marks /\ CtxSize' = CtxSize /\ CtxSize \in {8, 16}
  BY <1>1, <1>2 DEF Marks, CtxSize, WriterTypes, Options
<1>4. CASE ctx = << >>
  <2>1. /\ pc' = "doc_end" /\ ctx' = ctx /\ cur' = cur /\ top' = top
        /\ ctn' = ctn /\ ctn_len' = ctn_len /\ ctn_obj' = ctn_obj
    BY <1>4 DEF Pop
  <2>2. CtxStart' = CtxStart
    BY <1>2, <1>3, <2>1 DEF CtxStart
  <2> QED
    BY <1>1, <1>2, <1>3, <2>1, <2>2
       DEF Inv, WriterTypes, LevelIsDepth, RoomLeft, NoOverlap, Labels
<1>5. CASE ctx # << >>
  <2>1. /\ ctx' = Tail(ctx) /\ ctn_len' = Head(ctx).ctn_len - 1
        /\ ctn_obj' = Head(ctx).ctn_obj /\ ctn' = Head(ctx).ctn
        /\ pc' \in {"val_begin", "ctn_end"}
        /\ IF opts.pretty THEN cur' = cur + 2 /\ top' = cur + 2 ELSE cur' = cur /\ top' = top
    BY <1>5 DEF Pop
  <2>2. Head(ctx) \in Contexts /\ Tail(ctx) \in Seq(Contexts) /\ Len(Tail(ctx)) = Len(ctx) - 1
        /\ Len(ctx) \in Nat \ {0}
    BY <1>1, <1>5 DEF WriterTypes
  <2>3. CtxStart' = CtxStart + CtxSize /\ CtxStart \in Int
    BY <1>1, <1>2, <1>3, <2>1, <2>2 DEF CtxStart
  <2>4. /\ cur' \in Nat /\ top' \in Nat /\ cur' <= top' /\ cur' >= Marks
        /\ cur' <= CtxStart + 7 /\ top' <= CtxStart + 7
    <3>1. CASE opts.pretty
      <4>1. cur' = cur + 2 /\ top' = cur + 2
        BY <2>1, <3>1
      <4>2. Marks = 2
        BY <3>1 DEF Marks
      <4> QED
        BY <1>1, <2>3, <3>1, <4>1, <4>2
    <3>2. CASE ~ opts.pretty
      <4>1. cur' = cur /\ top' = top
        BY <2>1, <3>2
      <4>2. Marks = 1
        BY <3>2 DEF Marks
      <4>3. cur' <= CtxStart + 7 /\ top' <= CtxStart + 7
        BY <1>1, <2>3, <4>1
      <4> QED
        BY <1>1, <4>1, <4>2, <4>3
    <3> QED
      BY <3>1, <3>2
  <2>5. CtxStart' \in Int /\ CtxStart' >= CtxStart + 8
    BY <1>3, <2>3
  <2>6. WriterTypes'
    BY SMTT(30), <1>1, <1>2, <2>1, <2>2, <2>4 DEF WriterTypes, Contexts, Labels
  <2>7. LevelIsDepth'
    BY <1>1, <1>2, <2>1, <2>2 DEF LevelIsDepth
  <2>8. cur' + 1 <= CtxStart' /\ cur' <= CtxStart' /\ top' <= CtxStart'
    BY <2>3, <2>4, <2>5
  <2>9. alc_len' >= 64 /\ cur' >= Marks'
    BY <1>1, <1>2, <1>3, <2>4
  <2>10. RoomLeft'
    BY <2>1, <2>8, <2>9, Zenon DEF RoomLeft
  <2>11. NoOverlap'
    BY <2>4, <2>8, Zenon DEF NoOverlap
  <2> QED
    BY <2>6, <2>7, <2>10, <2>11 DEF Inv
<1> QED
  BY <1>4, <1>5

LEMMA EndFits ==
    ASSUME NEW end \in Int, NEW at \in Int, NEW limit \in Int, end <= at, at + 2 <= limit
    PROVE  end + 2 <= limit
OBVIOUS

\* The end of the text: a minified one gives its last separator back.
LEMMA DocEndKeepsInv ==
    ASSUME Inv, DocEnd
    PROVE  Inv'
<1>1. /\ WriterTypes /\ pc = "doc_end" /\ pc' = "done"
      /\ cur \in Nat /\ alc_len \in Nat /\ alc_len >= 64 /\ cur <= CtxStart /\ cur >= Marks
      /\ opts.pretty => cur + 1 <= CtxStart
  BY DEF Inv, WriterTypes, RoomLeft, DocEnd
<1>2. /\ doc' = doc /\ opts' = opts /\ ctn' = ctn /\ ctn_len' = ctn_len /\ ctn_obj' = ctn_obj
      /\ ctx' = ctx /\ level' = level
  BY DEF DocEnd
<1> DEFINE taken == CtxSize * Len(ctx)
<1>3. taken \in Nat /\ CtxStart = alc_len - taken /\ CtxStart' = alc_len' - taken
  BY <1>1, <1>2 DEF CtxStart, CtxSize, WriterTypes, Options
<1> DEFINE end == IF opts.pretty THEN cur ELSE cur - 1
<1>4. end \in Nat /\ end <= cur /\ end + 1 <= CtxStart /\ CtxStart \in Int
  BY <1>1, <1>3 DEF Marks
<1>5. alc_len' \in Nat /\ end + 1 <= alc_len' - taken /\ (opts.newline => end + 2 <= alc_len' - taken)
  <2>1. CASE opts.newline
    <3>1. alc_len' = IncrLen(cur, 2)
      BY <2>1 DEF DocEnd
    <3> HIDE DEF taken
    <3>2. alc_len' \in Nat /\ cur + 2 <= alc_len' - taken
      BY <1>1, <3>1, IncrLenFits DEF taken
    <3> HIDE DEF end
    <3>3. alc_len' - taken \in Int
      BY <1>3, <3>2
    <3>4. end + 2 <= alc_len' - taken
      BY <1>1, <1>4, <3>2, <3>3, EndFits
    <3>5. end + 1 <= alc_len' - taken
      BY <1>4, <3>3, <3>4
    <3> QED
      BY <3>2, <3>4, <3>5
  <2>2. CASE ~ opts.newline
    <3>1. alc_len' = alc_len
      BY <2>2 DEF DocEnd
    <3> HIDE DEF taken, end
    <3> QED
      BY <1>1, <1>3, <1>4, <2>2, <3>1
  <2> QED
    BY <2>1, <2>2
<1>6. cur' = (IF opts.newline THEN end + 1 ELSE end) /\ top' = cur' + 1
  BY DEF DocEnd
<1> HIDE DEF end, taken
<1>7. cur' \in Nat /\ top' \in Nat /\ cur' <= top' /\ top' <= CtxStart'
  <2>1. CASE opts.newline
    <3>1. cur' = end + 1 /\ top' = cur' + 1 /\ end + 2 <= alc_len' - taken
      BY <2>1, <1>5, <1>6
    <3>2. cur' \in Nat
      BY <1>4, <3>1
    <3>3. top' \in Nat /\ cur' <= top'
      BY <3>1, <3>2
    <3>4. top' = end + 2
      BY <1>4, <3>1
    <3> QED
      BY <1>3, <3>1, <3>2, <3>3, <3>4
  <2>2. CASE ~ opts.newline
    <3>1. cur' = end /\ top' = cur' + 1 /\ end + 1 <= alc_len' - taken
      BY <2>2, <1>5, <1>6
    <3>2. cur' \in Nat
      BY <1>4, <3>1
    <3>3. top' \in Nat /\ cur' <= top'
      BY <3>1, <3>2
    <3>4. top' = end + 1
      BY <1>4, <3>1
    <3> QED
      BY <1>3, <3>1, <3>2, <3>3, <3>4
  <2> QED
    BY <2>1, <2>2
<1>8. WriterTypes'
  BY <1>1, <1>2, <1>5, <1>7 DEF WriterTypes, Labels
<1>9. LevelIsDepth' /\ RoomLeft'
  BY <1>1 DEF LevelIsDepth, RoomLeft
<1>10. NoOverlap'
  BY <1>7, Zenon DEF NoOverlap
<1> QED
  BY <1>8, <1>9, <1>10 DEF Inv

\* The first allocation holds at least 64 bytes and no context.
LEMMA InitInv == Init => Inv
<1> SUFFICES ASSUME Init PROVE Inv
  OBVIOUS
<1>1. doc \in Docs /\ doc \in Seq(Node) /\ Len(doc) > 0 /\ Len(doc) \in Nat
  BY WriterAssumption DEF Init
<1>2. /\ opts \in Options /\ pc = "val_begin" /\ ctn = 1 /\ level = 1 /\ ctx = << >>
      /\ ctn_obj \in BOOLEAN
  BY DEF Init, Options
<1>3. ctn_len \in Int
  <2>1. doc[1].n \in Nat
    <3>1. doc[1] \in Node
      BY <1>1
    <3> QED
      BY <3>1 DEF Node
  <2> QED
    BY <2>1 DEF Init
<1>4. PICK estimate \in Nat : Start(estimate)
  BY <1>1 DEF Init
<1> DEFINE ratio == IF opts.pretty THEN PRETTY_RATIO ELSE MINIFY_RATIO
           first == estimate * ratio + 64
<1>5. alc_len = SizeAlignUp(first, CtxSize) /\ cur = Marks /\ top = Marks /\ Marks \in {1, 2}
  BY <1>4 DEF Start, Marks
<1>6. first \in Nat /\ first >= 64
  <2>1. ratio \in Nat
    BY WriterAssumption
  <2>2. estimate * ratio \in Nat
    BY <2>1
  <2> QED
    BY <2>2
<1>7. CtxSize \in {8, 16}
  BY <1>2 DEF CtxSize
<1> HIDE DEF first
<1>8. alc_len \in Nat /\ alc_len >= 64
  BY <1>5, <1>6, <1>7, AlignUpBound
<1>9. CtxStart = alc_len
  BY <1>2, <1>7, <1>8 DEF CtxStart
<1>10. WriterTypes
  BY <1>1, <1>2, <1>3, <1>5, <1>8 DEF WriterTypes, Labels
<1> QED
  BY <1>2, <1>5, <1>8, <1>9, <1>10 DEF Inv, LevelIsDepth, RoomLeft, NoOverlap

LEMMA NextInv == Inv /\ [Next]_vars => Inv'
<1> SUFFICES ASSUME Inv, [Next]_vars PROVE Inv'
  OBVIOUS
<1>1. CASE WriteString
  BY <1>1, WriteStringKeepsInv
<1>2. CASE WriteNumber
  BY <1>2, WriteNumberKeepsInv
<1>3. CASE WriteNullOrBool
  BY <1>3, WriteNullOrBoolKeepsInv
<1>4. CASE WriteRaw
  BY <1>4, WriteRawKeepsInv
<1>5. CASE WriteEmptyContainer
  BY <1>5, WriteEmptyContainerKeepsInv
<1>6. CASE OpenContainer
  BY <1>6, OpenContainerKeepsInv
<1>7. CASE CtnEnd
  BY <1>7, CtnEndKeepsInv
<1>8. CASE Pop
  BY <1>8, PopKeepsInv
<1>9. CASE DocEnd
  BY <1>9, DocEndKeepsInv
<1>10. CASE WriteFails \/ InvalidType
  BY <1>10, FailKeepsInv DEF WriteFails, InvalidType
<1>11. CASE Ended \/ UNCHANGED vars
  <2>1. UNCHANGED vars
    BY <1>11 DEF Ended
  <2> QED
    BY <2>1 DEF vars, Inv, WriterTypes, LevelIsDepth, RoomLeft, NoOverlap, CtxStart, CtxSize, Marks
<1> QED
  BY <1>1, <1>2, <1>3, <1>4, <1>5, <1>6, <1>7, <1>8, <1>9, <1>10, <1>11 DEF Next

\* Whatever the document, its estimate and the options, the text stays in front of the
\* contexts and inside the buffer.  About incr_len and the writes behind it.
THEOREM NoOverlapHolds == Spec => []NoOverlap
<1>1. Inv => NoOverlap
  BY DEF Inv
<1> QED
  BY InitInv, NextInv, <1>1, PTL DEF Spec
=============================================================================
