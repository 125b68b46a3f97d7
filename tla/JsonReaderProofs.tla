-------------------------- MODULE JsonReaderProofs --------------------------
(***************************************************************************)
(* What the reader keeps instead of a stack: the offsets of the open       *)
(* containers lead from the one at hand to the root, and the values never  *)
(* leave their block, for every text, set of flags and length.             *)
(***************************************************************************)
EXTENDS JsonReader, TLAPS

Containers == {"arr", "obj"}
Cell == [t : Containers \cup ValueTokens, n : Nat, p : Nat]
Labels == InDocument \cup {"opts", "lead", "doc_end", "done", "failed"}

ReaderTypes ==
    /\ pc \in Labels /\ left \in Nat /\ alc_len \in Nat
    /\ cells \in Seq(Cell) /\ ctn \in Nat /\ ctn_len \in Nat

\* The last cells are kept for a key and its value: behind a key one more is left.
RoomLeft ==
    /\ pc \in InDocument => alc_len >= 4 /\ HDR_LEN + Len(cells) + 1 <= alc_len
    /\ pc \in {"obj_key_end", "obj_val_begin"} => HDR_LEN + Len(cells) + 2 <= alc_len
    /\ pc \in {"doc_end", "done"} => HDR_LEN + Len(cells) <= alc_len

\* The open containers: each but the root is that far behind the one before it.
Open(S) ==
    /\ S \subseteq DOMAIN cells /\ 1 \in S /\ ctn \in S
    /\ \A i \in S : i <= ctn /\ cells[i].t \in Containers
    /\ cells[1].p = 0
    /\ \A i \in S \ {1} :
          /\ cells[i].p \in 1 .. i - 1 /\ i - cells[i].p \in S
          /\ \A j \in S : j < i => j <= i - cells[i].p
Chained == \E S : Open(S)

LabelKind == cells[ctn].t = IF pc \in ArrayLabels THEN "arr" ELSE "obj"

Inv == /\ ReaderTypes /\ RoomLeft
       /\ pc \in InDocument => Chained /\ LabelKind

-----------------------------------------------------------------------------
LEMMA ReadsLeft ==
    ASSUME left \in Nat, NEW t \in Tokens, Reads(t)
    PROVE  left' \in Nat
<1>1. Size(t) \in Nat
  BY DEF Size
<1> QED
  BY <1>1 DEF Reads

\* A failed read keeps what it has.
LEMMA FailKeepsInv ==
    ASSUME Inv, NEW code, Fail(code), left' \in Nat
    PROVE  Inv'
BY DEF Inv, Fail, ReaderTypes, RoomLeft, Labels, InDocument

\* A cell that val_incr makes room for leaves two behind it.
LEMMA ValIncrFits ==
    ASSUME Inv, pc \in InDocument, ValIncr
    PROVE  alc_len' \in Nat /\ alc_len' >= 4 /\ HDR_LEN + (Len(cells) + 1) + 2 <= alc_len'
<1>1. /\ HDR_LEN \in Nat /\ Len(cells) \in Nat /\ alc_len \in Nat /\ alc_len >= 4
      /\ HDR_LEN + Len(cells) + 1 <= alc_len
  BY ReaderAssumption DEF Inv, ReaderTypes, RoomLeft
<1>2. CASE Full
  <2>1. alc_len' = alc_len + alc_len \div 2
    BY <1>2 DEF ValIncr
  <2> QED
    BY <1>1, <2>1
<1>3. CASE ~ Full
  <2>1. alc_len' = alc_len
    BY <1>3 DEF ValIncr
  <2>2. HDR_LEN + Len(cells) < alc_len - 2
    BY <1>1, <1>3 DEF Full
  <2> QED
    BY <1>1, <2>1, <2>2
<1> QED
  BY <1>2, <1>3

\* A scalar behind the cells changes nothing of the chain.
LEMMA NewCellKeepsChain ==
    ASSUME Inv, pc \in InDocument, NEW t \in ValueTokens, cells' = NewCell(t, 0), ctn' = ctn
    PROVE  /\ cells' \in Seq(Cell) /\ Len(cells') = Len(cells) + 1 /\ Len(cells) \in Nat
           /\ Chained' /\ cells'[ctn] = cells[ctn]
<1>1. cells \in Seq(Cell) /\ [t |-> t, n |-> 0, p |-> 0] \in Cell /\ Len(cells) \in Nat
  BY DEF Inv, ReaderTypes, Cell
<1>2. /\ cells' \in Seq(Cell) /\ Len(cells') = Len(cells) + 1
      /\ DOMAIN cells = 1 .. Len(cells) /\ DOMAIN cells' = 1 .. Len(cells) + 1
      /\ \A i \in DOMAIN cells : cells'[i] = cells[i]
  BY <1>1 DEF NewCell
<1>3. PICK S : Open(S)
  BY DEF Inv, Chained
<1>4. S \subseteq DOMAIN cells'
  BY <1>1, <1>2, <1>3 DEF Open
<1>5. \A i \in S : cells'[i] = cells[i]
  BY <1>2, <1>3 DEF Open
<1>6. Open(S)'
  BY <1>3, <1>4, <1>5 DEF Open
<1> QED
  BY <1>1, <1>2, <1>3, <1>5, <1>6 DEF Chained, Open

LEMMA CopyDataKeepsInv ==
    ASSUME Inv, CopyData
    PROVE  Inv'
<1>1. left' = left /\ left \in Nat
  BY DEF CopyData, AtEnd, Inv, ReaderTypes
<1>2. CASE dat_len = 0
  BY <1>1, <1>2, FailKeepsInv DEF CopyData
<1>3. CASE dat_len # 0
  BY <1>1, <1>3 DEF CopyData, Inv, ReaderTypes, RoomLeft, Labels, InDocument
<1> QED
  BY <1>2, <1>3

LEMMA SkipKeepsInv ==
    ASSUME Inv, Skip
    PROVE  Inv'
<1>1. PICK t \in Tokens : Reads(t)
  BY DEF Skip
<1>2. left' \in Nat
  BY <1>1, ReadsLeft DEF Inv, ReaderTypes
<1>3. UNCHANGED <<pc, cells, ctn, ctn_len, alc_len>>
  BY DEF Skip
<1>4. ReaderTypes' /\ RoomLeft'
  BY <1>2, <1>3 DEF Inv, ReaderTypes, RoomLeft
<1>5. pc' \in InDocument => Chained' /\ LabelKind'
  BY <1>3 DEF Inv, Chained, Open, LabelKind
<1> QED
  BY <1>4, <1>5 DEF Inv

LEMMA SingleValueKeepsInv ==
    ASSUME Inv, SingleValue
    PROVE  Inv'
<1>1. PICK t \in ValueTokens : Reads(t) /\ cells' = <<[t |-> t, n |-> 0, p |-> 0]>>
  BY DEF SingleValue
<1>2. t \in Tokens
  BY DEF Tokens
<1>3. left' \in Nat
  BY <1>1, <1>2, ReadsLeft DEF Inv, ReaderTypes
<1>4. cells' \in Seq(Cell) /\ Len(cells') = 1
  <2>1. [t |-> t, n |-> 0, p |-> 0] \in Cell
    BY DEF Cell
  <2> QED
    BY <1>1, <2>1
<1>5. pc' = "doc_end" /\ alc_len' = HDR_LEN + 1 /\ ctn' = ctn /\ ctn_len' = ctn_len
  BY DEF SingleValue
<1>6. ReaderTypes' /\ RoomLeft'
  BY <1>3, <1>4, <1>5, ReaderAssumption DEF Inv, ReaderTypes, RoomLeft, Labels, InDocument
<1> QED
  BY <1>5, <1>6 DEF Inv, InDocument

LEMMA RootContainerKeepsInv ==
    ASSUME Inv, RootContainer
    PROVE  Inv'
<1>1. PICK t \in Openers :
         /\ Size(t) <= (IF pretty THEN left - 2 ELSE left)
         /\ left' = left - Size(t) - (IF pretty THEN 2 ELSE 0)
         /\ cells' = <<[t |-> TypeOf(t), n |-> 0, p |-> 0]>>
         /\ pc' = FirstLabel(t)
  BY DEF RootContainer
<1>2. left \in Nat /\ Size(t) = 1
  BY DEF Size, Openers, Inv, ReaderTypes
<1>3. left' \in Nat
  <2>1. CASE pretty
    BY <1>1, <1>2, <2>1
  <2>2. CASE ~ pretty
    BY <1>1, <1>2, <2>2
  <2> QED
    BY <2>1, <2>2
<1>4. TypeOf(t) \in Containers /\ pc' \in {"obj_key_begin", "arr_val_begin"}
      /\ TypeOf(t) = IF pc' \in ArrayLabels THEN "arr" ELSE "obj"
  BY <1>1 DEF TypeOf, FirstLabel, Containers, ArrayLabels, Openers
<1>5. cells' \in Seq(Cell) /\ Len(cells') = 1 /\ DOMAIN cells' = {1}
      /\ cells'[1].t = TypeOf(t) /\ cells'[1].p = 0
  <2>1. [t |-> TypeOf(t), n |-> 0, p |-> 0] \in Cell
    BY <1>4 DEF Cell
  <2> QED
    BY <1>1, <2>1
<1>6. ctn' = 1 /\ ctn_len' = 0
  BY DEF RootContainer
<1>7. alc_len' \in Nat /\ alc_len' >= HDR_LEN + 4
  <2> DEFINE bytes == IF flg.stop THEN 256 ELSE left
             ratio == IF pretty THEN PRETTY_RATIO ELSE MINIFY_RATIO
  <2>1. bytes \in Nat /\ ratio \in Nat \ {0} /\ HDR_LEN \in Nat
    BY <1>2, ReaderAssumption
  <2>2. alc_len' = HDR_LEN + bytes \div ratio + 4
    BY DEF RootContainer
  <2> HIDE DEF bytes, ratio
  <2>3. bytes \div ratio \in Nat
    BY <2>1
  <2> QED
    BY <2>1, <2>2, <2>3
<1>8. ReaderTypes'
  BY <1>3, <1>4, <1>5, <1>6, <1>7 DEF ReaderTypes, Labels, InDocument
<1>9. RoomLeft'
  BY <1>4, <1>5, <1>7, ReaderAssumption DEF RoomLeft
<1>10. Open({1})'
  BY <1>4, <1>5, <1>6 DEF Open
<1>11. Chained' /\ LabelKind'
  BY <1>4, <1>5, <1>6, <1>10 DEF Chained, LabelKind
<1> QED
  BY <1>8, <1>9, <1>11 DEF Inv

LEMMA ArrayValueKeepsInv ==
    ASSUME Inv, ArrayValue
    PROVE  Inv'
<1>1. PICK t \in ValueTokens : Reads(t) /\ cells' = NewCell(t, 0)
  BY DEF ArrayValue
<1>2. /\ pc = "arr_val_begin" /\ pc' = "arr_val_end" /\ ctn' = ctn /\ ctn_len' = ctn_len + 1
      /\ ValIncr
  BY DEF ArrayValue
<1>3. pc \in InDocument
  BY <1>2 DEF InDocument
<1>4. left' \in Nat
  BY <1>1, ReadsLeft DEF Inv, ReaderTypes, Tokens
<1>5. /\ cells' \in Seq(Cell) /\ Len(cells') = Len(cells) + 1 /\ Len(cells) \in Nat
      /\ Chained' /\ cells'[ctn] = cells[ctn]
  BY <1>1, <1>2, <1>3, NewCellKeepsChain
<1>6. alc_len' \in Nat /\ alc_len' >= 4 /\ HDR_LEN + (Len(cells) + 1) + 2 <= alc_len'
  BY <1>2, <1>3, ValIncrFits
<1>7. ReaderTypes'
  BY <1>2, <1>4, <1>5, <1>6 DEF Inv, ReaderTypes, Labels, InDocument
<1>8. RoomLeft'
  BY <1>2, <1>5, <1>6, ReaderAssumption DEF RoomLeft
<1>9. LabelKind'
  BY <1>2, <1>3, <1>5 DEF Inv, LabelKind, ArrayLabels
<1> QED
  BY <1>5, <1>7, <1>8, <1>9 DEF Inv

LEMMA KeyKeepsInv ==
    ASSUME Inv, Key
    PROVE  Inv'
<1>1. /\ Reads("str") /\ cells' = NewCell("str", 0) /\ ValIncr
      /\ pc = "obj_key_begin" /\ pc' = "obj_key_end" /\ ctn' = ctn /\ ctn_len' = ctn_len + 1
  BY DEF Key
<1>2. pc \in InDocument /\ "str" \in ValueTokens /\ "str" \in Tokens
  BY <1>1 DEF InDocument, ValueTokens, Tokens
<1>3. left' \in Nat
  BY <1>1, <1>2, ReadsLeft DEF Inv, ReaderTypes
<1>4. /\ cells' \in Seq(Cell) /\ Len(cells') = Len(cells) + 1 /\ Len(cells) \in Nat
      /\ Chained' /\ cells'[ctn] = cells[ctn]
  BY <1>1, <1>2, NewCellKeepsChain
<1>5. alc_len' \in Nat /\ alc_len' >= 4 /\ HDR_LEN + (Len(cells) + 1) + 2 <= alc_len'
  BY <1>1, <1>2, ValIncrFits
<1>6. ReaderTypes'
  BY <1>1, <1>3, <1>4, <1>5 DEF Inv, ReaderTypes, Labels, InDocument
<1>7. RoomLeft'
  BY <1>1, <1>4, <1>5, ReaderAssumption DEF RoomLeft
<1>8. LabelKind'
  BY <1>1, <1>2, <1>4 DEF Inv, LabelKind, ArrayLabels
<1> QED
  BY <1>4, <1>6, <1>7, <1>8 DEF Inv

LEMMA ColonKeepsInv ==
    ASSUME Inv, Colon
    PROVE  Inv'
<1>1. /\ Reads(":") /\ UNCHANGED <<cells, ctn, ctn_len, alc_len>>
      /\ pc = "obj_key_end" /\ pc' = "obj_val_begin"
  BY DEF Colon
<1>2. left' \in Nat
  BY <1>1, ReadsLeft DEF Inv, ReaderTypes, Tokens
<1>3. ReaderTypes' /\ RoomLeft'
  BY <1>1, <1>2 DEF Inv, ReaderTypes, RoomLeft, Labels, InDocument
<1>4. Chained' /\ LabelKind'
  BY <1>1 DEF Inv, Chained, Open, LabelKind, InDocument, ArrayLabels
<1> QED
  BY <1>3, <1>4 DEF Inv

LEMMA KeyValueKeepsInv ==
    ASSUME Inv, KeyValue
    PROVE  Inv'
<1>1. PICK t \in ValueTokens : Reads(t) /\ cells' = NewCell(t, 0)
  BY DEF KeyValue
<1>2. /\ pc = "obj_val_begin" /\ pc' = "obj_val_end" /\ ctn' = ctn /\ ctn_len' = ctn_len + 1
      /\ alc_len' = alc_len
  BY DEF KeyValue
<1>3. pc \in InDocument
  BY <1>2 DEF InDocument
<1>4. left' \in Nat
  BY <1>1, ReadsLeft DEF Inv, ReaderTypes, Tokens
<1>5. /\ cells' \in Seq(Cell) /\ Len(cells') = Len(cells) + 1 /\ Len(cells) \in Nat
      /\ Chained' /\ cells'[ctn] = cells[ctn]
  BY <1>1, <1>2, <1>3, NewCellKeepsChain
<1>6. alc_len \in Nat /\ alc_len >= 4 /\ HDR_LEN + Len(cells) + 2 <= alc_len
  BY <1>2, <1>3 DEF Inv, ReaderTypes, RoomLeft
<1>7. ReaderTypes'
  BY <1>2, <1>4, <1>5, <1>6 DEF Inv, ReaderTypes, Labels, InDocument
<1>8. RoomLeft'
  BY <1>2, <1>5, <1>6, ReaderAssumption DEF RoomLeft
<1>9. LabelKind'
  BY <1>2, <1>3, <1>5 DEF Inv, LabelKind, ArrayLabels
<1> QED
  BY <1>5, <1>7, <1>8, <1>9 DEF Inv

LEMMA CommaKeepsInv ==
    ASSUME Inv, Comma
    PROVE  Inv'
<1>1. /\ Reads(",") /\ UNCHANGED <<cells, ctn, ctn_len, alc_len>>
      /\ \/ pc = "arr_val_end" /\ pc' = "arr_val_begin"
         \/ pc = "obj_val_end" /\ pc' = "obj_key_begin"
  BY DEF Comma
<1>2. left' \in Nat
  BY <1>1, ReadsLeft DEF Inv, ReaderTypes, Tokens
<1>3. ReaderTypes' /\ RoomLeft'
  BY <1>1, <1>2 DEF Inv, ReaderTypes, RoomLeft, Labels, InDocument
<1>4. Chained' /\ LabelKind'
  BY <1>1 DEF Inv, Chained, Open, LabelKind, InDocument, ArrayLabels
<1> QED
  BY <1>3, <1>4 DEF Inv

\* The new container joins the chain at its end.
LEMMA OpenContainerKeepsInv ==
    ASSUME Inv, OpenContainer
    PROVE  Inv'
<1> DEFINE last == Len(cells) + 1
           saved == [cells EXCEPT ![ctn].n = Saved]
<1>1. PICK t \in Openers :
         /\ Reads(t) /\ pc' = FirstLabel(t)
         /\ cells' = Append(saved, [t |-> TypeOf(t), n |-> 0, p |-> ToParent])
  BY DEF OpenContainer
<1>2. pc \in {"arr_val_begin", "obj_val_begin"} /\ ValIncr /\ ctn' = last /\ ctn_len' = 0
  BY DEF OpenContainer
<1>3. pc \in InDocument /\ cells \in Seq(Cell) /\ Len(cells) \in Nat /\ ctn_len \in Nat
  BY <1>2 DEF InDocument, Inv, ReaderTypes
<1>4. left' \in Nat
  BY <1>1, ReadsLeft DEF Inv, ReaderTypes, Tokens
<1>5. PICK S : Open(S)
  BY <1>3 DEF Inv, Chained
<1>6. ctn \in 1 .. Len(cells) /\ S \subseteq 1 .. Len(cells)
  BY <1>3, <1>5 DEF Open
<1>7. /\ saved \in Seq(Cell) /\ Len(saved) = Len(cells)
      /\ \A i \in 1 .. Len(cells) : saved[i].t = cells[i].t /\ saved[i].p = cells[i].p
  <2>1. Saved \in Nat
    BY <1>3 DEF Saved
  <2>2. cells[ctn] \in Cell
    BY <1>3, <1>6
  <2>3. [cells[ctn] EXCEPT !.n = Saved] \in Cell
    BY <2>1, <2>2 DEF Cell
  <2>4. saved = [cells EXCEPT ![ctn] = [cells[ctn] EXCEPT !.n = Saved]]
    OBVIOUS
  <2>5. saved \in Seq(Cell) /\ Len(saved) = Len(cells)
    BY <1>3, <1>6, <2>3, <2>4
  <2>6. \A i \in 1 .. Len(cells) : saved[i] = IF i = ctn THEN [cells[ctn] EXCEPT !.n = Saved] ELSE cells[i]
    BY <1>3, <2>4
  <2>7. [cells[ctn] EXCEPT !.n = Saved].t = cells[ctn].t /\ [cells[ctn] EXCEPT !.n = Saved].p = cells[ctn].p
    BY <2>2 DEF Cell
  <2> QED
    BY <2>5, <2>6, <2>7
<1>8. /\ TypeOf(t) \in Containers /\ pc' \in {"obj_key_begin", "arr_val_begin"}
      /\ TypeOf(t) = IF pc' \in ArrayLabels THEN "arr" ELSE "obj"
  BY <1>1 DEF TypeOf, FirstLabel, Containers, ArrayLabels, Openers
<1>9. ToParent = last - ctn /\ ToParent \in 1 .. last - 1
  BY <1>3, <1>6 DEF ToParent
<1> DEFINE new == [t |-> TypeOf(t), n |-> 0, p |-> ToParent]
<1>10. new \in Cell /\ new.t = TypeOf(t) /\ new.p = ToParent
  BY <1>3, <1>8, <1>9 DEF Cell
<1> HIDE DEF new, saved
<1>11. cells' = Append(saved, new)
  BY <1>1 DEF new, saved
<1>12. /\ cells' \in Seq(Cell) /\ Len(cells') = last /\ DOMAIN cells' = 1 .. last
       /\ cells'[last] = new
       /\ \A i \in 1 .. Len(cells) : cells'[i].t = cells[i].t /\ cells'[i].p = cells[i].p
  BY <1>3, <1>7, <1>10, <1>11
<1>13. alc_len' \in Nat /\ alc_len' >= 4 /\ HDR_LEN + last + 2 <= alc_len'
  BY <1>2, <1>3, ValIncrFits
<1> HIDE DEF last
<1>14. last \in Nat /\ \A i \in 1 .. Len(cells) : i < last
  BY <1>3 DEF last
<1>15. ReaderTypes'
  BY <1>2, <1>4, <1>8, <1>12, <1>13, <1>14 DEF ReaderTypes, Labels, InDocument
<1>16. RoomLeft'
  BY <1>8, <1>12, <1>13, <1>14, ReaderAssumption DEF RoomLeft
<1>17. PICK T : T = S \cup {last}
  OBVIOUS
<1>18. Open(T)'
  <2>1. T \subseteq DOMAIN cells' /\ 1 \in T /\ ctn' \in T
    BY <1>2, <1>3, <1>5, <1>6, <1>12, <1>17 DEF Open, last
  <2>2. \A i \in T : i <= ctn' /\ cells'[i].t \in Containers
    BY <1>2, <1>5, <1>6, <1>8, <1>10, <1>12, <1>14, <1>17 DEF Open
  <2>3. cells'[1].p = 0
    BY <1>5, <1>6, <1>12 DEF Open
  <2>4. ASSUME NEW i \in T \ {1}
        PROVE  /\ cells'[i].p \in 1 .. i - 1 /\ i - cells'[i].p \in T
               /\ \A j \in T : j < i => j <= i - cells'[i].p
    <3>1. CASE i = last
      <4>1. cells'[i].p = last - ctn /\ i - cells'[i].p = ctn
        BY <1>6, <1>9, <1>10, <1>12, <1>14, <3>1
      <4>2. ctn \in T /\ \A j \in T : j < i => j <= ctn
        BY <1>5, <1>14, <1>17, <3>1 DEF Open
      <4> QED
        BY <1>9, <3>1, <4>1, <4>2
    <3>2. CASE i # last
      <4>1. i \in S \ {1} /\ cells'[i].p = cells[i].p /\ i < last /\ i \in Nat
        BY <1>6, <1>12, <1>14, <1>17, <3>2
      <4>2. /\ cells[i].p \in 1 .. i - 1 /\ i - cells[i].p \in S
            /\ \A j \in S : j < i => j <= i - cells[i].p
        BY <1>5, <4>1 DEF Open
      <4>3. \A j \in T : j < i => j \in S
        BY <1>14, <1>17, <4>1
      <4> QED
        BY <1>17, <4>1, <4>2, <4>3
    <3> QED
      BY <3>1, <3>2
  <2> QED
    BY <2>1, <2>2, <2>3, <2>4 DEF Open
<1>19. LabelKind'
  BY <1>2, <1>8, <1>10, <1>12 DEF LabelKind
<1> QED
  BY <1>15, <1>16, <1>18, <1>19 DEF Inv, Chained

\* The closed container leaves the chain, whose last one is then its parent.
LEMMA CloseKeepsInv ==
    ASSUME Inv, Close
    PROVE  Inv'
<1> DEFINE parent == ctn - cells[ctn].p
           size == Len(cells) + 1 - ctn
           count == IF InArray THEN ctn_len ELSE ctn_len \div 2
           closed == [cells[ctn] EXCEPT !.p = size, !.n = count]
<1>1. /\ InArray \/ InObject
      /\ Reads(ClosingToken) /\ alc_len' = alc_len
      /\ cells' = [cells EXCEPT ![ctn].p = size, ![ctn].n = count]
      /\ IF parent = ctn THEN pc' = "doc_end" /\ UNCHANGED <<ctn, ctn_len>>
         ELSE /\ ctn' = parent /\ ctn_len' = cells[parent].n
              /\ pc' = IF cells[parent].t = "obj" THEN "obj_val_end" ELSE "arr_val_end"
  BY DEF Close
<1>2. pc \in {"arr_val_begin", "arr_val_end", "obj_key_begin", "obj_val_end"} /\ pc \in InDocument
  BY <1>1 DEF InArray, InObject, ArrayLabels, InDocument
<1>3. cells \in Seq(Cell) /\ Len(cells) \in Nat /\ ctn_len \in Nat /\ alc_len \in Nat
  BY DEF Inv, ReaderTypes
<1>4. left' \in Nat
  BY <1>1, ReadsLeft DEF Inv, ReaderTypes, Tokens, ClosingToken
<1>5. PICK S : Open(S)
  BY <1>2 DEF Inv, Chained
<1>6. ctn \in 1 .. Len(cells) /\ S \subseteq 1 .. Len(cells) /\ cells[ctn] \in Cell
  BY <1>3, <1>5 DEF Open
<1>7. size \in Nat /\ count \in Nat
  BY <1>3, <1>6
<1>8. closed \in Cell
  BY <1>6, <1>7 DEF Cell
<1>9. /\ cells' \in Seq(Cell) /\ Len(cells') = Len(cells) /\ DOMAIN cells' = 1 .. Len(cells)
      /\ \A i \in 1 .. Len(cells) : i # ctn => cells'[i] = cells[i]
  <2>1. cells' = [cells EXCEPT ![ctn] = closed]
    BY <1>1, <1>3, <1>6 DEF Cell
  <2> HIDE DEF closed
  <2> QED
    BY <1>3, <1>6, <1>8, <2>1
<1> HIDE DEF size, count, closed
<1>10. HDR_LEN \in Nat /\ HDR_LEN + Len(cells) + 1 <= alc_len /\ alc_len >= 4
  BY <1>2, ReaderAssumption DEF Inv, RoomLeft
<1>11. CASE parent = ctn
  <2>1. pc' = "doc_end" /\ ctn' = ctn /\ ctn_len' = ctn_len
    BY <1>1, <1>11
  <2>2. ReaderTypes'
    BY <1>1, <1>3, <1>4, <1>9, <2>1 DEF Inv, ReaderTypes, Labels
  <2>3. RoomLeft'
    BY <1>1, <1>3, <1>9, <1>10, <2>1 DEF RoomLeft, InDocument
  <2> QED
    BY <2>1, <2>2, <2>3 DEF Inv, InDocument
<1>12. CASE parent # ctn
  <2>1. /\ ctn' = parent /\ ctn_len' = cells[parent].n
        /\ pc' = IF cells[parent].t = "obj" THEN "obj_val_end" ELSE "arr_val_end"
    BY <1>1, <1>12
  <2>2. ctn # 1
    BY <1>5, <1>6, <1>12 DEF Open
  <2>3. /\ cells[ctn].p \in 1 .. ctn - 1 /\ parent \in S
        /\ \A j \in S : j < ctn => j <= parent
    BY <1>5, <2>2 DEF Open
  <2>4. parent \in 1 .. Len(cells) /\ parent < ctn /\ cells[parent] \in Cell
        /\ cells[parent].t \in Containers
    BY <1>3, <1>5, <1>6, <2>3 DEF Open
  <2> HIDE DEF parent
  <2>5. cells'[parent] = cells[parent]
    BY <1>9, <2>4
  <2>6. pc' \in {"obj_val_end", "arr_val_end"}
    BY <2>1
  <2>7. ReaderTypes'
    <3>1. ctn' \in Nat /\ ctn_len' \in Nat
      BY <2>1, <2>4 DEF Cell
    <3> QED
      BY <1>1, <1>3, <1>4, <1>9, <2>6, <3>1 DEF ReaderTypes, Labels, InDocument
  <2>8. RoomLeft'
    BY <1>1, <1>3, <1>9, <1>10, <2>6 DEF RoomLeft
  <2>9. LabelKind'
    BY <2>1, <2>4, <2>5 DEF LabelKind, ArrayLabels, Containers
  <2>10. PICK T : T = S \ {ctn}
    OBVIOUS
  <2>11. Open(T)'
    <3>1. T \subseteq DOMAIN cells' /\ 1 \in T /\ ctn' \in T
      BY <1>5, <1>6, <1>9, <2>1, <2>2, <2>3, <2>4, <2>10 DEF Open
    <3>2. \A i \in T : i \in 1 .. Len(cells) /\ i < ctn /\ cells'[i] = cells[i]
      BY <1>5, <1>6, <1>9, <2>10 DEF Open
    <3>3. \A i \in T : i <= ctn' /\ cells'[i].t \in Containers
      BY <1>5, <2>1, <2>3, <2>10, <3>2 DEF Open
    <3>4. cells'[1].p = 0
      BY <1>5, <3>1, <3>2 DEF Open
    <3>5. ASSUME NEW i \in T \ {1}
          PROVE  /\ cells'[i].p \in 1 .. i - 1 /\ i - cells'[i].p \in T
                 /\ \A j \in T : j < i => j <= i - cells'[i].p
      <4>1. /\ cells[i].p \in 1 .. i - 1 /\ i - cells[i].p \in S
            /\ \A j \in S : j < i => j <= i - cells[i].p
        BY <1>5, <2>10 DEF Open
      <4>2. cells'[i] = cells[i] /\ i < ctn /\ i \in Nat /\ ctn \in Nat
        BY <1>6, <3>2
      <4>3. i - cells[i].p # ctn
        BY <4>1, <4>2
      <4> QED
        BY <2>10, <4>1, <4>2, <4>3
    <3> QED
      BY <3>1, <3>3, <3>4, <3>5 DEF Open
  <2> QED
    BY <2>7, <2>8, <2>9, <2>11 DEF Inv, Chained
<1> QED
  BY <1>11, <1>12

LEMMA RefusalKeepsInv ==
    ASSUME Inv,
           \/ EmptyContent \/ UnclosedLead \/ SingleRefused \/ TrailingComma \/ Unexpected
           \/ EndsInside \/ Garbage \/ AllocationFails
    PROVE  Inv'
<1>1. left \in Nat
  BY DEF Inv, ReaderTypes
<1>2. CASE EmptyContent \/ EndsInside \/ AllocationFails
  BY <1>1, <1>2, FailKeepsInv DEF EmptyContent, EndsInside, AllocationFails, AtEnd
<1>3. CASE UnclosedLead
  <2>1. left' \in Nat
    BY <1>1, <1>3, ReadsLeft DEF UnclosedLead, Tokens, Comments
  <2> QED
    BY <1>3, <2>1, FailKeepsInv DEF UnclosedLead
<1>4. CASE SingleRefused
  BY <1>1, <1>4, ReadsLeft, FailKeepsInv DEF SingleRefused
<1>5. CASE TrailingComma
  <2>1. left' \in Nat
    BY <1>1, <1>5, ReadsLeft DEF TrailingComma, Tokens, ClosingToken
  <2> QED
    BY <1>5, <2>1, FailKeepsInv DEF TrailingComma
<1>6. CASE Unexpected
  BY <1>1, <1>6, ReadsLeft, FailKeepsInv DEF Unexpected
<1>7. CASE Garbage
  BY <1>1, <1>7, ReadsLeft, FailKeepsInv DEF Garbage
<1> QED
  BY <1>2, <1>3, <1>4, <1>5, <1>6, <1>7

LEMMA FinishKeepsInv ==
    ASSUME Inv, Finish
    PROVE  Inv'
BY DEF Inv, Finish, AtEnd, ReaderTypes, RoomLeft, Labels, InDocument

LEMMA InitInv == Init => Inv
BY ReaderAssumption DEF Init, Inv, ReaderTypes, RoomLeft, Labels, InDocument

LEMMA NextInv == Inv /\ [Next]_vars => Inv'
<1> SUFFICES ASSUME Inv, [Next]_vars PROVE Inv'
  OBVIOUS
<1>1. CASE CopyData
  BY <1>1, CopyDataKeepsInv
<1>2. CASE Skip
  BY <1>2, SkipKeepsInv
<1>3. CASE SingleValue
  BY <1>3, SingleValueKeepsInv
<1>4. CASE RootContainer
  BY <1>4, RootContainerKeepsInv
<1>5. CASE OpenContainer
  BY <1>5, OpenContainerKeepsInv
<1>6. CASE ArrayValue
  BY <1>6, ArrayValueKeepsInv
<1>7. CASE Key
  BY <1>7, KeyKeepsInv
<1>8. CASE Colon
  BY <1>8, ColonKeepsInv
<1>9. CASE KeyValue
  BY <1>9, KeyValueKeepsInv
<1>10. CASE Comma
  BY <1>10, CommaKeepsInv
<1>11. CASE Close
  BY <1>11, CloseKeepsInv
<1>12. CASE \/ EmptyContent \/ UnclosedLead \/ SingleRefused \/ TrailingComma \/ Unexpected
            \/ EndsInside \/ Garbage \/ AllocationFails
  BY <1>12, RefusalKeepsInv
<1>13. CASE Finish
  BY <1>13, FinishKeepsInv
<1>14. CASE Ended \/ UNCHANGED vars
  <2>1. UNCHANGED vars
    BY <1>14 DEF Ended
  <2> QED
    BY <2>1 DEF vars, Inv, ReaderTypes, RoomLeft, Chained, Open, LabelKind
<1> QED
  BY <1>1, <1>2, <1>3, <1>4, <1>5, <1>6, <1>7, <1>8, <1>9, <1>10, <1>11, <1>12, <1>13, <1>14 DEF Next

\* However long the text and however wrong the first estimate, no value is written behind
\* the block.  About val_incr, and the value of a key, which does not use it.
THEOREM CellsInBlockHolds == Spec => []CellsInBlock
<1>1. Inv => CellsInBlock
  <2> SUFFICES ASSUME Inv, pc \in InDocument \cup {"doc_end", "done"}
               PROVE  HDR_LEN + Len(cells) <= alc_len
    BY DEF CellsInBlock
  <2>1. HDR_LEN \in Nat /\ Len(cells) \in Nat /\ alc_len \in Nat
    BY ReaderAssumption DEF Inv, ReaderTypes
  <2> QED
    BY <2>1 DEF Inv, RoomLeft
<1> QED
  BY InitInv, NextInv, <1>1, PTL DEF Spec

\* However deep the text, a closing bracket finds the parent of its container, and goes on
\* with the label of the parent's kind.  About the offsets that arr_end and obj_end follow.
THEOREM LabelFitsHolds == Spec => []LabelFits
<1>1. Inv => LabelFits
  <2> SUFFICES ASSUME Inv, pc \in InDocument
               PROVE  /\ ctn \in DOMAIN cells
                      /\ cells[ctn].t = IF pc \in ArrayLabels THEN "arr" ELSE "obj"
                      /\ IF ctn = 1 THEN cells[ctn].p = 0
                         ELSE /\ cells[ctn].p \in 1 .. ctn - 1
                              /\ cells[ctn - cells[ctn].p].t \in {"arr", "obj"}
    BY DEF LabelFits
  <2>1. PICK S : Open(S)
    BY DEF Inv, Chained
  <2>2. cells[ctn].t = IF pc \in ArrayLabels THEN "arr" ELSE "obj"
    BY DEF Inv, LabelKind
  <2> QED
    BY <2>1, <2>2 DEF Open, Containers
<1> QED
  BY InitInv, NextInv, <1>1, PTL DEF Spec
=============================================================================
