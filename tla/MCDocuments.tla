----------------------------- MODULE MCDocuments -----------------------------
(***************************************************************************)
(* What is done with whole documents, for TLC, side by side: a behaviour   *)
(* picks one of the parts, which goes through its own steps while the      *)
(* others stay at one of their initial states.                             *)
(***************************************************************************)
EXTENDS JsonWriter, SequencesExt

CONSTANTS
    CopiedValues,                                                   \* Values of JsonCopy
    ReadDocs, Keys,                                                 \* of JsonRead
    ComparedValues, WORD,                                           \* of JsonEquals
    Pointers, Calls, MAX_NODES, Patched, Operations, MAX_OPS,
    MergedValues, Patches                                           \* of MCPointer

VARIABLES
    part,
    cValue, cForm, cMem, cBlocks, cCounted,
    rDoc, rIter, rOut,
    eLhs, eRhs, eForm, eEqual,
    change, mem, root, place, call, out,
    pMem, pRoot, pCount, pStatus, pOp,
    mDoc, mPatch, mOk

copyVars == <<cValue, cForm, cMem, cBlocks, cCounted>>
readVars == <<rDoc, rIter, rOut>>
equalsVars == <<eLhs, eRhs, eForm, eEqual>>
changeVars == <<change, mem, root, place, call, out, pMem, pRoot, pCount, pStatus, pOp,
                mDoc, mPatch, mOk>>
Tree == INSTANCE JsonTree
Copy == INSTANCE JsonCopy WITH
    Values <- CopiedValues, value <- cValue, form <- cForm, mem <- cMem, blocks <- cBlocks,
    counted <- cCounted
Read == INSTANCE JsonRead WITH Docs <- ReadDocs, doc <- rDoc, iter <- rIter, out <- rOut
Eq == INSTANCE JsonEquals WITH
    Values <- ComparedValues, lhs <- eLhs, rhs <- eRhs, form <- eForm, equal <- eEqual
Change == INSTANCE MCPointer WITH part <- change, ctx <- place

\* The sets that MCPointer gives its constants, from an instance with other constants: a
\* constant must not be looked up in an instance that has it itself.
Sets == INSTANCE MCPointer WITH
    part <- change, ctx <- place, Pointers <- {}, Calls <- {}, MAX_NODES <- 0, Patched <- {},
    Operations <- {}, MAX_OPS <- 0, MergedValues <- {}, Patches <- {}
MCPointers == Sets!MCPointers
MCCalls == Sets!MCCalls
MCPatched == Sets!MCPatched
MCOperations == Sets!MCOperations
MCMerged == Sets!MCMerged
MCPatches == Sets!MCPatches

-----------------------------------------------------------------------------
UpTo2(S) == {<< >>} \cup {<<x>> : x \in S} \cup (S \X S)
UpTo3(S) == UNION {[1 .. n -> S] : n \in 0 .. 3}
Members(names, S) == [k : names, v : S]
Nested(names, S) ==
    {Tree!Arr(s) : s \in UpTo2(S)} \cup {Tree!Obj(s) : s \in UpTo2(Members(names, S))}
Wrapped(S) == {Tree!Arr(<<x>>) : x \in S} \cup {Tree!Obj(<<[k |-> 1, v |-> x]>>) : x \in S}

\* For JsonCopy: containers nested up to three deep, of up to two members, keys that
\* repeat, empty containers and empty strings
CopyScalars == {Tree!Scalar("null", 0), Tree!Scalar("sint", 3), Tree!Str(0), Tree!Str(2)}
CopyInner == Nested({1, 2}, {Tree!Scalar("null", 0), Tree!Str(1)})
CopyMiddle == Nested({1}, CopyInner)
MCCopiedValues == CopyScalars \cup Nested({1, 2}, CopyScalars) \cup CopyMiddle \cup Wrapped(CopyMiddle)

\* For JsonRead: arrays and objects of up to three members, some of them containers, keys
\* repeated and keys that are missing
ReadAtoms == {Tree!Scalar("null", 0), Tree!Str(1), Tree!Arr(<< >>), Tree!Arr(<<Tree!Scalar("null", 0)>>)}
MCReadDocs == {Tree!Flat(v) : v \in
    {Tree!Arr(s) : s \in UpTo3(ReadAtoms)}
        \cup {Tree!Obj(s) : s \in UpTo3(Members({1, 2}, {Tree!Str(1), Tree!Arr(<<Tree!Str(1)>>)}))}}

\* For JsonEquals: numbers of one word and different types, objects of up to three members
\* with keys repeated or in another order
EqNumbers == [t : {"uint", "sint", "real"}, v : {1, 3}]
EqAtoms == {Tree!Scalar("null", 0), Tree!Scalar("uint", 1), Tree!Scalar("sint", 1), Tree!Str(1)}
Reordered == {Tree!Obj(<<[k |-> 1, v |-> Tree!Scalar("uint", 1)], [k |-> 2, v |-> Tree!Str(1)]>>),
              Tree!Obj(<<[k |-> 2, v |-> Tree!Str(1)], [k |-> 1, v |-> Tree!Scalar("sint", 1)]>>)}
EqMembers == Members({1, 2, 3}, {Tree!Scalar("uint", 1)}) \cup Members({1}, {Tree!Str(1)})
MCComparedValues ==
    EqNumbers \cup EqAtoms \cup {Tree!Arr(s) : s \in UpTo2(EqAtoms)}
        \cup {Tree!Obj(s) : s \in UpTo3(EqMembers)}
        \cup Wrapped(Reordered)

\* For JsonWriter: values nested up to four deep, one nested deeper, strings and numbers
\* that take little room or all that they may take
WriteScalars == {Tree!Scalar("null", 0), Tree!Scalar("num", 0), Tree!Scalar("raw", 9),
                 Tree!Str(0), Tree!Str(30)}
WriteInner == Nested({1}, {Tree!Scalar("num", 0)})
Deep == Wrapped(Wrapped(Wrapped(Wrapped(Wrapped({Tree!Arr(<<Tree!Scalar("raw", 9)>>)})))))
WrittenValues ==
    Nested({1}, WriteScalars) \cup Nested({1}, WriteInner) \cup Wrapped(Nested({1}, WriteInner))
        \cup Deep \cup {Tree!Arr(<<Tree!Scalar("none", 0)>>)}

Width(node, wide) ==
    CASE node.t = "str" -> IF wide THEN 6 * node.n + 2 ELSE node.n + 2
      [] node.t = "num" -> IF wide THEN NUM_LEN - 2 ELSE 1
      [] node.t = "raw" -> node.p
      [] node.t = "null" -> 4
      [] OTHER -> 0
ToDoc(v, wide, ok) ==
    LET nodes == Copy!ToNodes(Tree!Flat(v))
    IN  [i \in DOMAIN nodes |->
            [t |-> nodes[i].t, n |-> IF nodes[i].t = "raw" THEN nodes[i].p ELSE nodes[i].n,
             ok |-> ok, w |-> Width(nodes[i], wide),
             next |-> nodes[i].next, ptr |-> nodes[i].p]]
MCDocs == {ToDoc(v, wide, TRUE) : v \in WrittenValues, wide \in BOOLEAN}
              \cup {ToDoc(v, FALSE, FALSE) : v \in Wrapped({Tree!Str(1), Tree!Scalar("num", 0)})}

-----------------------------------------------------------------------------
\* A part that a behaviour does not pick stays at one of its initial states
Parts == {"write", "copy", "read", "equals", "change"}
RestDoc == CHOOSE d \in Docs : d[1].t = "arr" /\ d[1].n = 1
RestRead == Tree!Flat(Tree!Arr(<< >>))
MCInit ==
    /\ part \in Parts
    /\ Change!MCInit
    /\ part # "change" => change = "pointer"
    /\ IF part = "write" THEN Init
       ELSE /\ doc = RestDoc /\ Init
            /\ opts = [pretty |-> FALSE, newline |-> FALSE, spaces |-> 4, mutable |-> FALSE]
    /\ IF part = "copy" THEN Copy!Init
       ELSE /\ cValue = Tree!Str(0) /\ cMem = Tree!Flat(cValue) /\ cForm = "cells"
            /\ cBlocks = Copy!CellBlocks /\ cCounted = Copy!NoCount
    /\ IF part = "read" THEN Read!Init
       ELSE rDoc = RestRead /\ rIter = Read!Started(rDoc, 1) /\ rOut = Read!NoCell
    /\ IF part = "equals" THEN Eq!Init
       ELSE eLhs = Tree!Str(1) /\ eRhs = Tree!Str(1) /\ eForm = "none" /\ eEqual = FALSE
Write ==
    /\ part = "write" /\ Next
    /\ UNCHANGED <<part, copyVars, readVars, equalsVars, changeVars>>
CopyDocument ==
    /\ part = "copy" /\ Copy!Next
    /\ UNCHANGED <<part, vars, readVars, equalsVars, changeVars>>
ReadCells ==
    /\ part = "read" /\ Read!Next
    /\ UNCHANGED <<part, vars, copyVars, equalsVars, changeVars>>
Compare ==
    /\ part = "equals" /\ Eq!Next
    /\ UNCHANGED <<part, vars, copyVars, readVars, changeVars>>
ChangeDocument ==
    /\ part = "change" /\ Change!MCNext
    /\ UNCHANGED <<part, vars, copyVars, readVars, equalsVars>>
MCNext == Write \/ CopyDocument \/ ReadCells \/ Compare \/ ChangeDocument
MCSpec == MCInit /\ [][MCNext]_<<part, vars, copyVars, readVars, equalsVars, changeVars>>

\* As in MCPointer: what has no effect on later calls is not looked at.
View == IF part = "change" THEN Change!MCView
        ELSE <<part, vars, copyVars, readVars, equalsVars>>

-----------------------------------------------------------------------------
\* The text of the node at p, whose members are indented by `lv` levels, read off the ring
RECURSIVE TextOf(_, _)
TextOf(p, lv) ==
    LET node == doc[p]
        obj == node.t = "obj"
        brk == IF opts.pretty THEN <<NewLine>> ELSE << >>
        indent(levels) == IF opts.pretty THEN IndentToken(levels) ELSE << >>
        item(k) == TextOf(Along(node.ptr, k), lv + 1)
        colon == <<Sign(":")>> \o (IF opts.pretty THEN <<Sign("sp")>> ELSE << >>)
        member(k) == indent(lv) \o (IF obj THEN item(2 * k) \o colon \o item(2 * k + 1) ELSE item(k))
        joined[k \in 1 .. node.n] ==
            IF k = 1 THEN member(1) ELSE joined[k - 1] \o <<Sign(",")>> \o brk \o member(k)
    IN  IF node.t \notin {"arr", "obj"} THEN <<Token("value", p)>>
        ELSE IF node.n = 0 THEN <<Opening(obj), Closing(obj)>>
        ELSE <<Opening(obj)>> \o brk \o joined[node.n] \o brk \o indent(lv - 1) \o <<Closing(obj)>>

\* The finished text is the JSON text of the document: separators between the members
\* and nowhere else, a colon behind the keys, every bracket closed by its own kind, and
\* when pretty a line for every member, indented by its depth.  About the labels of the
\* four writers, which keep no stack of their own but the contexts at the buffer's end.
WritesText ==
    pc = "done" => text = TextOf(1, 1) \o (IF opts.newline THEN <<NewLine>> ELSE << >>)

\* However often a document is copied, it stands for the value it was parsed from
\* (yyjson_val_mut_copy, unsafe_yyjson_mut_val_mut_copy, yyjson_imut_copy).
SameValue == Copy!SameValue

\* yyjson_mut_stat counts exactly what yyjson_imut_copy then writes.
CountedIsWritten == Copy!CountedIsWritten

\* A copy that fails midway frees what it had made (yyjson_doc_mut_copy and the others).
NoBlockLost == Copy!NoBlockLost

\* yyjson_arr_get, yyjson_obj_getn and their kind return the cell that stands for the
\* member, walking or not.
GetsMember == Read!GetsMember

\* The cell of an iterator is the member that its index names (yyjson_obj_iter_getn sets
\* both when it goes round).
CurIsIndex == Read!CurIsIndex

\* yyjson_obj_iter_getn finds the first member with the key behind the ones visited, or
\* failing that the first before them.
FindsCyclically == Read!FindsCyclically

\* Where no key is repeated yyjson_equals and yyjson_mut_equals say whether two documents
\* are the same value.
EqualIfSame == Eq!EqualIfSame

\* A document equals itself as cells also when keys are repeated (unsafe_yyjson_equals).
EqualsItself == Eq!EqualsItself

-----------------------------------------------------------------------------

\* The two forms of a document stand for one value: copies, accessors, iterators and
\* comparisons agree about it, and a copy fills what was counted for it and leaves nothing
\* behind when it fails.
FormsAgree ==
    /\ SameValue /\ CountedIsWritten /\ NoBlockLost
    /\ GetsMember /\ CurIsIndex
    /\ EqualIfSame /\ EqualsItself

\* A changed document stays one: the rings of its containers are closed, no node is in two
\* places, its immutable copy has the same values at the same pointers, and merging a
\* patch is done after one time (JSON Pointer, Patch and Merge-Patch on mutable values).
DocumentWhole == part = "change" => Change!DocumentWhole

\* What calls with pointers and contexts do is what JsonDoc says that they do: parents are
\* made or nothing is, a set replaces and an add inserts, and what is done by the context
\* is done where the last call was (unsafe_yyjson_mut_ptr_putx, _replacex, _removex and
\* yyjson_ptr_ctx_*).
PlacesKept == Change!PlacesKept

\* A patch does what its operations do one after the other and is refused at the first that
\* cannot be done (yyjson_patch).  They are those of RFC 6902 with two exceptions, a value
\* added under a key that the object has and a value moved below where it was: see
\* AppliesInOrder and FollowsRfc6902 in MCPointer.
AppliesInOrder == Change!AppliesInOrder

\* A merged document has the members that RFC 7386 has it have (yyjson_merge_patch).
MergesLikeRfc7386 == Change!MergesLikeRfc7386
=============================================================================
