------------------------------ MODULE MCPointer ------------------------------
(***************************************************************************)
(* JSON Pointer, JSON Patch and Merge-Patch for TLC, side by side: a       *)
(* behaviour picks one of them, the others stay at an initial state.       *)
(***************************************************************************)
EXTENDS JsonPointer

CONSTANTS
    Pointers,                           \* the pointers, sequences of tokens
    Patched, Operations, MAX_OPS,       \* of JsonPatch, for a patch
    MergedValues, Patches               \* and for a merge-patch

VARIABLES
    part,
    pMem, pRoot, pCount, pStatus, pOp,
    mDoc, mPatch, mOk

patchVars == <<pMem, pRoot, pCount, pStatus, pOp>>
mergeVars == <<mDoc, mPatch, mOk>>

Patch == INSTANCE JsonPatch WITH
    Originals <- Patched, mem <- pMem, root <- pRoot, count <- pCount, status <- pStatus, op <- pOp,
    Targets <- MergedValues, doc <- mDoc, patch <- mPatch, ok <- mOk

-----------------------------------------------------------------------------
\* The document and the context as JsonDoc has them
MembersOf(p) ==
    IF ~ IsContainer(mem[p]) THEN << >>
    ELSE [k \in 1 .. mem[p].n |-> IF mem[p].t = "obj" THEN KeysOf(mem, p)[k] ELSE Along(mem, mem[p].p, k)]
RECURSIVE PathsTo(_, _)
PathsTo(p, x) ==
    (IF p = x THEN {<< >>} ELSE {})
        \cup UNION {{<<k>> \o path : path \in PathsTo(ValueOf(mem, MembersOf(p)[k]), x)}
                       : k \in DOMAIN MembersOf(p)}
Target == IF ctx.pre = NULL THEN 0 ELSE IndexFirstSubSeq(<<After(mem, ctx.pre)>>, MembersOf(ctx.ctn))
PlaceOfCtx ==
    IF ~ ctx.usable THEN [path |-> << >>, at |-> -1]
    ELSE [path |-> CHOOSE path \in PathsTo(root, ctx.ctn) : TRUE, at |-> Target]

AsDoc == INSTANCE JsonDoc WITH
            doc <- Tree, place <- PlaceOfCtx, out <- [ok |-> out.ok, val |-> Value(mem, out.val)],
            status <- "none"

\* Every call changes the document, returns a value and leaves a context as a pointer into
\* a tree of values should: parents are made or nothing is, a set replaces and an add
\* inserts, and what is done by the context is done where the last call was.  About the
\* ring surgery of unsafe_yyjson_mut_ptr_putx, _replacex, _removex and yyjson_ptr_ctx_*.
PlacesKept == AsDoc!Spec

\* The ring of every container closes: from the last member, which ptr points to, as
\* many links as there are nodes lead back to it.  About the same functions, which
\* move ptr when the last member goes, is replaced or gets a successor.
RECURSIVE Closed(_)
Closed(p) ==
    LET nodes == IF mem[p].t = "obj" THEN 2 * mem[p].n ELSE mem[p].n
        ms == MembersOf(p)
    IN  /\ ms # << >> => Along(mem, mem[p].p, nodes) = mem[p].p
        /\ \A k \in DOMAIN ms : Closed(ValueOf(mem, ms[k]))
RingsClosed == root # NULL => Closed(root)

\* On an immutable copy of the document a pointer leads to the same value.  About
\* unsafe_yyjson_ptr_getx and ptr_arr_get, which take a flat array by index.
GetsAlike ==
    LET cells == Flat(Tree)
    IN  \A path \in Pointers \ {<< >>} :
            LET i == GetCell(cells, 1, path)
                found == IF root = NULL THEN NULL ELSE Found(Walk(mem, root, path))
            IN  IF found = NULL THEN i = NULL
                ELSE i # NULL /\ ValueAt(cells, i) = Value(mem, found)

-----------------------------------------------------------------------------
PatchAsDoc == INSTANCE JsonDoc WITH
    doc <- Value(pMem, pRoot), call <- pOp, status <- pStatus, place <- NULL, out <- NULL

\* The result is the original with every operation of the patch applied in turn to what
\* the ones before it left, and NULL from the first that cannot be: a missing target, a
\* parent that is not there, a test that fails, or no memory.  About yyjson_patch, which
\* puts them together from ptr_get, ptr_add, ptr_remove and ptr_replace.  An operation is
\* that of RFC 6902 with two exceptions, which the code does not make and FollowsRfc6902
\* asks for: a value added under a key that the object has makes a second member, and a
\* value may be moved below where it was.
AppliesInOrder == PatchAsDoc!LenientPatchSpec

\* "Creates and returns a patched JSON value (RFC 6902)" (yyjson.h:4600): the same with the
\* operations of RFC 6902.
FollowsRfc6902 == PatchAsDoc!PatchSpec

\* No node is in two places of the result, so that what a later operation does to one value
\* is not done to another: a copy copies, a move takes the value out first.  The depth is
\* bounded by the nodes, which in a tree is no bound.
RECURSIVE NodesBelow(_, _)
NodesBelow(p, depth) ==
    LET n == Copy!Linked(pMem, p)
    IN  IF ~ IsContainer(pMem[p]) \/ depth = 0 THEN <<p>>
        ELSE <<p>> \o FlattenSeq([k \in 1 .. n |-> NodesBelow(Along(pMem, pMem[p].p, k), depth - 1)])
NoNodeShared == pRoot # NULL => IsInjective(NodesBelow(pRoot, Len(pMem)))

\* Merging a patch again changes nothing, and no member is there twice
\* (yyjson_merge_patch).
Settled == Patch!Settled

\* A merged document has the members that RFC 7386 has it have (yyjson_merge_patch).
MergesLikeRfc7386 == Patch!MergesLikeRfc7386

-----------------------------------------------------------------------------
Token(key, idx) == [key |-> key, idx |-> idx]
Name == Token(1, NOT_INDEX)
Zero == Token(2, 0)
One == Token(3, 1)
Dash == Token(4, END)
Bad == Token(NO_KEY, NOT_INDEX)

Long == {<<Name, Name>>, <<Name, Zero>>, <<Zero, Name>>, <<Zero, Dash>>, <<Dash, Name>>, <<Dash, Bad>>,
         <<Name, Name, Name>>, <<Dash, Name, Dash>>, <<Name, Dash, Bad>>}
MCPointers == {<< >>} \cup {<<t>> : t \in {Name, Zero, One, Dash, Bad}} \cup Long
NewValues == {Scalar("num", 1), Arr(<< >>), Obj(<< >>)}

\* The two levels differ when the pointer is empty or there is no document, and what is put
\* matters to later calls only.
Levels(path) == IF path \in {<< >>, <<Name>>} THEN {"doc", "val"} ELSE {"doc"}
Puts(path) == IF path \in Long \cup {<<Bad>>} THEN {Scalar("num", 1)} ELSE NewValues
Creates(path) == IF path \in {<<Name, Name>>, <<Dash, Name>>, <<Name>>} THEN BOOLEAN ELSE {TRUE}
PathCalls ==
    UNION {{[op |-> op, path |-> path, level |-> l] : op \in {"get", "remove"}, l \in Levels(path)}
             : path \in MCPointers}
PutCalls ==
    UNION {{[op |-> op, path |-> path, val |-> v, create |-> create, level |-> l] :
               op \in {"add", "set"}, v \in Puts(path), l \in Levels(path), create \in Creates(path)}
             : path \in MCPointers}
OtherCalls ==
    {[op |-> "replace", path |-> path, val |-> Scalar("num", 1), level |-> "doc"] : path \in MCPointers}
        \cup {[op |-> "replace", path |-> << >>, val |-> Arr(<< >>), level |-> "val"]}
        \cup {[op |-> "set", path |-> path, val |-> NoValue, create |-> TRUE, level |-> l]
                 : path \in {<< >>, <<Name>>}, l \in {"doc", "val"}}
CtxCalls ==
    {[op |-> "ctx_append", key |-> k, val |-> Scalar("num", 1)] : k \in {1, 2}}
        \cup {[op |-> "ctx_replace", val |-> v] : v \in {Scalar("num", 1), Arr(<< >>)}}
        \cup {[op |-> "ctx_remove"]}
MCCalls == PathCalls \cup PutCalls \cup OtherCalls \cup CtxCalls

\* For JsonPatch: a patch may name what its own operations made, moved or removed.
A == Token(1, NOT_INDEX)
B == Token(2, NOT_INDEX)
First == Token(3, 0)
Num(n) == Scalar("uint", n)
Member(k, v) == [k |-> k, v |-> v]

MCPatched ==
    {Obj(<<Member(1, Arr(<<Num(5), Num(6)>>)), Member(2, Num(7))>>),
     Obj(<<Member(1, Obj(<<Member(2, Num(5))>>))>>),
     Arr(<<Num(5), Obj(<<Member(1, Num(6))>>)>>)}

Paths == {<< >>, <<A>>, <<B>>, <<A, B>>, <<A, First>>, <<A, Dash>>, <<First>>, <<Dash, A>>}
MCOperations ==
    {[op |-> "remove", path |-> p] : p \in Paths}
        \cup {[op |-> "add", path |-> p, val |-> Num(8)] : p \in Paths}
        \cup {[op |-> o, path |-> p, val |-> Arr(<<Num(8)>>)] :
                 o \in {"add", "replace"}, p \in {<< >>, <<A>>, <<A, First>>, <<B, A>>}}
        \cup {[op |-> o, from |-> f, path |-> p] : o \in {"move", "copy"}, f, p \in Paths \ {<<Dash, A>>}}
        \cup {[op |-> "test", path |-> p, val |-> v] : p \in {<< >>, <<A>>, <<A, First>>},
                 v \in {Num(5), Arr(<<Num(8)>>), Obj(<<Member(2, Num(7)), Member(1, Num(8))>>)}}
        \cup {[op |-> "move", from |-> <<First>>, path |-> <<First, A>>]}
        \cup {[op |-> "malformed"]}

\* For merge-patches: values of up to two members, some of them objects
Objects(S) ==
    {Obj(<< >>)} \cup {Obj(<<[k |-> k, v |-> x]>>) : k \in {1, 2}, x \in S}
        \cup {Obj(<<[k |-> 1, v |-> x], [k |-> 2, v |-> y]>>) : x \in S, y \in S}
Null == Scalar("null", 0)
MCPatches ==
    {Null, Arr(<<Null>>)}
        \cup Objects({Obj(<< >>), Obj(<<Member(1, Null), Member(2, Num(1))>>),
                     Null, Num(2), Arr(<<Null>>)})
MCMerged ==
    {Num(1), Arr(<<Null>>),
     Obj(<<[k |-> 2, v |-> Null], [k |-> 1, v |-> Obj(<<[k |-> 2, v |-> Num(1)]>>)]>>)}

-----------------------------------------------------------------------------
Parts == {"pointer", "patch", "merge"}
MCInit ==
    /\ part \in Parts
    /\ Init /\ Patch!Init /\ Patch!MergeInit
    /\ part # "patch" => pMem[1].t = "arr"
    /\ part # "merge" => mDoc = Num(1)

Point == part = "pointer" /\ Next /\ UNCHANGED <<part, patchVars, mergeVars>>
ApplyPatch == part = "patch" /\ Patch!Next /\ UNCHANGED <<part, vars, mergeVars>>
MergePatch == part = "merge" /\ Patch!MergeNext /\ UNCHANGED <<part, vars, patchVars>>

MCNext == Point \/ ApplyPatch \/ MergePatch
MCSpec == MCInit /\ [][MCNext]_<<part, vars, patchVars, mergeVars>>

\* What was asked of a pointer and returned, and nodes that are in no document, change
\* nothing later; a tree whose rings are broken is a state of its own.
MCView == <<part, Tree, PlaceOfCtx, RingsClosed, patchVars, mergeVars>>

-----------------------------------------------------------------------------

\* The document stays one: its rings are closed, no node is in two of its places, a merge
\* is done after one time, and its immutable copy has the same values at the same pointers.
DocumentWhole == RingsClosed /\ GetsAlike /\ NoNodeShared /\ Settled
=============================================================================
