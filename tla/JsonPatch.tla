------------------------------ MODULE JsonPatch ------------------------------
(***************************************************************************)
(* The two ways to patch a document (src/yyjson.c).                        *)
(*                                                                         *)
(* JSON Patch: yyjson_patch, and yyjson_mut_patch, which differs only in   *)
(* the form of the patch: the original is copied into nodes, and every     *)
(* operation of the patch is made of calls that follow a pointer in them.  *)
(*                                                                         *)
(* JSON Merge-Patch: yyjson_merge_patch and yyjson_mut_merge_patch: a      *)
(* document is merged with one patch after the other.  The result is built *)
(* of copies, so that values stand for the nodes.                          *)
(***************************************************************************)
EXTENDS JsonTree

CONSTANTS Originals,    \* the values that are patched
          Operations,   \* the operations, records; "malformed" for one that lacks a member
          MAX_OPS,      \* how many a patch has at most
          Targets,      \* the values that are merged with a patch
          Patches       \* the values they are merged with

VARIABLES
    mem,      \* the nodes, as in JsonPointer
    root,     \* the result so far, NULL when the patch failed
    count,    \* operations done
    status,   \* "patching", "done", "refused" or "memory"
    op,       \* the last operation
    doc,      \* the document that is merged
    patch,    \* the last patch merged with it
    ok        \* whether that returned a value

vars == <<mem, root, count, status, op>>
mergeVars == <<doc, patch, ok>>

Pointer == INSTANCE JsonPointer WITH
               Calls <- {}, MAX_NODES <- 0, ctx <- root, call <- op, out <- status
Copy == INSTANCE JsonCopy WITH
               Values <- {}, value <- op, form <- status, blocks <- count, counted <- count
Equals == INSTANCE JsonEquals WITH
               Values <- {}, WORD <- 256, lhs <- op, rhs <- op, form <- status, equal <- status

NULL == 0

\* yyjson_val_mut_copy: the nodes of a value behind those there are
CopyOf(s, v) ==
    LET base == Len(s)
        nodes == Copy!ToNodes(Flat(v))
        moved(n) == IF n = NULL THEN NULL ELSE n + base
    IN  s \o [i \in DOMAIN nodes |->
                 [nodes[i] EXCEPT !.next = moved(@),
                                  !.p = IF IsContainer(nodes[i]) /\ nodes[i].n > 0 THEN @ + base ELSE @]]

Init ==
    /\ \E v \in Originals : mem = CopyOf(<< >>, v)
    /\ root = 1 /\ count = 0 /\ status = "patching"
    /\ op = [op |-> "none"]

Continue(s, r) == mem' = s /\ root' = r /\ status' = "patching"
Fail(why) == mem' = mem /\ root' = NULL /\ status' = why

-----------------------------------------------------------------------------
\* ptr_get, ptr_remove, ptr_replace and ptr_add
Got(s, path) ==
    IF path = << >> THEN root ELSE Pointer!Found(Pointer!Walk(s, root, path))
Target(s, path) == Pointer!FoundCtx(s, Pointer!Walk(s, root, path))
Without(s, path) == Pointer!RemoveX(s, Target(s, path))

\* the value at node `val`, when it is added; at the empty pointer it is the new root.
AddTo(s, path, val) ==
    LET puts == Pointer!PutX(s, root, [path |-> path, create |-> FALSE], val, TRUE)
    IN  IF path = << >> THEN Continue(s, val)
        ELSE \E put \in puts :
                IF put.ok THEN Continue(put.s, root)
                ELSE Fail(IF \E other \in puts : other.ok THEN "memory" ELSE "refused")

New(s) == Len(s) + 1
AddAtPath(o) == AddTo(CopyOf(mem, o.val), o.path, New(mem))

RemoveAtPath(o) ==
    IF o.path = << >> \/ Got(mem, o.path) = NULL THEN Fail("refused")
    ELSE Continue(Without(mem, o.path).s, root)

ReplaceAtPath(o) ==
    LET s == CopyOf(mem, o.val)
    IN  IF o.path = << >> THEN Continue(s, New(mem))
        ELSE IF Got(s, o.path) = NULL THEN Fail("refused")
        ELSE Continue(Pointer!ReplaceX(s, Target(s, o.path), New(mem)).s, root)

Move_KeepsSource(o) ==
    IF o.from = << >> /\ o.path = << >> THEN Continue(mem, root)
    ELSE IF o.from = << >> \/ Got(mem, o.from) = NULL THEN Fail("refused")
    ELSE AddTo(mem, o.path, Got(mem, o.from))
Move(o) ==
    IF o.from = << >> /\ o.path = << >> THEN Continue(mem, root)
    ELSE IF o.from = << >> \/ Got(mem, o.from) = NULL THEN Fail("refused")
    ELSE LET taken == Without(mem, o.from) IN AddTo(taken.s, o.path, taken.old)

\* The root of the result is not copied.
CopyValue_NotCopied(o) ==
    IF Got(mem, o.from) = NULL THEN Fail("refused") ELSE AddTo(mem, o.path, Got(mem, o.from))
CopyValue(o) ==
    LET from == Got(mem, o.from)
    IN  IF from = NULL THEN Fail("refused")
        ELSE IF o.path = << >> THEN Continue(mem, from)
        ELSE AddTo(Copy!CopyNode(mem, from, mem), o.path, New(mem))

TestAtPath(o) ==
    LET s == CopyOf(mem, o.val)
        at == Got(s, o.path)
    IN  IF at # NULL /\ Equals!NodesEqual(s, New(mem), s, at) THEN Continue(s, root)
        ELSE Fail("refused")

Makes(o) ==
    \/ o.op \in {"add", "replace", "test"}
    \/ o.op = "copy" /\ o.path # << >>

Apply(o) ==
    \/ o.op = "add" /\ AddAtPath(o)
    \/ o.op = "remove" /\ RemoveAtPath(o)
    \/ o.op = "replace" /\ ReplaceAtPath(o)
    \/ o.op = "move" /\ Move(o)
    \/ o.op = "copy" /\ CopyValue(o)
    \/ o.op = "test" /\ TestAtPath(o)
    \/ o.op = "malformed" /\ Fail("refused")
    \/ Makes(o) /\ Fail("memory")     \* for the copy

Step == \E o \in Operations :
    /\ status = "patching" /\ count < MAX_OPS
    /\ op' = o /\ count' = count + 1
    /\ Apply(o)
Finish == status = "patching" /\ status' = "done" /\ UNCHANGED <<mem, root, count, op>>

Next == Step \/ Finish \/ (status # "patching" /\ UNCHANGED vars)

Spec == Init /\ [][Next]_vars

-----------------------------------------------------------------------------
NoValue == Scalar("none", 0)
Null == Scalar("null", 0)
MergeInit == doc \in Targets /\ patch = NoValue /\ ok = TRUE


\* yyjson_obj_getn: the first member with the key; a value that is no object has none.
Member(v, key) ==
    LET i == IF v.t = "obj" THEN SelectInSeq(v.m, LAMBDA mb : mb.k = key) ELSE 0
    IN  IF i = 0 THEN NoValue ELSE v.m[i].v

\* "copy any items not modified by the patch"
Kept_NotNull(orig, p) ==
    IF orig.t # "obj" THEN << >>
    ELSE SelectSeq(orig.m, LAMBDA mb : Member(p, mb.k) \in {NoValue, Null})
Kept(orig, p) ==
    IF orig.t # "obj" THEN << >> ELSE SelectSeq(orig.m, LAMBDA mb : Member(p, mb.k) = NoValue)

\* "null indicates the field is removed"
Merging(p) == SelectSeq(p.m, LAMBDA mb : mb.v # Null)

\* Without a member in the original, or with one that is no object, a patch is merged into
\* an empty object, which takes the nulls out of it.
Whole_Copied(mb, orig) == mb.v.t # "obj" \/ Member(orig, mb.k) = NoValue
Whole(mb, orig) == mb.v.t # "obj"
RECURSIVE Merged(_, _)
Merged(orig, p) ==
    IF p.t # "obj" THEN p
    ELSE Obj(Kept(orig, p) \o
             [i \in DOMAIN Merging(p) |->
                 LET mb == Merging(p)[i]
                 IN  [k |-> mb.k, v |-> IF Whole(mb, orig) THEN mb.v ELSE Merged(Member(orig, mb.k), mb.v)]])

Merge(p) ==
    /\ patch' = p
    /\ doc' = Merged(doc, p) /\ ok' = TRUE

\* No memory for a node: NULL for the whole, however deep it was.
MergeFails(p) == patch' = p /\ doc' = doc /\ ok' = FALSE

MergeNext == \E p \in Patches : Merge(p) \/ MergeFails(p)

MergeSpec == MergeInit /\ [][MergeNext]_mergeVars

-----------------------------------------------------------------------------
\* What a value is when the order of an object's members does not count
RECURSIVE AsMap(_)
AsMap(v) ==
    IF v.t = "obj" THEN [t |-> "obj", m |-> {<<mb.k, AsMap(mb.v)>> : mb \in ToSet(v.m)}]
    ELSE IF v.t = "arr" THEN [t |-> "arr", m |-> [i \in DOMAIN v.m |-> AsMap(v.m[i])]]
    ELSE v

\* MergePatch of RFC 7386, on functions from the keys: the target, made empty when it is no
\* object, member after member of the patch.
FunOf(v) == [key \in {mb.k : mb \in ToSet(v.m)} |-> Member(v, key)]
RECURSIVE MergePatch(_, _)
MergePatch(target, p) ==
    LET old == IF target.t = "obj" THEN FunOf(target) ELSE << >>
        new == FunOf(p)
        keys == {k \in (DOMAIN old \cup DOMAIN new) : ~(k \in DOMAIN new /\ new[k] = Null)}
        value(k) == IF k \notin DOMAIN new THEN AsMap(old[k])
                    ELSE MergePatch(IF k \in DOMAIN old THEN old[k] ELSE NoValue, new[k])
    IN  IF p.t # "obj" THEN AsMap(p) ELSE [t |-> "obj", m |-> {<<k, value(k)>> : k \in keys}]

\* "Creates and returns a merge-patched JSON value (RFC 7386)" (include/yyjson.h): the
\* result has the members that RFC 7386 has it have, nulls in the patch take members
\* away and never get into an object, at any depth.  About yyjson_merge_patch, which
\* copies what the patch does not name first and merges the rest behind it.
MergesLikeRfc7386 == [][ok' => AsMap(doc') = MergePatch(doc, patch')]_mergeVars

\* Merging a patch a second time changes nothing, not even the order of the members, and no
\* member is there twice.
RECURSIVE KeysDistinct(_)
KeysDistinct(v) ==
    /\ v.t = "obj" => /\ \A i, j \in DOMAIN v.m : v.m[i].k = v.m[j].k => i = j
                      /\ \A i \in DOMAIN v.m : KeysDistinct(v.m[i].v)
    /\ v.t = "arr" => \A i \in DOMAIN v.m : KeysDistinct(v.m[i])
Settled == KeysDistinct(doc) /\ (ok /\ patch # NoValue => Merged(doc, patch) = doc)
=============================================================================
