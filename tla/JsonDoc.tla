------------------------------- MODULE JsonDoc -------------------------------
(***************************************************************************)
(* What include/yyjson.h promises of JSON Pointer (RFC 6901) and of JSON   *)
(* Patch (RFC 6902).  A document is a value, a pointer a sequence of       *)
(* tokens that leads to a place in it, and a context remembers the place   *)
(* of the last call, for changes there without the pointer (Spec).  A      *)
(* patch is a sequence of operations at such places, of which the first    *)
(* that cannot be done ends it (PatchSpec, which is RFC 6902).             *)
(* yyjson_patch does not keep that promise: LenientPatchSpec is what it    *)
(* keeps, with the two departures named there.                             *)
(***************************************************************************)
EXTENDS JsonTree

VARIABLES
    doc,      \* the value, or NoValue
    place,    \* [path, at]: the container, by the members that lead to it, and the
              \* target's number in it, 0 when there is none; or NoPlace
    call,     \* the last call or operation, a record
    out,      \* [ok, val]: what it returned
    status    \* of a patch: "patching", "done", "refused", or "memory" when there was none

vars == <<doc, place, call, out, status>>

NoValue == Scalar("none", 0)
\* [path, at]: the container, by the members that lead to it, and the target's number in it,
\* 0 when there is none
Place(path, at) == [path |-> path, at |-> at]
NoPlace == Place(<< >>, -1)
\* When other members with the target's key went with it, its place is not told.
Lost == NoPlace
Under(i, p) == IF p = NoPlace THEN NoPlace ELSE [p EXCEPT !.path = <<i>> \o @]

\* A token: the key it is, and the index it may be: NOT_INDEX, or END for "-".  The key
\* of a token with an invalid escape is NO_KEY.
END == 99
NOT_INDEX == -1
NO_KEY == 0

-----------------------------------------------------------------------------
Named(members, key) == {i \in DOMAIN members : members[i].k = key}
Least(S) == CHOOSE i \in S : \A j \in S : i <= j

\* The number of the member that a token selects, 0 when it selects none
Selected(v, tok) ==
    IF v.t = "obj" THEN IF Named(v.m, tok.key) = {} THEN 0 ELSE Least(Named(v.m, tok.key))
    ELSE IF v.t = "arr" /\ tok.idx \in 0 .. Len(v.m) - 1 THEN tok.idx + 1
    ELSE 0
Member(v, i) == IF v.t = "obj" THEN v.m[i].v ELSE v.m[i]
WithMember(v, i, x) == IF v.t = "obj" THEN [v EXCEPT !.m[i].v = x] ELSE [v EXCEPT !.m[i] = x]
AtEnd(v, tok) == v.t = "arr" /\ tok.idx \in {Len(v.m), END}

\* A member put in front of the i-th
Inserted(v, i, key, x) ==
    [v EXCEPT !.m = InsertAt(@, i, IF v.t = "obj" THEN [k |-> key, v |-> x] ELSE x)]
Removed(v, i) == [v EXCEPT !.m = RemoveAt(@, i)]
Others(members, key) == SelectSeq(members, LAMBDA mb : mb.k # key)
Repeated(v, i) == v.t = "obj" /\ Named(v.m, v.m[i].k) # {i}
\* The first member with the key has the value and no other has the key
Put(v, i, x) ==
    LET key == v.m[i].k
    IN  [v EXCEPT !.m = SubSeq(@, 1, i - 1) \o <<[k |-> key, v |-> x]>>
                            \o Others(SubSeq(@, i + 1, Len(@)), key)]

\* What a chain of new parents holds
RECURSIVE Chain(_, _)
Chain(path, x) ==
    IF path = << >> THEN x ELSE Obj(<<[k |-> Head(path).key, v |-> Chain(Tail(path), x)]>>)
Wellformed(path) == \A i \in DOMAIN path : path[i].key # NO_KEY

-----------------------------------------------------------------------------
\* Where a pointer leads: the container and the target in it; the container alone when the
\* target could be put there; NoPlace otherwise.
RECURSIVE PlaceOf(_, _)
PlaceOf(v, path) ==
    LET i == Selected(v, Head(path))
        inner == PlaceOf(Member(v, i), Tail(path))
    IN  IF Head(path).key = NO_KEY THEN NoPlace
        ELSE IF Len(path) = 1
        THEN IF i # 0 \/ v.t = "obj" \/ AtEnd(v, Head(path)) THEN Place(<< >>, i) ELSE NoPlace
        ELSE IF i = 0 THEN NoPlace
        ELSE Under(i, inner)

RECURSIVE ValueIn(_, _)
ValueIn(v, path) == IF path = << >> THEN v ELSE ValueIn(Member(v, Head(path)), Tail(path))
Target(v, p) == Member(ValueIn(v, p.path), p.at)

\* The value with another container at a place
RECURSIVE Changed(_, _, _)
Changed(v, path, new) ==
    IF path = << >> THEN new
    ELSE WithMember(v, Head(path), Changed(Member(v, Head(path)), Tail(path), new))
ChangedAt(v, p, F(_, _)) == Changed(v, p.path, F(ValueIn(v, p.path), p.at))

\* add and set: [ok, doc, place, old, makes]; `makes` when a key or a parent is made, for
\* which there may be no memory
Failed(v) == [ok |-> FALSE, doc |-> v, place |-> NoPlace, old |-> NoValue, makes |-> FALSE]
RECURSIVE Added(_, _, _, _, _)
Added(v, path, x, create, insert) ==
    LET tok == Head(path)
        i == Selected(v, tok)
        rest == Tail(path)
        done(w, at, old) ==
            [ok |-> TRUE, doc |-> w, place |-> at, old |-> old,
             makes |-> rest # << >> \/ (v.t = "obj" /\ old = NoValue)]
        new == IF rest = << >> THEN x ELSE Chain(rest, x)
        end == Len(v.m) + 1
        \* the new container is the last of the chain
        depth == Place(IF rest = << >> THEN << >>
                       ELSE <<end>> \o [k \in 1 .. Len(rest) - 1 |-> 1],
                       IF rest = << >> THEN end ELSE 1)
    IN  IF ~ IsContainer(v) \/ tok.key = NO_KEY THEN Failed(v)
        ELSE IF rest # << >> /\ i # 0
        THEN LET inner == Added(Member(v, i), rest, x, create, insert)
             IN  IF ~ inner.ok THEN Failed(v)
                 ELSE [inner EXCEPT !.doc = WithMember(v, i, @), !.place = Under(i, @)]
        ELSE IF rest # << >> /\ ~(create /\ Wellformed(rest)) THEN Failed(v)
        ELSE IF v.t = "obj"
        THEN IF i = 0 \/ insert THEN done(Inserted(v, end, tok.key, new), depth, NoValue)
             ELSE done(Put(v, i, x), IF Repeated(v, i) THEN Lost ELSE Place(<< >>, i), Member(v, i))
        ELSE IF insert
        THEN IF i # 0 THEN done(Inserted(v, i, tok.key, x), Place(<< >>, i), NoValue)
             ELSE IF AtEnd(v, tok) THEN done(Inserted(v, end, tok.key, new), depth, NoValue)
             ELSE Failed(v)
        ELSE IF i # 0 THEN done(WithMember(v, i, x), Place(<< >>, i), Member(v, i))
        ELSE Failed(v)

\* With the target replaced or removed: in an object the others with its key go with it.
Replaced(v, at, x) == IF v.t = "obj" THEN Put(v, at, x) ELSE WithMember(v, at, x)
Cut(v, at) == IF v.t = "obj" THEN [v EXCEPT !.m = Others(@, v.m[at].k)] ELSE Removed(v, at)

-----------------------------------------------------------------------------
\* The calls that follow a pointer or use the context
Failure == [ok |-> FALSE, val |-> NoValue]
Success(v) == [ok |-> TRUE, val |-> v]

Init ==
    /\ doc = NoValue /\ place = NoPlace /\ out = Success(NoValue)
    /\ call = [op |-> "new"] /\ status = "none"

Becomes(v, p, result) == doc' = v /\ place' = p /\ out' = result /\ UNCHANGED status
Refused == Becomes(doc, NoPlace, Failure)

PtrGet(c) ==
    LET p == IF doc = NoValue \/ c.path = << >> THEN NoPlace ELSE PlaceOf(doc, c.path)
    IN  Becomes(doc, p, IF doc # NoValue /\ c.path = << >> THEN Success(doc)
                        ELSE IF p.at > 0 THEN Success(Target(doc, p)) ELSE Failure)

Root(c) == IF doc = NoValue /\ c.create /\ c.level = "doc" THEN Obj(<< >>) ELSE doc
AddOrSet(c, insert) ==
    LET r == Added(Root(c), c.path, c.val, c.create, insert)
    IN  IF ~ IsContainer(Root(c)) THEN Refused
        ELSE \/ r.ok /\ Becomes(r.doc, r.place, Success(r.old))
             \/ (r.ok => r.makes) /\ Refused

PtrAdd(c) ==
    IF c.path # << >> THEN AddOrSet(c, TRUE)
    ELSE IF doc = NoValue /\ c.level = "doc" THEN Becomes(c.val, NoPlace, Success(NoValue))
    ELSE Refused

PtrReplace(c) ==
    LET p == PlaceOf(doc, c.path)
        replaced(v, at) == Replaced(v, at, c.val)
    IN  IF doc = NoValue \/ (c.path = << >> /\ c.level = "val") THEN Refused
        ELSE IF c.path = << >> THEN Becomes(c.val, NoPlace, Success(doc))
        ELSE IF p.at > 0
        THEN Becomes(ChangedAt(doc, p, replaced),
                     IF Repeated(ValueIn(doc, p.path), p.at) THEN Lost ELSE p,
                     Success(Target(doc, p)))
        ELSE Becomes(doc, p, Failure)

PtrRemove(c) ==
    LET p == PlaceOf(doc, c.path)
    IN  IF doc = NoValue \/ (c.path = << >> /\ c.level = "val") THEN Refused
        ELSE IF c.path = << >> THEN Becomes(NoValue, NoPlace, Success(doc))
        ELSE IF p.at > 0
        THEN Becomes(ChangedAt(doc, p, Cut), [p EXCEPT !.at = 0], Success(Target(doc, p)))
        ELSE Becomes(doc, p, Failure)

\* without a value it removes
PtrSet(c) ==
    IF c.path = << >> /\ c.level = "doc" THEN Becomes(c.val, NoPlace, Success(doc))
    ELSE IF c.path = << >> THEN Refused
    ELSE IF c.val = NoValue THEN PtrRemove(c)
    ELSE AddOrSet(c, FALSE)

\* behind the target, or at the end when there is none
CtxAppend(c) ==
    LET v == ValueIn(doc, place.path)
        at == IF place.at = 0 THEN Len(v.m) + 1 ELSE place.at + 1
        appended(w, i) == Inserted(w, at, c.key, c.val)
    IN  /\ place # NoPlace
        /\ Becomes(ChangedAt(doc, place, appended), [place EXCEPT !.at = at], Success(NoValue))
CtxReplace(c) ==
    LET replaced(v, at) == WithMember(v, at, c.val)
    IN  /\ place # NoPlace
        /\ IF place.at = 0 THEN Becomes(doc, place, Failure)
           ELSE Becomes(ChangedAt(doc, place, replaced), place, Success(Target(doc, place)))
CtxRemove(c) ==
    /\ place # NoPlace
    /\ IF place.at = 0 THEN Becomes(doc, place, Failure)
       ELSE Becomes(ChangedAt(doc, place, Removed), [place EXCEPT !.at = 0],
                    Success(Target(doc, place)))

Do(c) ==
    CASE c.op = "get" -> PtrGet(c)
      [] c.op = "add" -> PtrAdd(c)
      [] c.op = "set" -> PtrSet(c)
      [] c.op = "replace" -> PtrReplace(c)
      [] c.op = "remove" -> PtrRemove(c)
      [] c.op = "ctx_append" -> CtxAppend(c)
      [] c.op = "ctx_replace" -> CtxReplace(c)
      [] c.op = "ctx_remove" -> CtxRemove(c)
      [] OTHER -> FALSE

\* Any call may come next.
Next == Do(call')

Spec == Init /\ [][Next]_vars

-----------------------------------------------------------------------------
\* The operations of a patch
Continue(v) == doc' = v /\ status' = "patching"
Refuse == doc' = NoValue /\ status' = "refused"
NoMemory == doc' = NoValue /\ status' = "memory"

Found(v, path) == path = << >> \/ PlaceOf(v, path).at > 0
Got(v, path) == IF path = << >> THEN v ELSE Target(v, PlaceOf(v, path))

-----------------------------------------------------------------------------
\* An array makes room for the value.  "If the target location specifies an object member
\* that does exist, that member's value is replaced" (RFC 6902 4.1); not strict, the object
\* gets another member with the key.
AddTo(v, path, x, strict) ==
    LET p == PlaceOf(v, path)
        inserts == ~ strict \/ ValueIn(v, p.path).t = "arr"
    IN  IF path = << >> THEN Continue(x)
        ELSE IF p = NoPlace THEN Refuse
        ELSE Continue(Added(v, path, x, FALSE, inserts).doc)

Without(v, path) == LET p == PlaceOf(v, path) IN ChangedAt(v, p, Cut)

AddAtPath(o, strict) == AddTo(doc, o.path, o.val, strict)
RemoveAtPath(o) ==
    IF o.path # << >> /\ Found(doc, o.path) THEN Continue(Without(doc, o.path)) ELSE Refuse
ReplaceAtPath(o) ==
    LET p == PlaceOf(doc, o.path)
        replaced(c, at) == Replaced(c, at, o.val)
    IN  IF o.path = << >> THEN Continue(o.val)
        ELSE IF Found(doc, o.path) THEN Continue(ChangedAt(doc, p, replaced))
        ELSE Refuse
\* "The from location MUST NOT be a proper prefix of the path location" (RFC 6902 4.4); not
\* strict, the path is followed in what is left without the value.
Move(o, strict) ==
    IF o.from = << >> /\ o.path = << >> THEN Continue(doc)
    ELSE IF o.from = << >> \/ ~ Found(doc, o.from) THEN Refuse
    ELSE IF strict /\ IsStrictPrefix(o.from, o.path) THEN Refuse
    ELSE AddTo(Without(doc, o.from), o.path, Got(doc, o.from), strict)
CopyValue(o, strict) ==
    IF Found(doc, o.from) THEN AddTo(doc, o.path, Got(doc, o.from), strict) ELSE Refuse

\* The order of an object's members does not count.  Which of those with one key are
\* compared is not told.
RECURSIVE Same(_, _)
Same(a, b) ==
    /\ a.t = b.t
    /\ IF ~ IsContainer(a) THEN a.v = b.v
       ELSE /\ Len(a.m) = Len(b.m)
            /\ IF a.t = "arr" THEN \A k \in DOMAIN a.m : Same(a.m[k], b.m[k])
               ELSE \A k \in DOMAIN a.m : \E l \in DOMAIN b.m :
                       a.m[k].k = b.m[l].k /\ Same(a.m[k].v, b.m[l].v)
RECURSIVE KeysDistinct(_)
KeysDistinct(v) ==
    IsContainer(v) =>
        /\ v.t = "obj" => \A k \in DOMAIN v.m : ~ Repeated(v, k)
        /\ \A k \in DOMAIN v.m : KeysDistinct(Member(v, k))
TestAtPath(o) ==
    LET x == Got(doc, o.path)
    IN  IF ~ Found(doc, o.path) THEN Refuse
        ELSE \/ (KeysDistinct(x) => Same(x, o.val)) /\ Continue(doc)
             \/ (KeysDistinct(x) => ~ Same(x, o.val)) /\ Refuse

Apply(o, strict) ==
    CASE o.op = "add" -> AddAtPath(o, strict)
      [] o.op = "remove" -> RemoveAtPath(o)
      [] o.op = "replace" -> ReplaceAtPath(o)
      [] o.op = "move" -> Move(o, strict)
      [] o.op = "copy" -> CopyValue(o, strict)
      [] o.op = "test" -> TestAtPath(o)
      [] OTHER -> Refuse

\* A value or a key is made for these.
Makes(o) == o.op \in {"add", "replace", "test", "copy", "move"}

PatchInit == doc # NoValue /\ status = "patching" /\ call = [op |-> "none"]
PatchNext(strict) ==
    /\ status = "patching"
    /\ \/ Apply(call', strict)
       \/ Makes(call') /\ NoMemory
       \/ UNCHANGED <<doc, call>> /\ status' = "done"

\* RFC 6902
PatchSpec == PatchInit /\ [][PatchNext(TRUE)]_vars

\* RFC 6902 but for a value added to an object under a key that it has, and for a value
\* moved into itself.
LenientPatchSpec == PatchInit /\ [][PatchNext(FALSE)]_vars
=============================================================================
