------------------------------ MODULE JsonTree ------------------------------
(***************************************************************************)
(* JSON values, and the immutable values that stand for them in a parsed   *)
(* document (include/yyjson.h): an array of cells in preorder, in which a  *)
(* container holds the number of its members and the offset of the cell    *)
(* behind them.  The key of a member is a string of its own.  A string is  *)
(* the natural number of its bytes: two of one length are equal.           *)
(***************************************************************************)
EXTENDS Integers, Sequences, SequencesExt

NumberTypes == {"uint", "sint", "real"}
ContainerTypes == {"arr", "obj"}

\* [t, v] for a scalar, v being the length of a string and the 64 bits of a number;
\* [t, m] for an array, a sequence of values, and for an object, one of [k, v].
Scalar(type, payload) == [t |-> type, v |-> payload]
Arr(values) == [t |-> "arr", m |-> values]
Obj(members) == [t |-> "obj", m |-> members]
Str(length) == Scalar("str", length)

IsContainer(x) == x.t \in ContainerTypes

\* The values below a container, keys included, in document order
Below(v) ==
    IF v.t = "arr" THEN v.m
    ELSE FlattenSeq([i \in DOMAIN v.m |-> <<Str(v.m[i].k), v.m[i].v>>])

RECURSIVE Flat(_)
Flat(v) ==
    IF ~ IsContainer(v) THEN <<[t |-> v.t, n |-> IF v.t = "str" THEN v.v ELSE 0, p |-> v.v]>>
    ELSE LET inside == FlattenSeq([i \in DOMAIN Below(v) |-> Flat(Below(v)[i])])
         IN  <<[t |-> v.t, n |-> Len(v.m), p |-> 1 + Len(inside)]>> \o inside

\* The bytes of the strings of a value, a zero behind each
RECURSIVE StringBytes(_)
StringBytes(v) ==
    IF v.t = "str" THEN v.v + 1
    ELSE IF ~ IsContainer(v) THEN 0
    ELSE FoldLeft(LAMBDA sum, x : sum + StringBytes(x), 0, Below(v))

-----------------------------------------------------------------------------
\* Cells of an immutable document: unsafe_yyjson_get_next and what walks by it
NextCell(f, i) == IF IsContainer(f[i]) THEN i + f[i].p ELSE i + 1

\* The k-th member of the container at i: its value in an array, its key in an object
MemberCell(f, i, k) ==
    LET cell[j \in 1 .. k] ==
            IF j = 1 THEN i + 1
            ELSE IF f[i].t = "arr" THEN NextCell(f, cell[j - 1])
            ELSE NextCell(f, cell[j - 1] + 1)
    IN  cell[k]

\* The value that the cells from i stand for
RECURSIVE ValueAt(_, _)
ValueAt(f, i) ==
    IF ~ IsContainer(f[i]) THEN Scalar(f[i].t, f[i].p)
    ELSE LET member(k) == MemberCell(f, i, k)
         IN  IF f[i].t = "arr" THEN Arr([k \in 1 .. f[i].n |-> ValueAt(f, member(k))])
             ELSE Obj([k \in 1 .. f[i].n |->
                          [k |-> f[member(k)].p, v |-> ValueAt(f, member(k) + 1)]])
=============================================================================
