------------------------------ MODULE JsonRead ------------------------------
(***************************************************************************)
(* Reading an immutable document (include/yyjson.h): the accessors of      *)
(* arrays and objects and the two iterators, which walk the cells by their *)
(* offsets.  Cells are named by their place in the document; a null        *)
(* pointer is NoCell.                                                      *)
(***************************************************************************)
EXTENDS JsonTree

CONSTANTS
    Docs,       \* documents: cells in the order of the text, the first a container
    Keys        \* the keys that callers ask for

NoCell == 0

VARIABLES
    doc,     \* the cells
    iter,    \* [of, idx, max, cur]: the iterator on the container at `of`
    out      \* what the last call returned

vars == <<doc, iter, out>>

-----------------------------------------------------------------------------
\* unsafe_yyjson_arr_is_flat: every member is one cell
IsFlat_Always(f, i) == TRUE
IsFlat(f, i) == f[i].p = f[i].n + 1

\* yyjson_arr_get, _get_first (k = 1) and _get_last (k = n); members count from 1
ArrGet(f, i, k) ==
    IF k \notin 1 .. f[i].n THEN NoCell
    ELSE IF IsFlat(f, i) THEN i + k
    ELSE MemberCell(f, i, k)

\* yyjson_obj_getn: the value of the first member with this key
ObjGet(f, i, key) ==
    LET with == {k \in 1 .. f[i].n : f[MemberCell(f, i, k)].p = key}
    IN  IF with = {} THEN NoCell
        ELSE MemberCell(f, i, CHOOSE k \in with : \A l \in with : k <= l) + 1

\* yyjson_arr_iter_init, yyjson_obj_iter_init
Started(f, i) == [of |-> i, idx |-> 0, max |-> f[i].n, cur |-> i + 1]

\* The cell behind the member at cur
Behind_Key(f, it, cur) == NextCell(f, cur)
Behind(f, it, cur) == IF f[it.of].t = "arr" THEN NextCell(f, cur) ELSE NextCell(f, cur + 1)

\* yyjson_obj_iter_getn: from the iterator's member to the last, then from the first to
\* the iterator's, once.  Returns the iterator and the value found.
RECURSIVE FindFrom(_, _, _, _, _, _)
FindFrom(f, it, key, idx, max, cur) ==
    LET next == Behind(f, it, cur)
        wraps == idx + 1 = it.max /\ it.idx < it.max
    IN  IF idx >= max THEN [it |-> it, val |-> NoCell]
        ELSE IF f[cur].p = key
        THEN [it |-> [it EXCEPT !.idx = idx + 1, !.cur = next], val |-> cur + 1]
        ELSE IF wraps THEN FindFrom(f, it, key, 0, it.idx, it.of + 1)
        ELSE FindFrom(f, it, key, idx + 1, max, next)

Find_FromFirst(f, it, key) == FindFrom(f, it, key, 0, it.max, it.of + 1)
Find_NoRestart(f, it, key) == FindFrom(f, it, key, it.idx, it.max, it.cur)
Find(f, it, key) ==
    IF it.idx = it.max THEN FindFrom(f, it, key, 0, it.max, it.of + 1)
    ELSE FindFrom(f, it, key, it.idx, it.max, it.cur)

-----------------------------------------------------------------------------
Init ==
    /\ doc \in Docs
    /\ iter = Started(doc, 1) /\ out = NoCell

\* yyjson_arr_iter_init and yyjson_obj_iter_init on any container of the document
IterInit(i) ==
    /\ IsContainer(doc[i])
    /\ iter' = Started(doc, i) /\ out' = NoCell
    /\ UNCHANGED doc

\* yyjson_arr_iter_next, yyjson_obj_iter_next
IterNext ==
    /\ IF iter.idx < iter.max
       THEN /\ out' = iter.cur
            /\ iter' = [iter EXCEPT !.idx = @ + 1, !.cur = Behind(doc, iter, @)]
       ELSE out' = NoCell /\ UNCHANGED iter
    /\ UNCHANGED doc

\* yyjson_obj_iter_getn
IterGet(key) ==
    /\ doc[iter.of].t = "obj"
    /\ LET found == Find(doc, iter, key)
       IN  iter' = found.it /\ out' = found.val
    /\ UNCHANGED doc

Next ==
    \/ \E i \in DOMAIN doc : IterInit(i)
    \/ IterNext
    \/ \E key \in Keys : IterGet(key)

Spec == Init /\ [][Next]_vars

-----------------------------------------------------------------------------
\* The accessors return the cell that stands for the member: for every container of the
\* document, also when its cells are too few for its members to hold anything but one
\* cell each, where yyjson_arr_get and yyjson_arr_get_last add an index instead of
\* walking.
GetsMember ==
    \A i \in {c \in DOMAIN doc : IsContainer(doc[c])} :
        LET value == ValueAt(doc, i)
            firsts(key) == SelectInSeq(value.m, LAMBDA m : m.k = key)
        IN  IF value.t = "arr"
            THEN \A k \in DOMAIN value.m : ValueAt(doc, ArrGet(doc, i, k)) = value.m[k]
            ELSE \A key \in Keys :
                    LET cell == ObjGet(doc, i, key)
                    IN  IF firsts(key) = 0 THEN cell = NoCell
                        ELSE ValueAt(doc, cell) = value.m[firsts(key)].v

\* The iterator's cell is the member that its index names, whatever was asked of it: a
\* search that goes round in yyjson_obj_iter_getn sets both.
CurIsIndex ==
    iter.idx < iter.max => iter.cur = MemberCell(doc, iter.of, iter.idx + 1)

\* A search finds the first member with the key behind the ones visited, or failing that
\* the first one before them; when there is none, the iterator stays where it was.
FindsCyclically ==
    [][\A key \in Keys : IterGet(key) =>
          LET n == iter.max
              at(d) == ((iter.idx + d - 1) % n) + 1
              hits == {d \in 1 .. n : doc[MemberCell(doc, iter.of, at(d))].p = key}
          IN  IF hits = {} THEN out' = NoCell /\ UNCHANGED iter
              ELSE LET d == CHOOSE d \in hits : \A e \in hits : d <= e
                   IN  /\ iter'.idx = at(d)
                       /\ out' = MemberCell(doc, iter.of, at(d)) + 1]_vars
=============================================================================
