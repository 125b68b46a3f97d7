----------------------------- MODULE JsonEquals -----------------------------
(***************************************************************************)
(* unsafe_yyjson_equals and unsafe_yyjson_mut_equals (src/yyjson.c): two   *)
(* documents compared as cells and, after yyjson_doc_mut_copy, as nodes.   *)
(* A number is a word of WORD values: from WORD \div 2 on it is negative   *)
(* when it is a sint.                                                      *)
(***************************************************************************)
EXTENDS JsonTree

CONSTANTS
    Values,     \* the values that are compared
    WORD        \* 2^64

VARIABLES
    lhs, rhs,   \* the two values
    form,       \* "none" before the comparison, then what was compared
    equal       \* what it returned

vars == <<lhs, rhs, form, equal>>

Read == INSTANCE JsonRead WITH Docs <- {}, Keys <- {}, doc <- << >>, iter <- << >>, out <- 0
Copy == INSTANCE JsonCopy WITH value <- lhs, mem <- << >>, blocks <- 0, counted <- << >>

Negative(v) == v >= WORD \div 2

\* unsafe_yyjson_num_equals
NumEquals_AnySign(l, r) == (l.t = r.t \/ {l.t, r.t} = {"sint", "uint"}) /\ l.p = r.p
NumEquals(l, r) ==
    IF l.t = r.t THEN l.p = r.p
    ELSE /\ {l.t, r.t} = {"sint", "uint"}
         /\ ~ Negative(l.p) /\ l.p = r.p

SameType(l, r) == l.t = r.t \/ {l.t, r.t} \subseteq NumberTypes

\* What is not a container: the numbers, the strings, and null
ScalarEquals(l, r) == IF l.t \in NumberTypes THEN NumEquals(l, r) ELSE l.p = r.p

\* unsafe_yyjson_equals: the members of the left object are looked up one by one with an
\* iterator on the right one.
RECURSIVE CellsEqual(_, _, _, _)
CellsEqual(f, i, g, j) ==
    LET RECURSIVE MembersEqual(_, _)
        MembersEqual(k, it) ==
            IF k > f[i].n THEN TRUE
            ELSE LET key == MemberCell(f, i, k)
                     found == Read!Find(g, it, f[key].p)
                 IN  /\ found.val # Read!NoCell
                     /\ CellsEqual(f, key + 1, g, found.val)
                     /\ MembersEqual(k + 1, found.it)
    IN  /\ SameType(f[i], g[j])
        /\ IF ~ IsContainer(f[i]) THEN ScalarEquals(f[i], g[j])
           ELSE /\ f[i].n = g[j].n
                /\ IF f[i].t = "obj" THEN MembersEqual(1, Read!Started(g, j))
                   ELSE \A k \in 1 .. f[i].n :
                            CellsEqual(f, MemberCell(f, i, k), g, MemberCell(g, j, k))

\* yyjson_mut_obj_iter_getn: the node steps keys behind the one at cur
KeyFrom(g, cur, steps) == Copy!Along(g, cur, 2 * steps)

\* unsafe_yyjson_mut_equals: both walks start where the containers' ptr is, at the last
\* member; the iterator on the right starts there too and looks at the next one first.
RECURSIVE NodesEqual(_, _, _, _)
NodesEqual(f, p, g, q) ==
    LET RECURSIVE MembersEqual(_, _, _)
        MembersEqual(left, key, cur) ==
            LET hits == {d \in 1 .. g[q].n : g[KeyFrom(g, cur, d)].p = f[key].p}
                at == KeyFrom(g, cur, CHOOSE d \in hits : \A e \in hits : d <= e)
            IN  IF left = 0 THEN TRUE
                ELSE /\ hits # {}
                     /\ NodesEqual(f, f[key].next, g, g[at].next)
                     /\ MembersEqual(left - 1, KeyFrom(f, key, 1), at)
    IN  /\ SameType(f[p], g[q])
        /\ IF ~ IsContainer(f[p]) THEN ScalarEquals(f[p], g[q])
           ELSE /\ f[p].n = g[q].n
                /\ IF f[p].t = "obj" THEN MembersEqual(f[p].n, f[p].p, g[q].p)
                   ELSE \A k \in 0 .. f[p].n - 1 :
                            NodesEqual(f, Copy!Along(f, f[p].p, k), g, Copy!Along(g, g[q].p, k))

-----------------------------------------------------------------------------
Init == lhs \in Values /\ rhs \in Values /\ form = "none" /\ equal = FALSE

\* yyjson_equals
Equals ==
    /\ form = "none" /\ form' = "cells"
    /\ equal' = CellsEqual(Flat(lhs), 1, Flat(rhs), 1)
    /\ UNCHANGED <<lhs, rhs>>

\* yyjson_mut_equals
MutEquals ==
    /\ form = "none" /\ form' = "nodes"
    /\ equal' = NodesEqual(Copy!ToNodes(Flat(lhs)), 1, Copy!ToNodes(Flat(rhs)), 1)
    /\ UNCHANGED <<lhs, rhs>>

Compared == form # "none" /\ UNCHANGED vars

Next == Equals \/ MutEquals \/ Compared

Spec == Init /\ [][Next]_vars

-----------------------------------------------------------------------------
\* The number that a word is
Number(x) == [real |-> x.t = "real",
              is |-> IF x.t = "sint" /\ Negative(x.v) THEN x.v - WORD ELSE x.v]

RECURSIVE Same(_, _)
Same(a, b) ==
    IF a.t \in NumberTypes THEN b.t \in NumberTypes /\ Number(a) = Number(b)
    ELSE /\ a.t = b.t
         /\ IF ~ IsContainer(a) THEN a.v = b.v
            ELSE /\ Len(a.m) = Len(b.m)
                 /\ IF a.t = "arr" THEN \A k \in DOMAIN a.m : Same(a.m[k], b.m[k])
                    ELSE \A k \in DOMAIN a.m : \E l \in DOMAIN b.m :
                            a.m[k].k = b.m[l].k /\ Same(a.m[k].v, b.m[l].v)

RECURSIVE KeysDistinct(_)
KeysDistinct(v) ==
    /\ v.t = "obj" => \A k, l \in DOMAIN v.m : v.m[k].k = v.m[l].k => k = l
    /\ IsContainer(v) => \A k \in DOMAIN v.m : KeysDistinct(IF v.t = "obj" THEN v.m[k].v ELSE v.m[k])

\* Where no key is repeated, both comparisons say whether the two documents are the same
\* value: the order of the members of an object does not count, and an integer equals
\* itself whether it is held signed or not.  (unsafe_yyjson_equals says of itself that
\* with repeated keys it may be inaccurate.)
EqualIfSame ==
    form # "none" /\ KeysDistinct(lhs) /\ KeysDistinct(rhs) => equal = Same(lhs, rhs)

\* A document equals itself as cells also when keys are repeated, because the iterator on
\* the right moves along with the walk on the left.
EqualsItself == form = "cells" /\ lhs = rhs => equal
=============================================================================
