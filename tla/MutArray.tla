------------------------------ MODULE MutArray ------------------------------
(***************************************************************************)
(* A mutable JSON array (include/yyjson.h): a ring of nodes linked by next,*)
(* of which the array keeps the last and the length, and its iterator.  A  *)
(* caller only inserts a node that is in no array, uses an iterator only   *)
(* while nothing else changes the array, and removes through it only what  *)
(* it has just visited.  The length is a Nat: ranges whose end wraps a     *)
(* size_t are left out.                                                    *)
(***************************************************************************)
EXTENDS Integers, Sequences, Functions

CONSTANT NODES      \* the nodes are 1 .. NODES

NodesAssumption == NODES \in Nat \ {0}

Nodes == 1 .. NODES
NoNode == 0

VARIABLES
    len,
    ptr,    \* uni.ptr: the last node; stale when the array is empty
    next,   \* the next field of every node; stale outside the ring
    iter,   \* [on, idx, max, cur, pre], fresh as in JsonList
    call,   \* the last call and its arguments
    out     \* [ok, val]: what it returned

vars == <<len, ptr, next, iter, call, out>>

\* The node k links behind `last`, and behind the last one of the array
NodeAt(last, link, k) ==
    LET node[i \in 0 .. k] == IF i = 0 THEN last ELSE link[node[i - 1]]
    IN  node[k]
Walk(k) == NodeAt(ptr, next, k)

Listed == [i \in 1 .. len |-> Walk(i)]
Unused == Nodes \ Range(Listed)

NoIter == [on |-> FALSE, idx |-> 0, max |-> 0, cur |-> NoNode, pre |-> NoNode, fresh |-> FALSE]

Init ==
    /\ len = 0 /\ ptr = NoNode
    /\ next = [n \in Nodes |-> NoNode]
    /\ iter = NoIter
    /\ call = <<"new">>
    /\ out = [ok |-> TRUE, val |-> NoNode]

Done(x) == out' = [ok |-> TRUE, val |-> x]
Refused ==
    out' = [ok |-> FALSE, val |-> NoNode] /\ UNCHANGED <<len, ptr, next, iter>>
Modified == iter' = NoIter

\* prev->next = val; val->next = what followed prev
LinkAfter(prev, val) == next' = [next EXCEPT ![prev] = val, ![val] = next[prev]]
LinkAlone(val) == next' = [next EXCEPT ![val] = val]

-----------------------------------------------------------------------------
\* yyjson_mut_arr_insert
Insert(val, idx) ==
    IF idx > len THEN Refused
    ELSE /\ len' = len + 1
         /\ IF len = 0 THEN LinkAlone(val) /\ ptr' = val
            ELSE LinkAfter(Walk(idx), val) /\ ptr' = (IF idx = len THEN val ELSE ptr)
         /\ Done(NoNode) /\ Modified

\* yyjson_mut_arr_append
Append_(val) ==
    /\ len' = len + 1
    /\ IF len = 0 THEN LinkAlone(val) ELSE LinkAfter(ptr, val)
    /\ ptr' = val
    /\ Done(NoNode) /\ Modified

\* yyjson_mut_arr_prepend
Prepend(val) ==
    /\ len' = len + 1
    /\ IF len = 0 THEN LinkAlone(val) /\ ptr' = val ELSE LinkAfter(ptr, val) /\ UNCHANGED ptr
    /\ Done(NoNode) /\ Modified

\* yyjson_mut_arr_add_null and the others that make the value they append; without
\* memory for it they append NULL, which is refused.
AddNew(val) == Append_(val) \/ Refused

\* yyjson_mut_arr_replace
Replace_KeepsLast(idx, val) ==
    IF idx >= len THEN Refused
    ELSE LET prev == Walk(idx) IN LET old == next[prev] IN
         /\ IF len > 1 THEN /\ next' = [next EXCEPT ![prev] = val, ![val] = next[old]]
                            /\ UNCHANGED ptr
            ELSE LinkAlone(val) /\ ptr' = val
         /\ Done(IF len > 1 THEN old ELSE ptr) /\ Modified /\ UNCHANGED len
Replace(idx, val) ==
    IF idx >= len THEN Refused
    ELSE LET prev == Walk(idx) IN LET old == next[prev] IN
         /\ IF len > 1 THEN /\ next' = [next EXCEPT ![prev] = val, ![val] = next[old]]
                            /\ ptr' = (IF old = ptr THEN val ELSE ptr)
            ELSE LinkAlone(val) /\ ptr' = val
         /\ Done(IF len > 1 THEN old ELSE ptr) /\ Modified /\ UNCHANGED len

\* yyjson_mut_arr_remove
Remove(idx) ==
    IF idx >= len THEN Refused
    ELSE LET prev == Walk(idx) IN LET old == next[prev] IN
         /\ len' = len - 1
         /\ IF len > 1 THEN /\ next' = [next EXCEPT ![prev] = next[old]]
                            /\ ptr' = (IF old = ptr THEN prev ELSE ptr)
            ELSE UNCHANGED <<next, ptr>>
         /\ Done(IF len > 1 THEN old ELSE ptr) /\ Modified

\* yyjson_mut_arr_remove_first
RemoveFirst ==
    IF len = 0 THEN Refused
    ELSE /\ len' = len - 1
         /\ IF len > 1 THEN next' = [next EXCEPT ![ptr] = next[next[ptr]]] ELSE UNCHANGED next
         /\ Done(IF len > 1 THEN next[ptr] ELSE ptr)
         /\ Modified /\ UNCHANGED ptr

\* yyjson_mut_arr_remove_last
RemoveLast ==
    IF len = 0 THEN Refused
    ELSE /\ len' = len - 1
         /\ IF len > 1 THEN /\ next' = [next EXCEPT ![Walk(len - 1)] = next[ptr]]
                            /\ ptr' = Walk(len - 1)
            ELSE UNCHANGED <<next, ptr>>
         /\ Done(ptr) /\ Modified

\* yyjson_mut_arr_remove_range
RemoveRange(idx, n) ==
    IF idx + n > len THEN Refused
    ELSE /\ len' = len - n
         /\ IF n = 0 \/ len = n THEN UNCHANGED <<next, ptr>>
            ELSE /\ next' = [next EXCEPT ![Walk(idx)] = Walk(idx + n + 1)]
                 /\ ptr' = (IF idx + n = len THEN Walk(idx) ELSE ptr)
         /\ Done(NoNode) /\ Modified

\* yyjson_mut_arr_clear
Clear == len' = 0 /\ Done(NoNode) /\ Modified /\ UNCHANGED <<ptr, next>>

\* yyjson_mut_arr_rotate
Rotate(idx) ==
    IF idx >= len THEN Refused
    ELSE ptr' = Walk(idx) /\ Done(NoNode) /\ Modified /\ UNCHANGED <<len, next>>

\* yyjson_mut_arr and yyjson_mut_arr_with_bool and the others: a new array of n values in one block
\* of nodes, or NULL without memory.
ArrWith(n) ==
    /\ len' = n
    /\ next' = [k \in Nodes |-> IF k < n THEN k + 1 ELSE IF k = n THEN 1 ELSE next[k]]
    /\ ptr' = (IF n = 0 THEN NoNode ELSE n)
    /\ Done(NoNode) /\ Modified

\* yyjson_mut_arr_get, _get_first and _get_last
Found(val) == Done(val) /\ UNCHANGED <<len, ptr, next, iter>>
Get(idx) == IF idx >= len THEN Refused ELSE Found(next[Walk(idx)])
GetFirst == IF len = 0 THEN Refused ELSE Found(next[ptr])
GetLast == IF len = 0 THEN Refused ELSE Found(ptr)

-----------------------------------------------------------------------------
\* yyjson_mut_arr_iter_init
IterInit ==
    /\ iter' = [on |-> TRUE, idx |-> 0, max |-> len,
                cur |-> IF len > 0 THEN ptr ELSE NoNode, pre |-> NoNode, fresh |-> FALSE]
    /\ Done(NoNode) /\ UNCHANGED <<len, ptr, next>>

\* yyjson_mut_arr_iter_next
IterNext ==
    /\ iter.on
    /\ IF iter.idx < iter.max
       THEN /\ iter' = [iter EXCEPT !.idx = @ + 1, !.cur = next[@], !.pre = iter.cur,
                                    !.fresh = TRUE]
            /\ Done(next[iter.cur]) /\ UNCHANGED <<len, ptr, next>>
       ELSE Refused

\* yyjson_mut_arr_iter_remove
IterRemove_KeepsLast ==
    /\ iter.on /\ iter.fresh
    /\ UNCHANGED ptr
    /\ len' = iter.max - 1
    /\ next' = [next EXCEPT ![iter.pre] = next[iter.cur]]
    /\ iter' = [iter EXCEPT !.idx = @ - 1, !.max = @ - 1, !.cur = iter.pre, !.fresh = FALSE]
    /\ Done(iter.cur)
IterRemove ==
    /\ iter.on /\ iter.fresh
    /\ ptr' = (IF iter.idx = iter.max THEN iter.pre ELSE ptr)
    /\ len' = iter.max - 1
    /\ next' = [next EXCEPT ![iter.pre] = next[iter.cur]]
    /\ iter' = [iter EXCEPT !.idx = @ - 1, !.max = @ - 1, !.cur = iter.pre, !.fresh = FALSE]
    /\ Done(iter.cur)

Called(c) == call' = c

Next ==
    \/ \E val \in Unused :
          \/ Called(<<"append", val>>) /\ Append_(val)
          \/ Called(<<"add", val>>) /\ AddNew(val)
          \/ Called(<<"prepend", val>>) /\ Prepend(val)
          \/ \E idx \in 0 .. len + 1 :
                \/ Called(<<"insert", val, idx>>) /\ Insert(val, idx)
                \/ Called(<<"replace", val, idx>>) /\ Replace(idx, val)
    \/ \E idx \in 0 .. len :
          \/ Called(<<"remove", idx>>) /\ Remove(idx)
          \/ Called(<<"rotate", idx>>) /\ Rotate(idx)
          \/ Called(<<"get", idx>>) /\ Get(idx)
    \/ \E idx, n \in 0 .. len + 1 : Called(<<"remove_range", idx, n>>) /\ RemoveRange(idx, n)
    \/ Called(<<"remove_first">>) /\ RemoveFirst
    \/ Called(<<"remove_last">>) /\ RemoveLast
    \/ Called(<<"clear">>) /\ Clear
    \/ Called(<<"get_first">>) /\ GetFirst
    \/ Called(<<"get_last">>) /\ GetLast
    \/ \E n \in 0 .. NODES : Called(<<"arr_with", n>>) /\ ArrWith(n)
    \/ Called(<<"iter_init">>) /\ IterInit
    \/ Called(<<"iter_next">>) /\ IterNext
    \/ Called(<<"iter_remove">>) /\ IterRemove

Spec == Init /\ [][Next]_vars

-----------------------------------------------------------------------------
\* The ring closes: following next from the last node visits len different nodes and
\* ends at the last one, whatever was inserted, removed and rotated before.
RingInv ==
    /\ len \in 0 .. NODES
    /\ len > 0 => Walk(len) = ptr
    /\ IsInjective(Listed) /\ Range(Listed) \subseteq Nodes

\* The iterator stands in the ring where its index says, with the node before it in
\* pre while the current one may still be removed.
IteratorInv ==
    iter.on =>
        /\ iter.max = len /\ iter.idx \in 0 .. len
        /\ len > 0 => iter.cur = Walk(iter.idx)
        /\ iter.fresh => iter.idx > 0 /\ iter.pre = Walk(iter.idx - 1)

AsList == INSTANCE JsonList WITH
    list <- Listed,
    iter <- [on |-> iter.on, pos |-> iter.idx, fresh |-> iter.fresh]

\* The ring behaves as the sequence of its values, for every call and what it returns.
ImplementsList == AsList!Spec
=============================================================================
