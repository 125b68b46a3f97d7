------------------------------ MODULE MutObject ------------------------------
(***************************************************************************)
(* A mutable JSON object (include/yyjson.h): a ring of nodes in which a    *)
(* key's next is its value and a value's next is the following key.  The   *)
(* object keeps its last key and its length.  As in MutArray, a caller     *)
(* adds nodes that are in no container, uses an iterator while nothing     *)
(* else changes the object, and removes through it only what it has just   *)
(* reached; after a search that went round it only searches.               *)
(***************************************************************************)
EXTENDS Integers, Sequences, FiniteSets, Functions

CONSTANTS Names, Data, NoData,
          PAIRS     \* the nodes are 2k - 1, a key, and 2k, a value, for k in 1 .. PAIRS

PairsAssumption == PAIRS \in Nat \ {0}

Keys == {2 * k - 1 : k \in 1 .. PAIRS}
Vals == {2 * k : k \in 1 .. PAIRS}
NoNode == 0

VARIABLES
    ring,   \* [len, ptr, next]: the object and the next field of every node
    name,   \* the string of every key
    data,   \* what every value holds
    iter,   \* [on, idx, max, cur, pre], fresh and exact as in JsonMap
    call,   \* the last call and its arguments
    out     \* [ok, val]: what it returned

vars == <<ring, name, data, iter, call, out>>

NextKey(r, key) == r.next[r.next[key]]
KeyAt(r, k) ==
    LET node[i \in 0 .. k] == IF i = 0 THEN r.ptr ELSE NextKey(r, node[i - 1])
    IN  node[k]
ListedKeys == [i \in 1 .. ring.len |-> KeyAt(ring, i)]
ListedVals == [i \in 1 .. ring.len |-> ring.next[KeyAt(ring, i)]]

\* The next nodes of the document's pool
Least(S) == CHOOSE n \in S : \A m \in S : n <= m
FreeKeys == Keys \ Range(ListedKeys)
FreeVals == Vals \ Range(ListedVals)
NewKey == Least(FreeKeys)
NewVal == Least(FreeVals)
RoomForPair == FreeKeys # {} /\ FreeVals # {}

NoIter == [on |-> FALSE, idx |-> 0, max |-> 0, cur |-> NoNode, pre |-> NoNode,
           fresh |-> FALSE, exact |-> TRUE]

Init ==
    /\ ring = [len |-> 0, ptr |-> NoNode, next |-> [n \in Keys \cup Vals |-> NoNode]]
    /\ name \in [Keys -> Names]
    /\ data \in [Vals -> Data]
    /\ iter = NoIter
    /\ call = <<"new">>
    /\ out = [ok |-> TRUE, val |-> NoData]

Done(d) == out' = [ok |-> TRUE, val |-> d]
Refused ==
    out' = [ok |-> FALSE, val |-> NoData] /\ UNCHANGED <<ring, name, data, iter>>
Modified == iter' = NoIter
SameContent == UNCHANGED <<name, data>>

\* The caller makes a key and a value.
Make(nm, d) == name' = [name EXCEPT ![NewKey] = nm] /\ data' = [data EXCEPT ![NewVal] = d]

-----------------------------------------------------------------------------
\* unsafe_yyjson_mut_obj_add
Added(r, key, val) ==
    [len |-> r.len + 1, ptr |-> key,
     next |-> IF r.len > 0
              THEN [r.next EXCEPT ![r.next[r.ptr]] = key, ![val] = NextKey(r, r.ptr), ![key] = val]
              ELSE [r.next EXCEPT ![val] = key, ![key] = val]]

\* unsafe_yyjson_mut_obj_rotate
Rotated(r, idx) == [r EXCEPT !.ptr = KeyAt(r, idx)]

\* yyjson_mut_obj_add, _add_val
Add(nm, d) ==
    /\ RoomForPair /\ Make(nm, d)
    /\ ring' = Added(ring, NewKey, NewVal)
    /\ Done(NoData) /\ Modified

\* yyjson_mut_obj_add_null and the others that make the key and the value; without
\* memory for them nothing is added.
AddNew(nm, d) == Add(nm, d) \/ Refused

\* yyjson_mut_obj_insert
Insert_KeepsRotation(nm, d, idx) ==
    IF idx > ring.len THEN Refused
    ELSE /\ RoomForPair /\ Make(nm, d)
         /\ ring' = (IF idx < ring.len THEN Added(Rotated(ring, idx), NewKey, NewVal)
                     ELSE Added(ring, NewKey, NewVal))
         /\ Done(NoData) /\ Modified
Insert(nm, d, idx) ==
    IF idx > ring.len THEN Refused
    ELSE /\ RoomForPair /\ Make(nm, d)
         /\ ring' = (IF idx < ring.len
                     THEN [Added(Rotated(ring, idx), NewKey, NewVal) EXCEPT !.ptr = ring.ptr]
                     ELSE Added(ring, NewKey, NewVal))
         /\ Done(NoData) /\ Modified

-----------------------------------------------------------------------------
\* yyjson_mut_obj_iter_init, and _iter_next while there is a next key
Started(r) == [NoIter EXCEPT !.on = TRUE, !.max = r.len,
                             !.cur = IF r.len > 0 THEN r.ptr ELSE NoNode]
Advanced(r, it) == [it EXCEPT !.idx = @ + 1, !.pre = it.cur, !.cur = NextKey(r, it.cur),
                              !.fresh = TRUE]

\* What yyjson_mut_obj_iter_remove does to the object and to the iterator
CutRing_KeepsLast(r, it) ==
    [len |-> it.max - 1, ptr |-> r.ptr,
     next |-> [r.next EXCEPT ![r.next[it.pre]] = NextKey(r, it.cur)]]
CutRing(r, it) ==
    [len |-> it.max - 1,
     ptr |-> IF it.idx = it.max THEN it.pre ELSE r.ptr,
     next |-> [r.next EXCEPT ![r.next[it.pre]] = NextKey(r, it.cur)]]
CutIter(it) == [it EXCEPT !.idx = @ - 1, !.max = @ - 1, !.cur = it.pre, !.fresh = FALSE]

\* The key keeps its place and gets another value.
Given(r, key, val) ==
    [len |-> r.len, ptr |-> r.ptr,
     next |-> [r.next EXCEPT ![val] = NextKey(r, key), ![key] = val]]

\* The loop of yyjson_mut_obj_put over the keys: the first match gets the value, when
\* there is one, and the others are cut.
PutStep(nm, val, s) ==
    LET it == Advanced(s.r, s.it)
    IN  CASE name[it.cur] # nm -> [r |-> s.r, it |-> it, replaced |-> s.replaced]
          [] name[it.cur] = nm /\ ~s.replaced /\ val # NoNode ->
               [r |-> Given(s.r, it.cur, val), it |-> it, replaced |-> TRUE]
          [] OTHER -> [r |-> CutRing(s.r, it), it |-> CutIter(it), replaced |-> s.replaced]
PutLoop(nm, val) ==
    LET at[i \in 0 .. ring.len] ==
            IF i = 0 THEN [r |-> ring, it |-> Started(ring), replaced |-> FALSE]
            ELSE PutStep(nm, val, at[i - 1])
    IN  at[ring.len]

\* yyjson_mut_obj_put
Put(nm, d) ==
    /\ RoomForPair
    /\ LET s == PutLoop(nm, NewVal)
       IN  ring' = (IF s.replaced THEN s.r ELSE Added(s.r, NewKey, NewVal))
    /\ Make(nm, d) /\ Done(NoData) /\ Modified
PutNull(nm) ==
    /\ ring' = PutLoop(nm, NoNode).r
    /\ Done(NoData) /\ Modified /\ SameContent

\* The loop of unsafe_yyjson_mut_obj_remove: `i` keys were passed, `len` are left.
RemoveStep(nm, s) ==
    LET after == NextKey(s.r, s.cur)
    IN  IF name[s.cur] = nm
        THEN [r |-> [len |-> s.r.len - 1,
                     ptr |-> IF s.i + 1 = s.r.len THEN s.pre ELSE s.r.ptr,
                     next |-> [s.r.next EXCEPT ![s.r.next[s.pre]] = after]],
              pre |-> s.pre, cur |-> after, i |-> s.i,
              removed |-> IF s.removed = NoNode THEN s.r.next[s.cur] ELSE s.removed]
        ELSE [r |-> s.r, pre |-> s.cur, cur |-> after, i |-> s.i + 1, removed |-> s.removed]
RemoveLoop(nm) ==
    LET at[k \in 0 .. ring.len] ==
            IF k = 0 THEN [r |-> ring, pre |-> ring.ptr, cur |-> NextKey(ring, ring.ptr),
                           i |-> 0, removed |-> NoNode]
            ELSE RemoveStep(nm, at[k - 1])
    IN  at[ring.len]

\* What a function that returns a removed value, or NULL, returns
Returned(val) ==
    out' = [ok |-> val # NoNode, val |-> IF val = NoNode THEN NoData ELSE data[val]]

\* yyjson_mut_obj_remove, _remove_key and _remove_keyn
Remove(nm) ==
    /\ IF ring.len = 0 THEN Returned(NoNode) /\ UNCHANGED ring
       ELSE LET s == RemoveLoop(nm) IN ring' = s.r /\ Returned(s.removed)
    /\ Modified /\ SameContent

\* yyjson_mut_obj_remove_str and _remove_strn go through the iterator.
RemoveStr(nm) ==
    LET Matches == {i \in 1 .. ring.len : name[KeyAt(ring, i)] = nm}
    IN  /\ ring' = PutLoop(nm, NoNode).r
        /\ Returned(IF Matches = {} THEN NoNode ELSE ring.next[KeyAt(ring, Least(Matches))])
        /\ Modified /\ SameContent

\* yyjson_mut_obj_replace copies the value into the first node that has the name.
Replace(nm, d) ==
    LET Matches == {i \in 1 .. ring.len : name[KeyAt(ring, i)] = nm}
    IN  IF Matches = {} THEN Refused
        ELSE /\ data' = [data EXCEPT ![ring.next[KeyAt(ring, Least(Matches))]] = d]
             /\ Done(NoData) /\ Modified /\ UNCHANGED <<ring, name>>

\* yyjson_mut_obj_rename_key and _rename_keyn: every key with the name; the copy of the
\* new name is made at the first one, and nothing is renamed without memory for it.
RenameKey(nm, new) ==
    LET Matches == {k \in Range(ListedKeys) : name[k] = nm}
    IN  \/ Refused
        \/ /\ Matches # {}
           /\ name' = [k \in Keys |-> IF k \in Matches THEN new ELSE name[k]]
           /\ Done(NoData) /\ Modified /\ UNCHANGED <<ring, data>>

\* yyjson_mut_obj_clear
Clear == ring' = [ring EXCEPT !.len = 0] /\ Done(NoData) /\ Modified /\ SameContent

\* yyjson_mut_obj_rotate
Rotate(idx) ==
    IF idx >= ring.len THEN Refused
    ELSE ring' = Rotated(ring, idx) /\ Done(NoData) /\ Modified /\ SameContent

\* yyjson_mut_obj, _obj_with_str and _obj_with_kv: n pairs in one block of nodes
ObjWith(members) ==
    LET n == Len(members)
    IN  /\ ring' = [len |-> n, ptr |-> IF n = 0 THEN NoNode ELSE 2 * n - 1,
                    next |-> [k \in Keys \cup Vals |->
                                 IF k < 2 * n THEN k + 1 ELSE IF k = 2 * n THEN 1 ELSE ring.next[k]]]
        /\ name' = [k \in Keys |-> IF k <= 2 * n THEN members[(k + 1) \div 2].name ELSE name[k]]
        /\ data' = [v \in Vals |-> IF v <= 2 * n THEN members[v \div 2].data ELSE data[v]]
        /\ Done(NoData) /\ Modified

\* yyjson_mut_obj_getn
Get(nm) ==
    LET Matches == {i \in 1 .. ring.len : name[KeyAt(ring, i)] = nm}
    IN  IF Matches = {} THEN Refused
        ELSE /\ Returned(ring.next[KeyAt(ring, Least(Matches))])
             /\ UNCHANGED <<ring, name, data, iter>>

-----------------------------------------------------------------------------
IterInit == iter' = Started(ring) /\ Done(NoData) /\ UNCHANGED <<ring, name, data>>

\* yyjson_mut_obj_iter_next, and _iter_get_val of the key
IterNext ==
    /\ iter.on /\ iter.exact
    /\ IF iter.idx < iter.max
       THEN /\ iter' = Advanced(ring, iter)
            /\ Returned(ring.next[iter'.cur]) /\ UNCHANGED <<ring, name, data>>
       ELSE Refused

IterRemove ==
    /\ iter.on /\ iter.exact /\ iter.fresh
    /\ ring' = CutRing(ring, iter) /\ iter' = CutIter(iter)
    /\ Returned(ring.next[iter.cur]) /\ SameContent

\* yyjson_mut_obj_iter_getn: the key `steps` places behind the current one; the index
\* is reduced when it passes max.
KeyBehind(it, steps) == KeyAt([ring EXCEPT !.ptr = it.cur], steps)
IterGet(nm) ==
    LET Steps == {k \in 1 .. iter.max : name[KeyBehind(iter, k)] = nm}
        steps == Least(Steps)
        idx == iter.idx + steps
    IN  /\ iter.on
        /\ IF Steps = {} THEN Refused
           ELSE /\ iter' = [iter EXCEPT !.idx = IF idx > iter.max THEN idx - (iter.max + 1) ELSE idx,
                                        !.pre = KeyBehind(iter, steps - 1),
                                        !.cur = KeyBehind(iter, steps),
                                        !.fresh = TRUE,
                                        !.exact = @ /\ idx <= iter.max]
                /\ Returned(ring.next[KeyBehind(iter, steps)])
                /\ UNCHANGED <<ring, name, data>>

Called(c) == call' = c

Next ==
    \/ \E nm \in Names :
          \/ Called(<<"remove", nm>>) /\ Remove(nm)
          \/ Called(<<"remove_str", nm>>) /\ RemoveStr(nm)
          \/ Called(<<"put_null", nm>>) /\ PutNull(nm)
          \/ Called(<<"get", nm>>) /\ Get(nm)
          \/ Called(<<"iter_get", nm>>) /\ IterGet(nm)
          \/ \E new \in Names : Called(<<"rename", nm, new>>) /\ RenameKey(nm, new)
          \/ \E d \in Data :
                \/ Called(<<"add", nm, d>>) /\ Add(nm, d)
                \/ Called(<<"add_new", nm, d>>) /\ AddNew(nm, d)
                \/ Called(<<"put", nm, d>>) /\ Put(nm, d)
                \/ Called(<<"replace", nm, d>>) /\ Replace(nm, d)
                \/ \E idx \in 0 .. ring.len + 1 : Called(<<"insert", nm, d, idx>>) /\ Insert(nm, d, idx)
    \/ \E idx \in 0 .. ring.len : Called(<<"rotate", idx>>) /\ Rotate(idx)
    \/ /\ ring.len = 0
       /\ \E n \in 0 .. PAIRS : \E members \in [1 .. n -> [name : Names, data : Data]] :
             Called(<<"obj_with", members>>) /\ ObjWith(members)
    \/ Called(<<"clear">>) /\ Clear
    \/ Called(<<"iter_init">>) /\ IterInit
    \/ Called(<<"iter_next">>) /\ IterNext
    \/ Called(<<"iter_remove">>) /\ IterRemove

Spec == Init /\ [][Next]_vars

-----------------------------------------------------------------------------
\* Keys and values alternate in the ring, no node is in it twice, and it closes at the
\* last key, whatever was put, inserted, cut and rotated before.
RingInv ==
    /\ ring.len \in 0 .. PAIRS
    /\ ring.len > 0 => KeyAt(ring, ring.len) = ring.ptr
    /\ IsInjective(ListedKeys) /\ Range(ListedKeys) \subseteq Keys
    /\ IsInjective(ListedVals) /\ Range(ListedVals) \subseteq Vals

\* Where the iterator stands: at the key its index says, until a search goes round,
\* and with the key before it in pre while the current one may still be removed.
IteratorInv ==
    iter.on =>
        /\ iter.max = ring.len
        /\ iter.exact /\ ring.len > 0 => iter.cur = KeyAt(ring, iter.idx)
        /\ iter.fresh => iter.cur = NextKey(ring, iter.pre)

Contents == [i \in 1 .. ring.len |->
                [name |-> name[ListedKeys[i]], data |-> data[ListedVals[i]]]]
Position ==
    IF iter.exact THEN iter.idx ELSE CHOOSE i \in 1 .. ring.len : ListedKeys[i] = iter.cur

AsMap == INSTANCE JsonMap WITH
    list <- Contents,
    iter <- [on |-> iter.on, pos |-> Position, fresh |-> iter.fresh, exact |-> iter.exact]

\* The ring behaves as the sequence of its members, for every call and what it returns.
ImplementsMap == AsMap!Spec

=============================================================================
