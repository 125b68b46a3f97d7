------------------------------ MODULE JsonList ------------------------------
(***************************************************************************)
(* What the mutable array API promises (include/yyjson.h, Mutable JSON     *)
(* Array API): a sequence of values, an iterator that is a position in it, *)
(* the last call and what it returned.                                     *)
(***************************************************************************)
EXTENDS Naturals, Sequences, Functions

Seqs == INSTANCE SequencesExt

CONSTANTS Nodes, NoNode

VARIABLES
    list,
    iter,   \* [on, pos, fresh]: fresh says that the element at pos was just visited
    call,   \* the last call and its arguments
    out     \* [ok, val]: what it returned

vars == <<list, iter, call, out>>

NoIter == [on |-> FALSE, pos |-> 0, fresh |-> FALSE]
Done(x) == out' = [ok |-> TRUE, val |-> x]
Refused ==
    out' = [ok |-> FALSE, val |-> NoNode] /\ UNCHANGED <<list, iter>>

\* A change of the array other than through the iterator ends the iteration.
Becomes(s) == list' = s /\ iter' = NoIter
Unused == Nodes \ Range(list)

Init == list = << >> /\ iter = NoIter /\ call = <<"new">> /\ out = [ok |-> TRUE, val |-> NoNode]

Insert(x, idx) ==
    IF idx > Len(list) THEN Refused
    ELSE Becomes(Seqs!InsertAt(list, idx + 1, x)) /\ Done(NoNode)
Append_(x) == Insert(x, Len(list))
Prepend(x) == Insert(x, 0)

Replace(idx, x) ==
    IF idx >= Len(list) THEN Refused
    ELSE Becomes([list EXCEPT ![idx + 1] = x]) /\ Done(list[idx + 1])
Remove(idx) ==
    IF idx >= Len(list) THEN Refused
    ELSE Becomes(Seqs!RemoveAt(list, idx + 1)) /\ Done(list[idx + 1])
RemoveFirst == Remove(0)
RemoveLast == IF list = << >> THEN Refused ELSE Remove(Len(list) - 1)
RemoveRange(idx, n) ==
    IF idx + n > Len(list) THEN Refused
    ELSE Becomes(SubSeq(list, 1, idx) \o SubSeq(list, idx + n + 1, Len(list))) /\ Done(NoNode)
Clear == Becomes(<< >>) /\ Done(NoNode)
Rotate(idx) ==
    IF idx >= Len(list) THEN Refused
    ELSE Becomes(SubSeq(list, idx + 1, Len(list)) \o SubSeq(list, 1, idx)) /\ Done(NoNode)
ArrWith(n) == Becomes([i \in 1 .. n |-> i]) /\ Done(NoNode)

Get(idx) ==
    IF idx >= Len(list) THEN Refused
    ELSE Done(list[idx + 1]) /\ UNCHANGED <<list, iter>>

IterInit ==
    iter' = [on |-> TRUE, pos |-> 0, fresh |-> FALSE] /\ Done(NoNode) /\ UNCHANGED list
IterNext ==
    /\ iter.on
    /\ IF iter.pos = Len(list) THEN Refused
       ELSE /\ iter' = [on |-> TRUE, pos |-> iter.pos + 1, fresh |-> TRUE]
            /\ Done(list[iter.pos + 1])
            /\ UNCHANGED list
IterRemove ==
    /\ iter.on /\ iter.fresh
    /\ list' = Seqs!RemoveAt(list, iter.pos)
    /\ iter' = [on |-> TRUE, pos |-> iter.pos - 1, fresh |-> FALSE]
    /\ Done(list[iter.pos])

Called(c) == call' = c

Next ==
    \/ \E x \in Unused :
          \/ Called(<<"append", x>>) /\ Append_(x)
          \/ Called(<<"add", x>>) /\ (Append_(x) \/ Refused)
          \/ Called(<<"prepend", x>>) /\ Prepend(x)
          \/ \E idx \in 0 .. Len(list) + 1 :
                \/ Called(<<"insert", x, idx>>) /\ Insert(x, idx)
                \/ Called(<<"replace", x, idx>>) /\ Replace(idx, x)
    \/ \E idx \in 0 .. Len(list) :
          \/ Called(<<"remove", idx>>) /\ Remove(idx)
          \/ Called(<<"rotate", idx>>) /\ Rotate(idx)
          \/ Called(<<"get", idx>>) /\ Get(idx)
    \/ \E idx, n \in 0 .. Len(list) + 1 : Called(<<"remove_range", idx, n>>) /\ RemoveRange(idx, n)
    \/ Called(<<"remove_first">>) /\ RemoveFirst
    \/ Called(<<"remove_last">>) /\ RemoveLast
    \/ Called(<<"clear">>) /\ Clear
    \/ Called(<<"get_first">>) /\ Get(0)
    \/ Called(<<"get_last">>) /\ IF list = << >> THEN Refused ELSE Get(Len(list) - 1)
    \/ \E n \in Nodes \cup {0} : Called(<<"arr_with", n>>) /\ ArrWith(n)
    \/ Called(<<"iter_init">>) /\ IterInit
    \/ Called(<<"iter_next">>) /\ IterNext
    \/ Called(<<"iter_remove">>) /\ IterRemove

Spec == Init /\ [][Next]_vars
=============================================================================
