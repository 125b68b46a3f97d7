---------------------------- MODULE CircularQueue ----------------------------
(***************************************************************************)
(* queue_t (src/data_structures.c): the circular array under the DIR, the  *)
(* free list, the active list and the integer queue.  The callers always   *)
(* pass non-NULL pointers, so ERR_NULL_PTR is left out.                    *)
(***************************************************************************)
EXTENDS Integers, Sequences

CONSTANTS Elem, NoElem, CAPACITY

ASSUME CapacityAssumption == CAPACITY \in Nat \ {0}

VARIABLES
    data,       \* the array; its unused slots keep what they held
    head,
    tail,
    count,
    out         \* what the last call returned

vars == <<data, head, tail, count, out>>

Slots == 0 .. CAPACITY - 1

\* The slot of the element at a logical index (0 is the oldest).
SlotAt(index) == (head + index) % CAPACITY

Succ(slot) == (slot + 1) % CAPACITY
Pred_Stuck(slot) == IF slot = 0 THEN 0 ELSE slot - 1
Pred(slot) == (slot + CAPACITY - 1) % CAPACITY

Ok(x) == [err |-> "ERR_NONE", data |-> x]
Rejected(code) ==
    /\ out' = [err |-> code, data |-> NoElem]
    /\ UNCHANGED <<data, head, tail, count>>

-----------------------------------------------------------------------------
\* init_queue: calloc leaves the array zeroed, with no element in it.
Init ==
    /\ data = [s \in Slots |-> NoElem]
    /\ head = 0 /\ tail = 0 /\ count = 0
    /\ out = Ok(NoElem)

\* queue_push
Push(x) ==
    IF count = CAPACITY THEN Rejected("ERR_QUEUE_FULL")
    ELSE /\ data' = [data EXCEPT ![tail] = x]
         /\ tail' = Succ(tail)
         /\ count' = count + 1
         /\ out' = Ok(NoElem)
         /\ UNCHANGED head

\* queue_pop
Pop ==
    IF count = 0 THEN Rejected("ERR_QUEUE_EMPTY")
    ELSE /\ out' = Ok(data[head])
         /\ head' = Succ(head)
         /\ count' = count - 1
         /\ UNCHANGED <<data, tail>>

\* queue_peek_logical
PeekLogical(index) ==
    IF index >= count THEN Rejected("ERR_QUEUE_INVALID_INDEX")
    ELSE /\ out' = Ok(data[SlotAt(index)])
         /\ UNCHANGED <<data, head, tail, count>>

\* The array after the loop of queue_pop_logical: each slot from that of `index`
\* to the last but one takes the element of the slot after it.
ShiftedFrom_All(index) ==
    [s \in Slots |-> IF s >= SlotAt(index) THEN data[Succ(s)] ELSE data[s]]
ShiftedFrom(index) ==
    [s \in Slots |-> IF \E i \in index .. count - 2 : s = SlotAt(i)
                     THEN data[Succ(s)] ELSE data[s]]

\* queue_pop_logical
PopLogical(index) ==
    IF index >= count THEN Rejected("ERR_QUEUE_INVALID_INDEX")
    ELSE /\ out' = Ok(data[SlotAt(index)])
         /\ data' = ShiftedFrom(index)
         /\ tail' = Pred(tail)
         /\ count' = count - 1
         /\ UNCHANGED head

\* queue_update_logical
UpdateLogical(index, x) ==
    IF index >= count THEN Rejected("ERR_QUEUE_INVALID_INDEX")
    ELSE /\ data' = [data EXCEPT ![SlotAt(index)] = x]
         /\ out' = Ok(NoElem)
         /\ UNCHANGED <<head, tail, count>>

\* queue_flush
Flush ==
    /\ head' = 0 /\ tail' = 0 /\ count' = 0
    /\ out' = Ok(NoElem)
    /\ UNCHANGED data

Next ==
    \/ \E x \in Elem : Push(x)
    \/ Pop
    \/ \E index \in 0 .. CAPACITY : PeekLogical(index)
    \/ \E index \in 0 .. CAPACITY : PopLogical(index)
    \/ \E index \in 0 .. CAPACITY, x \in Elem : UpdateLogical(index, x)
    \/ Flush

Spec == Init /\ [][Next]_vars

-----------------------------------------------------------------------------
\* The indices stay in the array and agree with each other: tail is where the
\* elements that start at head end, also after a removal from the middle.
QueueInv ==
    /\ data \in [Slots -> Elem \cup {NoElem}]
    /\ head \in Slots /\ tail \in Slots
    /\ count \in 0 .. CAPACITY
    /\ tail = SlotAt(count)

Contents == [i \in 1 .. count |-> data[SlotAt(i - 1)]]

AsFifo == INSTANCE Fifo WITH queue <- Contents

\* The circular array behaves as the sequence of its elements, for every call,
\* its result included.
ImplementsFifo == AsFifo!Spec
=============================================================================
