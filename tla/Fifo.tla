-------------------------------- MODULE Fifo --------------------------------
(***************************************************************************)
(* What queue_t promises the pipeline (include/data_structures.h): a       *)
(* sequence of at most CAPACITY elements, oldest first, from which an      *)
(* element can be read, replaced or removed at any position.  `out` is     *)
(* what the last call returned: its error code and the element it copied.  *)
(***************************************************************************)
EXTENDS Naturals, Sequences

CONSTANTS
    Elem,       \* the elements
    NoElem,     \* out.data when the call copied nothing
    CAPACITY

VARIABLES queue, out

vars == <<queue, out>>

Ok(x) == [err |-> "ERR_NONE", data |-> x]
Fail(code) == [err |-> code, data |-> NoElem]

\* A call that fails changes nothing.
Rejected(code) == out' = Fail(code) /\ UNCHANGED queue

-----------------------------------------------------------------------------
Init == queue = << >> /\ out = Ok(NoElem)

Push(x) ==
    IF Len(queue) = CAPACITY THEN Rejected("ERR_QUEUE_FULL")
    ELSE queue' = Append(queue, x) /\ out' = Ok(NoElem)

Pop ==
    IF queue = << >> THEN Rejected("ERR_QUEUE_EMPTY")
    ELSE queue' = Tail(queue) /\ out' = Ok(Head(queue))

PeekLogical(index) ==
    IF index >= Len(queue) THEN Rejected("ERR_QUEUE_INVALID_INDEX")
    ELSE out' = Ok(queue[index + 1]) /\ UNCHANGED queue

PopLogical(index) ==
    IF index >= Len(queue) THEN Rejected("ERR_QUEUE_INVALID_INDEX")
    ELSE /\ queue' = [i \in 1 .. Len(queue) - 1 |->
                         IF i <= index THEN queue[i] ELSE queue[i + 1]]
         /\ out' = Ok(queue[index + 1])

UpdateLogical(index, x) ==
    IF index >= Len(queue) THEN Rejected("ERR_QUEUE_INVALID_INDEX")
    ELSE queue' = [queue EXCEPT ![index + 1] = x] /\ out' = Ok(NoElem)

Flush == queue' = << >> /\ out' = Ok(NoElem)

Next ==
    \/ \E x \in Elem : Push(x)
    \/ Pop
    \/ \E index \in 0 .. CAPACITY : PeekLogical(index)
    \/ \E index \in 0 .. CAPACITY : PopLogical(index)
    \/ \E index \in 0 .. CAPACITY, x \in Elem : UpdateLogical(index, x)
    \/ Flush

Spec == Init /\ [][Next]_vars
=============================================================================
