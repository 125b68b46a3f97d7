-------------------------------- MODULE Dump --------------------------------
(***************************************************************************)
(* The JSON dump (run_simulation and processor_get_json, src/processor.c,  *)
(* and the *_get_json and *_to_json functions of the structures), one call *)
(* of yyjson per step.  Every call may fail for lack of memory: where the  *)
(* code tests the result the simulation ends, where it does not the dump   *)
(* silently lacks a member.                                                *)
(*                                                                         *)
(* What the processor does between two dumps is left open: every cycle     *)
(* shows one of Snapshots, queues as they lie in their arrays.             *)
(***************************************************************************)
EXTENDS Naturals, Sequences, FiniteSets, SequencesExt

CONSTANTS
    Snapshots,     \* what one cycle may show: a queue for each of QueueNames
    MAX_CYCLES,    \* bound: cycles that a simulation may take
    MAX_FAILURES   \* bound: calls that may fail in a simulation

QueueNames == {"FreeList", "ActiveList", "DecodedPCs", "IntegerQueue"}

BoundsAssumption == MAX_CYCLES \in Nat \ {0} /\ MAX_FAILURES \in Nat
SnapshotsAssumption ==
    \A s \in Snapshots : \A q \in QueueNames :
        /\ s[q].data \in Seq(Range(s[q].data))
        /\ s[q].head \in 0 .. Len(s[q].data) - 1
        /\ s[q].count \in 0 .. Len(s[q].data)

\* The members of a cycle, in the order in which processor_get_json adds them.
Fields == << "PC", "ExceptionPC", "Exception", "PhysicalRegisterFile", "RegisterMapTable",
             "FreeList", "BusyBitTable", "ActiveList", "DecodedPCs", "IntegerQueue" >>

\* The members of an element that is an object.
ActiveListKeys == << "Done", "Exception", "LogicalDestination", "OldDestination", "PC" >>
IqKeys == << "DestRegister", "OpAIsReady", "OpARegTag", "OpAValue", "OpBIsReady",
             "OpBRegTag", "OpBValue", "OpCode", "PC" >>
KeysOf(field) == CASE field = "ActiveList" -> ActiveListKeys
                   [] field = "IntegerQueue" -> IqKeys
                   [] OTHER -> << >>

VARIABLES
    snapshots,   \* what the cycles so far showed
    root,        \* the array of the document
    state_obj,   \* the object of the current cycle: a sequence of [key, value]
    queue_array, \* the array of the current queue: a sequence of [of, keys], the latter a set
    entry,       \* the members of the current element
    phase,       \* where the dump is
    field,       \* the member of processor_get_json that is made, from 1
    index,       \* the element of the queue that is made, from 0
    failed,      \* calls that failed
    finished     \* processor->state.finished

doc == <<root, state_obj, queue_array, entry>>
vars == <<snapshots, doc, phase, field, index, failed, finished>>

Snapshot == Last(snapshots)
Key == Fields[field]
Queue == Snapshot[Key]
CanFail == failed < MAX_FAILURES

-----------------------------------------------------------------------------
Init ==
    /\ snapshots \in {<<s>> : s \in Snapshots}
    /\ root = << >> /\ state_obj = << >> /\ queue_array = << >> /\ entry = << >>
    /\ phase = "cycle" /\ field = 1 /\ index = 0
    /\ failed = 0 /\ finished = FALSE

\* An error code reaches run_simulation, which returns: the current object is lost.
Stop == /\ CanFail /\ failed' = failed + 1
        /\ phase' = "returned"
        /\ UNCHANGED <<snapshots, doc, field, index, finished>>

NewStateObj ==
    /\ phase = "cycle"
    /\ \/ Stop
       \/ /\ state_obj' = << >> /\ field' = 1 /\ phase' = "field"
          /\ UNCHANGED <<snapshots, root, queue_array, entry, index, failed, finished>>

AddMember(value) == state_obj' = Append(state_obj, [key |-> Key, value |-> value])

\* The next member, or the end of processor_get_json.
NextField == IF field < Len(Fields) THEN phase' = "field" /\ field' = field + 1
             ELSE phase' = "append" /\ UNCHANGED field

\* PC, exception and the register tables: one call or two, both tested.
AddPlainField ==
    /\ phase = "field" /\ Key \notin QueueNames
    /\ \/ Stop
       \/ /\ AddMember(<< >>) /\ NextField
          /\ UNCHANGED <<snapshots, root, queue_array, entry, index, failed, finished>>

\* queue_get_json, iq_get_json: the array of the elements.
NewQueueArray ==
    /\ phase = "field" /\ Key \in QueueNames
    /\ \/ Stop
       \/ /\ queue_array' = << >> /\ index' = 0 /\ phase' = "element"
          /\ UNCHANGED <<snapshots, root, state_obj, entry, field, failed, finished>>

\* (head + i) % capacity; the array of the model starts at 1.
LogicalIndex_NoHead(i) == i
LogicalIndex(i) == (Queue.head + i) % Len(Queue.data)
Element(i) == Queue.data[LogicalIndex(i) + 1]

\* An element: a number, or an object whose members follow.
NewElement ==
    /\ phase = "element" /\ index < Queue.count
    /\ \/ Stop
       \/ /\ entry' = << >> /\ phase' = "members"
          /\ UNCHANGED <<snapshots, root, state_obj, queue_array, field, index, failed, finished>>

\* The members of an element, one call each.  No call is tested; nor is the malloc for
\* the name of an operation other than addi, which strncpy then writes to.
MembersMade == Len(entry)
NextKey == KeysOf(Key)[MembersMade + 1]
Unmade_Rest == [k \in 1 .. Len(KeysOf(Key)) - MembersMade |->
                   [key |-> KeysOf(Key)[MembersMade + k], made |-> FALSE]]
Unmade == <<[key |-> NextKey, made |-> FALSE]>>
AddEntryMember ==
    /\ phase = "members" /\ MembersMade < Len(KeysOf(Key))
    /\ \/ /\ entry' = Append(entry, [key |-> NextKey, made |-> TRUE])
          /\ UNCHANGED <<phase, failed>>
       \/ /\ CanFail /\ failed' = failed + 1
          /\ \/ entry' = entry \o Unmade /\ UNCHANGED phase
             \/ NextKey = "OpCode" /\ phase' = "crashed" /\ UNCHANGED entry
    /\ UNCHANGED <<snapshots, root, state_obj, queue_array, field, index, finished>>

\* The element joins the array; what was not made is not in it.
AppendElement ==
    /\ phase = "members" /\ MembersMade = Len(KeysOf(Key))
    /\ queue_array' = Append(queue_array,
           [of |-> Element(index), keys |-> {m.key : m \in {e \in Range(entry) : e.made}}])
    /\ index' = index + 1 /\ phase' = "element"
    /\ UNCHANGED <<snapshots, root, state_obj, entry, field, failed, finished>>

\* The end of queue_get_json and of iq_get_json; the latter does not test the call.
Untested_All == QueueNames
Untested == {"IntegerQueue"}
AddQueue ==
    /\ phase = "element" /\ index = Queue.count
    /\ \/ Key \notin Untested /\ Stop
       \/ /\ \/ AddMember(queue_array) /\ UNCHANGED failed
             \/ /\ Key \in Untested /\ CanFail
                /\ failed' = failed + 1 /\ UNCHANGED state_obj
          /\ NextField
          /\ UNCHANGED <<snapshots, root, queue_array, entry, index, finished>>

\* The end of an iteration of run_simulation: append, simulate a cycle, test for the end.
Appended_NotAtEnd == IF finished' THEN root ELSE Append(root, state_obj)
Appended == Append(root, state_obj)
AppendAndCycle ==
    /\ phase = "append"
    /\ \/ finished' = TRUE /\ phase' = "returned" /\ UNCHANGED snapshots
       \/ /\ Len(snapshots) < MAX_CYCLES
          /\ \E s \in Snapshots : snapshots' = Append(snapshots, s)
          /\ phase' = "cycle" /\ UNCHANGED finished
    /\ root' = Appended
    /\ UNCHANGED <<state_obj, queue_array, entry, field, index, failed>>

Returned == phase \in {"returned", "crashed"} /\ UNCHANGED vars

Next == \/ NewStateObj \/ AddPlainField \/ NewQueueArray \/ NewElement \/ AddEntryMember
        \/ AppendElement \/ AddQueue \/ AppendAndCycle \/ Returned

Spec == Init /\ [][Next]_vars

-----------------------------------------------------------------------------
\* What a cycle must show: the elements of a queue, oldest first.
Contents(q) == [i \in 1 .. q.count |-> q.data[((q.head + i - 1) % Len(q.data)) + 1]]
Shown(array) == [i \in DOMAIN array |-> array[i].of]

\* The document is a log: its n-th object shows the n-th cycle, every queue in full and
\* oldest first, and no cycle is missing before the last one dumped.
ShowsTheCycles ==
    /\ Len(root) <= Len(snapshots)
    /\ \A n \in DOMAIN root : \A m \in Range(root[n]) :
           m.key \in QueueNames => Shown(m.value) = Contents(snapshots[n][m.key])

\* The simulation ends early only when a call failed, and the document then lacks at
\* most the cycle that was being dumped.
EndsEarlyOnlyOnFailure ==
    phase = "returned" =>
        /\ finished \/ failed > 0
        /\ Len(root) = IF finished THEN Len(snapshots) ELSE Len(snapshots) - 1

\* compare.py demands every member of every cycle and element.  The only member of a
\* cycle that can be missing is the integer queue, the last one.
CyclesAreComparable ==
    \A n \in DOMAIN root :
        /\ \A k \in DOMAIN root[n] : root[n][k].key = Fields[k]
        /\ Len(root[n]) >= Len(Fields) - 1

\* Each failed call costs one member at most: a dump made without a failure is complete,
\* and a failure inside an element leaves the members after it in place.
MissingIn(cycle) == {k \in DOMAIN Fields : \A m \in Range(cycle) : m.key # Fields[k]}
Missing(n, cycle) == {<<n, k>> : k \in MissingIn(cycle)}
KeysLost(n, m) ==
    UNION {{<<n, m.key, i, k>> : k \in Range(KeysOf(m.key)) \ m.value[i].keys} :
               i \in DOMAIN m.value}
Losses ==
    UNION {Missing(n, root[n]) \cup UNION {KeysLost(n, m) : m \in Range(root[n])} :
               n \in DOMAIN root}
LossesAreCounted == Cardinality(Losses) <= failed
=============================================================================
