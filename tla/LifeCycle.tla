----------------------------- MODULE LifeCycle ------------------------------
(***************************************************************************)
(* main (src/main.c) seen from the heap: what is allocated, in which order,*)
(* what is released when an allocation fails, and what free_processor does *)
(* with a machine that is complete, half built or missing.                 *)
(*                                                                         *)
(* An object is named after the field that owns it.  live says that its    *)
(* memory is allocated, ptr that the field that owns it is not NULL.       *)
(***************************************************************************)
EXTENDS Naturals, Sequences, SequencesExt

CONSTANT NUM_ALUS

ASSUME NumAlusAssumption == NUM_ALUS \in Nat \ {0}

Single(name) == <<name, 0>>
Alu(i) == <<"alu", i>>
Stages(i) == <<"alu.stages", i>>
AluIds == 1 .. NUM_ALUS

\* The allocations of init_processor in order, those of the functions it calls included.
StateAllocations ==
    << Single("free_list.list"), Single("free_list.list.data"),
       Single("active_list.list"), Single("active_list.list.data"),
       Single("dir"), Single("dir.queue"), Single("dir.queue.data"),
       Single("fetch_decode"),
       Single("iq"), Single("iq.queue"), Single("iq.queue.data"),
       Single("fw_paths") >>
AluAllocations ==
    [k \in 1 .. 2 * NUM_ALUS |-> IF k % 2 = 1 THEN Alu((k + 1) \div 2) ELSE Stages(k \div 2)]
StageAllocations == << Single("issue"), Single("rename_dispatch"), Single("commit") >>
Allocations == StateAllocations \o AluAllocations \o StageAllocations

Machine == {Single("processor")} \cup Range(Allocations)
Objects == Machine \cup {Single("instructions"), Single("doc")}

\* The functions free_processor calls, in order.
FreeOrder == << "commit", "rename_dispatch", "issue", "fw_paths", "alus", "iq",
                "fetch_decode", "dir", "processor" >>

VARIABLES
    phase,     \* where main is
    step,      \* the next allocation of init_processor, or the next step of free_processor
    live,      \* allocated objects
    ptr,       \* objects whose owning field is not NULL
    invalid,   \* objects that were released without being allocated
    err,       \* what init_processor or yyjson_mut_write_file returned
    code       \* the exit status of main

vars == <<phase, step, live, ptr, invalid, err, code>>

-----------------------------------------------------------------------------
Init ==
    /\ phase = "args" /\ step = 1
    /\ live = {} /\ ptr = {} /\ invalid = {}
    /\ err = "ERR_NONE" /\ code = "none"

Exit(status) == phase' = "exit" /\ code' = status /\ UNCHANGED <<step, err>>
Goto(place) == phase' = place /\ step' = 1 /\ UNCHANGED code

Allocate(o) == live' = live \cup {o} /\ ptr' = ptr \cup {o} /\ UNCHANGED invalid
NoAllocation == UNCHANGED <<live, ptr, invalid>>

\* free() of every object of the set whose field is not NULL; the fields of cleared
\* are then set to NULL.
Release(objects, cleared) ==
    LET released == objects \cap ptr
    IN  /\ live' = live \ released
        /\ invalid' = invalid \cup (released \ live)
        /\ ptr' = ptr \ cleared

CheckArgs ==
    /\ phase = "args"
    /\ \/ Exit("ERR_ARGS_NUM")
       \/ Goto("parse") /\ UNCHANGED err
    /\ NoAllocation

\* parse_instructions leaves the array exactly when it succeeds (AllOrNothing of Parser).
ParseInstructions ==
    /\ phase = "parse"
    /\ \/ Exit("ERR_PARSE") /\ NoAllocation
       \/ Goto("calloc") /\ Allocate(Single("instructions")) /\ UNCHANGED err

AllocProcessor ==
    /\ phase = "calloc"
    /\ \/ Exit("ERR_MEM_ALLOC") /\ NoAllocation
       \/ Goto("init") /\ Allocate(Single("processor")) /\ UNCHANGED err

\* When the array of a queue cannot be allocated, the function that made the queue
\* releases it and clears its field.
Queues == {"free_list.list", "active_list.list", "dir.queue", "iq.queue"}
QueueOf(o) == {Single(q) : q \in {n \in Queues : n \o ".data" = o[1]}}
OnAllocFailure_NoClear(o) == Release(QueueOf(o), {})
OnAllocFailure(o) == Release(QueueOf(o), QueueOf(o))

\* One allocation of init_processor; the first that fails ends it, and main calls
\* free_processor.
InitStep_Continues ==
    /\ phase = "init" /\ step <= Len(Allocations)
    /\ \/ Allocate(Allocations[step])
       \/ OnAllocFailure(Allocations[step])
    /\ step' = step + 1
    /\ UNCHANGED <<phase, err, code>>
InitStep ==
    /\ phase = "init" /\ step <= Len(Allocations)
    /\ \/ /\ Allocate(Allocations[step])
          /\ step' = step + 1
          /\ UNCHANGED <<phase, err, code>>
       \/ /\ OnAllocFailure(Allocations[step])
          /\ err' = "ERR_MEM_ALLOC" /\ Goto("free")

InitDone ==
    /\ phase = "init" /\ step > Len(Allocations)
    /\ Goto("doc") /\ UNCHANGED err /\ NoAllocation

\* yyjson_mut_doc_new; without a document run_simulation returns at once, and writing fails.
NewDoc ==
    /\ phase = "doc"
    /\ \/ Goto("run") /\ Allocate(Single("doc"))
       \/ Goto("write") /\ NoAllocation
    /\ UNCHANGED err

RunSimulation ==
    /\ phase = "run"
    /\ Goto("write") /\ UNCHANGED err /\ NoAllocation

WriteFile ==
    /\ phase = "write"
    /\ \/ Single("doc") \in ptr /\ UNCHANGED err
       \/ err' = "ERR_FILE_PARSE"
    /\ Release({Single("doc")}, {Single("doc")})
    /\ Goto("free")

-----------------------------------------------------------------------------
\* What each step of free_processor releases.  alu_free is not called, and nothing is
\* called for the two lists inside processor->state.
Released_IqLast(part) ==
    CASE part = "alus" -> {Alu(i) : i \in AluIds}
      [] part = "iq" -> {Single("iq"), Single("iq.queue")}
      [] part = "dir" -> {Single("dir"), Single("dir.queue"), Single("dir.queue.data")}
      [] OTHER -> {Single(part)}
Released(part) ==
    CASE part = "alus" -> {Alu(i) : i \in AluIds}
      [] part = "iq" -> {Single("iq"), Single("iq.queue"), Single("iq.queue.data")}
      [] part = "dir" -> {Single("dir"), Single("dir.queue"), Single("dir.queue.data")}
      [] OTHER -> {Single(part)}

\* iq_free passes the queue to free_queue, which refuses NULL.
FreeFails(part) == part = "iq" /\ Single("iq") \in ptr /\ Single("iq.queue") \notin ptr

FreeStep ==
    /\ phase = "free" /\ step <= Len(FreeOrder)
    /\ ~FreeFails(FreeOrder[step])
    /\ Release(Released(FreeOrder[step]), Released(FreeOrder[step]))
    /\ step' = step + 1
    /\ UNCHANGED <<phase, err, code>>

\* The error of free_processor is main's only when everything before went well.
FreeFailed ==
    /\ phase = "free" /\ step <= Len(FreeOrder)
    /\ FreeFails(FreeOrder[step])
    /\ Exit(IF err = "ERR_NONE" THEN "ERR_NULL_PTR" ELSE err)
    /\ NoAllocation

FreeDone ==
    /\ phase = "free" /\ step > Len(FreeOrder)
    /\ Exit(err)
    /\ IF err = "ERR_NONE" THEN Release({Single("instructions")}, {Single("instructions")})
       ELSE NoAllocation

Exited == phase = "exit" /\ UNCHANGED vars

Next == \/ CheckArgs \/ ParseInstructions \/ AllocProcessor \/ InitStep \/ InitDone
        \/ NewDoc \/ RunSimulation \/ WriteFile
        \/ FreeStep \/ FreeFailed \/ FreeDone \/ Exited

Spec == Init /\ [][Next]_vars

-----------------------------------------------------------------------------
\* Whatever allocation fails, nothing is released that is not allocated (main,
\* free_processor and the free_ functions of the stages).
NoInvalidFree == invalid = {}

\* A field that is not NULL has its object: no stage, and no free_ function, follows a
\* dangling pointer (the fields are cleared wherever their object is released).
NoDangling == ptr \subseteq live

\* The simulation only ever runs on a machine of which every part exists.
RunsComplete == phase = "run" => Machine \subseteq live /\ Machine \subseteq ptr

\* What free_processor leaves behind: the queues of the two lists inside
\* processor->state and the stages of the ALUs.
NeverReleased ==
    {Single("free_list.list"), Single("free_list.list.data"),
     Single("active_list.list"), Single("active_list.list.data")}
    \cup {Stages(i) : i \in AluIds}

\* A run that succeeds leaves exactly these.  One that fails leaves them as far as it
\* had allocated them and the program; only when the integer queue could not be made
\* does the rest of the processor stay too.
LeftAtExit ==
    phase = "exit" =>
        /\ code = "ERR_NONE" => live = NeverReleased
        /\ FreeFails("iq") \/ live \subseteq NeverReleased \cup {Single("instructions")}
        /\ code # "ERR_NULL_PTR"
=============================================================================
