--------------------------- MODULE RenameDispatch ---------------------------
(***************************************************************************)
(* The rename and dispatch stage (src/rename_dispatch.c).                  *)
(***************************************************************************)
EXTENDS ProcessorState

\* Rename and dispatch need room for a whole bundle in all three structures.
RoomForBundle_OneLess ==
    /\ Len(free_list) >= INSTRUCTIONS_PER_CYCLE - 1
    /\ ACTIVE_LIST_SIZE - Len(active_list) >= INSTRUCTIONS_PER_CYCLE - 1
    /\ IQ_CAPACITY - Len(iq) >= INSTRUCTIONS_PER_CYCLE - 1
RoomForBundle ==
    /\ Len(free_list) >= INSTRUCTIONS_PER_CYCLE
    /\ ACTIVE_LIST_SIZE - Len(active_list) >= INSTRUCTIONS_PER_CYCLE
    /\ IQ_CAPACITY - Len(iq) >= INSTRUCTIONS_PER_CYCLE

\* The start of rename_dispatch_cycle decides the backpressure that fetch sees,
\* whatever the commit stage set it to in the same cycle.
CheckResources ==
    /\ stage = "rename"
    /\ backpressure' = ~RoomForBundle
    /\ GoTo(IF RoomForBundle THEN "dispatch" ELSE "fetch")
    /\ UNCHANGED <<archVars, renameVars, regVars, issueVars, endVars, dir,
                   alus, exception_mode, error>>

-----------------------------------------------------------------------------
\* The active list entry of the instruction at addr, given register dest.
NewActiveEntry(addr, dest) ==
    LET log == InstructionAt(addr).dest
    IN  [pc |-> addr, log_dest |-> log, old_phy_dest |-> logical[log],
         curr_phy_dest |-> dest, is_done |-> FALSE, is_exception |-> FALSE]

\* rename_operand: operands are renamed with the map before the destination is.
RenamedInstr(addr, dest) ==
    LET i == InstructionAt(addr)
        imm == i.type \in ImmOps
    IN  [type |-> i.type, pc |-> addr, dest |-> dest, value |-> 0,
         opA |-> logical[i.opA], valA |-> 0,
         opB |-> IF imm THEN 0 ELSE logical[i.opB],
         valB |-> IF imm THEN i.opB ELSE 0,
         is_exception |-> FALSE]

\* The instruction at addr gets the register dest: it enters the active list,
\* the map and the busy bits change, and it enters the integer queue.
Dispatch(addr, dest) ==
    LET entry == NewActiveEntry(addr, dest)
        instr == RenamedInstr(addr, dest)
    IN  /\ active_list' = Append(active_list, entry)
        /\ logical' = [logical EXCEPT ![entry.log_dest] = dest]
        /\ is_busy' = [is_busy EXCEPT ![dest] = TRUE]
        /\ IF Len(iq) = IQ_CAPACITY
           THEN Abort("ERR_QUEUE_FULL") /\ UNCHANGED iq
           ELSE /\ iq' = Append(iq, WithReadiness(instr, is_busy', active_list'))
                /\ UNCHANGED <<stage, step, error>>

\* Renaming with `slot` in the uninitialised variable.  An error return loses
\* the instruction, which has left the DIR, and what follows the failing call
\* is not done.
RenameHead(slot) ==
    LET popped == FreeListPopResult(slot)
    IN  IF popped # "ERR_NONE"
        THEN Abort(popped) /\ UNCHANGED <<renameVars, is_busy, iq>>
        ELSE /\ free_list' = Tail(free_list)
             /\ IF Len(active_list) = ACTIVE_LIST_SIZE
                THEN /\ Abort("ERR_QUEUE_FULL")
                     /\ UNCHANGED <<active_list, logical, is_busy, iq>>
                ELSE Dispatch(Head(dir), Head(free_list))

\* One iteration of the loop that drains the DIR.
RenameInstr ==
    /\ stage = "dispatch"
    /\ dir # << >>
    /\ dir' = Tail(dir)
    /\ \E slot \in UninitRegIdx : RenameHead(slot)
    /\ UNCHANGED <<archVars, physical, entries, endVars, alus, backpressure,
                   exception_mode>>

DispatchDone ==
    /\ stage = "dispatch"
    /\ dir = << >>
    /\ GoTo("fetch")
    /\ UNCHANGED <<archVars, renameVars, regVars, issueVars, endVars, dir,
                   alus, backpressure, exception_mode, error>>

RenameDispatchCycle == CheckResources \/ RenameInstr \/ DispatchDone
=============================================================================
