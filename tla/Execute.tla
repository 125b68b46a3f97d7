------------------------------- MODULE Execute -------------------------------
(***************************************************************************)
(* The ALUs (src/alu.c) and the write-back of their results through the    *)
(* forwarding paths (rename_dispatch_update_structures).                   *)
(***************************************************************************)
EXTENDS ProcessorState

\* The forwarding path of ALU a: its last pipeline stage.
Forwarded(a) == alus[a][ALU_STAGES]

\* alu_cycle: the instruction in the last stage gets its value.
Executed(instr) ==
    IF instr.type = "unknown" THEN instr
    ELSE [instr EXCEPT !.value = Result(instr.type, instr.valA, instr.valB),
                       !.is_exception = RaisesException(instr.type, instr.valB)]

\* processor_cycle runs alu_cycle on every ALU; no ALU reads another one.
AluCycles ==
    /\ stage = "execute"
    /\ alus' = [a \in 1 .. NUM_ALUS |-> [alus[a] EXCEPT ![ALU_STAGES] = Executed(@)]]
    /\ GoTo("writeback")
    /\ UNCHANGED <<archVars, renameVars, regVars, issueVars, endVars, dir,
                   backpressure, exception_mode, error>>

\* active_list_mark_done, then active_list_mark_exception for an exception: the
\* oldest entry with that address is marked; nothing happens without one.
IsFirstAt_LogicalRegister(i, addr) ==
    LET log == InstructionAt(addr).dest
    IN  /\ active_list[i].log_dest = log
        /\ \A j \in 1 .. i - 1 : active_list[j].log_dest # log
IsFirstAt(i, addr) ==
    /\ active_list[i].pc = addr
    /\ \A j \in 1 .. i - 1 : active_list[j].pc # addr

MarkDone(addr, raised) ==
    active_list' = [i \in 1 .. Len(active_list) |->
        IF IsFirstAt(i, addr)
        THEN [active_list[i] EXCEPT !.is_done = TRUE, !.is_exception = @ \/ raised]
        ELSE active_list[i]]

\* The destination of an exceptional instruction stays busy.
BusyAfter_Never(instr) == FALSE
BusyAfter(instr) == instr.is_exception

\* One iteration of rename_dispatch_update_structures: the forwarding path of
\* one ALU.
WriteBack ==
    /\ stage = "writeback"
    /\ LET instr == Forwarded(step + 1)
       IN  IF instr.type = "unknown"
           THEN UNCHANGED <<physical, is_busy, active_list>>
           ELSE /\ physical' = [physical EXCEPT ![instr.dest] = instr.value]
                /\ is_busy' = [is_busy EXCEPT ![instr.dest] = BusyAfter(instr)]
                /\ MarkDone(instr.pc, instr.is_exception)
    /\ IterateUpTo(NUM_ALUS, "refresh")
    /\ UNCHANGED <<archVars, logical, free_list, issueVars, endVars, dir, alus,
                   backpressure, exception_mode, error>>
=============================================================================
