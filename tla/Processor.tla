------------------------------ MODULE Processor ------------------------------
(***************************************************************************)
(* The simulator: init_processor, processor_cycle and run_simulation       *)
(* (src/processor.c), composed of the pipeline stages.                     *)
(***************************************************************************)
EXTENDS Commit, Execute, Issue, RenameDispatch, FetchDecode

\* init_processor and the init functions it calls, for a parsed program.
Init ==
    /\ program \in Programs
    /\ pc = 0
    /\ is_exception = FALSE
    /\ exception_pc = 0
    /\ physical = [r \in PhyReg |-> 0]
    /\ logical = [l \in LogReg |-> l]
    /\ free_list = [i \in 1 .. FREE_LIST_SIZE |-> REG_LOG_FILE_SIZE + i - 1]
    /\ is_busy = [r \in PhyReg |-> FALSE]
    /\ active_list = << >>
    /\ dir = << >>
    /\ iq = << >>
    /\ alus = EmptyAlus
    /\ backpressure = FALSE
    /\ exception_mode = FALSE
    /\ ready_to_finish = FALSE
    /\ finished = FALSE
    /\ stage = "commit"
    /\ step = 0
    /\ entries = << >>
    /\ error = "ERR_NONE"

\* run_simulation leaves its loop once the processor has finished.
Terminated ==
    /\ finished /\ stage = "end"
    /\ UNCHANGED vars

Next ==
    \/ CommitCycle
    \/ AluCycles
    \/ WriteBack
    \/ IssueCycle
    \/ RenameDispatchCycle
    \/ FetchDecodeCycle
    \/ Terminated

\* One thread runs the whole simulator: it always takes its next step.
Spec == Init /\ [][Next]_vars /\ WF_vars(Next)

-----------------------------------------------------------------------------
(***************************************************************************)
(* What is checked and proved.                                             *)
(***************************************************************************)

\* Every variable has a value of its C type, and no queue outgrows its array.
TypeOK ==
    /\ program \in Seq(AnyInstruction)
    /\ pc \in Nat /\ exception_pc \in Nat
    /\ is_exception \in BOOLEAN /\ exception_mode \in BOOLEAN
    /\ backpressure \in BOOLEAN
    /\ ready_to_finish \in BOOLEAN /\ finished \in BOOLEAN
    /\ physical \in [PhyReg -> Word]
    /\ logical \in [LogReg -> PhyReg]
    /\ free_list \in Seq(PhyReg) /\ Len(free_list) <= FREE_LIST_SIZE
    /\ is_busy \in [PhyReg -> BOOLEAN]
    /\ active_list \in Seq(ActiveEntry) /\ Len(active_list) <= ACTIVE_LIST_SIZE
    /\ dir \in Seq(0 .. Len(program) - 1) /\ Len(dir) <= DIR_SIZE
    /\ iq \in Seq(IqEntry) /\ Len(iq) <= IQ_CAPACITY
    /\ entries \in Seq(IqEntry) /\ Len(entries) <= NUM_ALUS
    /\ alus \in [1 .. NUM_ALUS -> [1 .. ALU_STAGES -> Renamed \cup {EmptySlot}]]
    /\ stage \in {"commit", "execute", "writeback", "refresh", "select",
                  "rename", "dispatch", "fetch", "end"}
    /\ step \in Nat
    /\ error \in ErrorCode

-----------------------------------------------------------------------------
Injective(f) == \A a, b \in DOMAIN f : f[a] = f[b] => a = b

\* The registers that the instructions of the active list replaced in the map.
OldDests == [i \in 1 .. Len(active_list) |-> active_list[i].old_phy_dest]

\* A physical register is in exactly one place: it is free, or the map names
\* it, or an instruction in the active list will free it when it commits and
\* restore it when it is undone.  A register freed twice by commit and recovery,
\* or never, breaks this long before a wrong value is seen.
RegisterPartition ==
    /\ Injective(free_list) /\ Injective(logical) /\ Injective(OldDests)
    /\ Range(free_list) \cap Range(logical) = {}
    /\ Range(free_list) \cap Range(OldDests) = {}
    /\ Range(logical) \cap Range(OldDests) = {}
    /\ Range(free_list) \cup Range(logical) \cup Range(OldDests) = PhyReg

\* The in-flight writers of an architectural register form a chain: the register
\* an instruction was given is the one the next writer replaced, and the one the
\* map names for the last writer.  Recovery (youngest first) relies on it.
LaterWriters(i) ==
    {j \in i + 1 .. Len(active_list) : active_list[j].log_dest = active_list[i].log_dest}
RenameChain ==
    \A i \in 1 .. Len(active_list) :
        /\ LaterWriters(i) = {} =>
              active_list[i].curr_phy_dest = logical[active_list[i].log_dest]
        /\ \A j \in LaterWriters(i) : (\A k \in LaterWriters(i) : j <= k) =>
              active_list[i].curr_phy_dest = active_list[j].old_phy_dest

\* A register is busy exactly while the instruction that computes it is in the
\* active list and has not produced a value a consumer may use.
BusyBits ==
    \A r \in PhyReg :
        is_busy[r] <=> \E i \in 1 .. Len(active_list) :
                           /\ active_list[i].curr_phy_dest = r
                           /\ ~active_list[i].is_done \/ active_list[i].is_exception

-----------------------------------------------------------------------------
\* The addresses of the instructions between fetch and commit.
InFlight == [i \in 1 .. Len(active_list) |-> active_list[i].pc] \o dir

\* Outside exception mode they are consecutive and end at pc, so that an address
\* identifies one active list entry (mark_done looks entries up by address), and
\* the integer queue is in program order.
ProgramOrder ==
    ~exception_mode =>
        /\ \A i \in 1 .. Len(InFlight) : InFlight[i] = pc - Len(InFlight) + i - 1
        /\ \A i, j \in 1 .. Len(iq) : i < j => iq[i].instr.pc < iq[j].instr.pc

\* The places from which an instruction can still reach write-back.
Places(addr) ==
    {<<"iq", i, 0>> : i \in {k \in 1 .. Len(iq) : iq[k].instr.pc = addr}}
    \cup {<<"entries", i, 0>> : i \in {k \in 1 .. Len(entries) : entries[k].instr.pc = addr}}
    \cup {<<"alu", as[1], as[2]>> : as \in
            {x \in (1 .. NUM_ALUS) \X (1 .. ALU_STAGES) :
                /\ alus[x[1]][x[2]].type # "unknown"
                /\ alus[x[1]][x[2]].pc = addr}}

\* Whenever the ALUs hold no finished instruction, every unfinished instruction
\* of the active list is in exactly one place, a finished one in none: none is
\* lost or issued twice on the way through the queue, the array and the ALUs.
InFlightOnce ==
    ~exception_mode /\ stage \in {"commit", "execute", "rename", "dispatch", "fetch"} =>
        \A i \in 1 .. Len(active_list) :
            Cardinality(Places(active_list[i].pc)) = IF active_list[i].is_done THEN 0 ELSE 1

\* A register is not free, hence not given to another instruction, while an
\* instruction that has not issued still has to read it.
NoFreeSource ==
    ~exception_mode =>
        \A i \in 1 .. Len(iq) :
            /\ iq[i].instr.opA \notin Range(free_list)
            /\ iq[i].instr.type \notin ImmOps => iq[i].instr.opB \notin Range(free_list)

\* No stage ever returns an error, which would cut the cycle short and leave the
\* structures half updated: the backpressure test leaves enough room in all of
\* them, and commit and recovery never overfill the free list.
NoStageError == error = "ERR_NONE"

\* Why: every register that left the free list is held for an active list entry,
\* and while the DIR is drained all that is in it fits in the three structures.
Accounting ==
    /\ Len(free_list) + Len(active_list) = FREE_LIST_SIZE
    /\ stage = "dispatch" =>
          /\ Len(dir) <= Len(free_list)
          /\ Len(dir) <= ACTIVE_LIST_SIZE - Len(active_list)
          /\ Len(dir) <= IQ_CAPACITY - Len(iq)
    /\ stage = "writeback" => step < NUM_ALUS

\* The instructions in flight are in program order, each in exactly one place, and each
\* with the register that left the free list for it (fetch, rename, issue and commit).
InFlightInv == ProgramOrder /\ InFlightOnce /\ Accounting

\* When the simulation stops every instruction of the program was committed, or
\* an exception was taken and undone.
CompleteAtEnd ==
    finished => /\ active_list = << >> /\ dir = << >> /\ ~is_exception
                /\ exception_mode \/ pc >= Len(program)

-----------------------------------------------------------------------------
\* The issue stage takes the oldest ready instructions, as many as there are
\* ALUs: a ready instruction stays in the queue only behind a full array, all of
\* it older.  (Entries leave the queue while the loop scans it.)
OldestReadyIssue ==
    [][ IssueToAlus =>
          \A i \in 1 .. Len(iq) : EntryReady(iq[i]) =>
              /\ Len(entries) = NUM_ALUS
              /\ \A k \in 1 .. NUM_ALUS :
                    ~exception_mode => entries[k].instr.pc < iq[i].instr.pc ]_vars

\* The dump taken at the start of a cycle is the last one when ready_to_finish is
\* set: what it shows is never changed again.
dumped == <<pc, is_exception, exception_pc, physical, logical, free_list,
            is_busy, active_list, dir, iq>>
LastDumpFinal == [][ready_to_finish => UNCHANGED dumped]_vars

\* The simulation ends.
Termination == <>finished

-----------------------------------------------------------------------------
\* The architectural state: the register that holds the value of an architectural
\* register after the last committed instruction is the one its oldest in-flight
\* writer replaced, or the mapped one.
Writers(l) == {i \in 1 .. Len(active_list) : active_list[i].log_dest = l}
CommittedMap(l) == IF Writers(l) = {} THEN logical[l]
                   ELSE active_list[Min(Writers(l))].old_phy_dest

InOrder == INSTANCE InOrderMachine WITH
    regs <- [l \in LogReg |-> physical[CommittedMap(l)]],
    cpc <- IF exception_mode THEN PC_EXCEPTION ELSE pc - Len(InFlight),
    trapped <- exception_mode,
    epc <- exception_pc

\* Out-of-order execution, renaming and recovery implement the sequential
\* machine: every commit retires the next instruction with the value sequential
\* execution gives it, and an exception is precise.
ImplementsInOrder == InOrder!Spec

\* The same when renaming may fail half-way (the uninitialised index of
\* rename_dispatch.c:190): as long as no stage has returned an error, and lost an
\* instruction with it, every step is the sequential machine's or a stutter.
InOrderUntilError ==
    InOrder!Init /\ [][error' = "ERR_NONE" => [InOrder!Next]_InOrder!vars]_vars
-----------------------------------------------------------------------------
(***************************************************************************)
(* What comments of the source say and the code does not do.               *)
(***************************************************************************)

\* "Clear exception mode if all instructions are recovered" (commit.c:150): the
\* commit unit is in exception mode only while the exception is signalled.
ExceptionModeCleared == exception_mode => is_exception

\* "Apply backpressure to the fetch stage" (commit.c:212, commit.h:62): nothing is
\* fetched while an exception is signalled.
NoFetchInException == [][FetchDecodeCycle /\ is_exception => UNCHANGED dir]_vars
=============================================================================
