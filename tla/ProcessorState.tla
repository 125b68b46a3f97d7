--------------------------- MODULE ProcessorState ---------------------------
(***************************************************************************)
(* The state that the pipeline stages share through pointers               *)
(* (include/processor.h) and the operations on it that several stages use. *)
(*                                                                         *)
(* processor_cycle runs the stages one after the other, from the end of    *)
(* the pipeline to its beginning.  `stage` says which one runs, `step`     *)
(* counts the iterations of the loop it is in; every iteration is a step   *)
(* of the specification.  The queues are sequences, their oldest element   *)
(* first (CircularQueue.tla justifies that view of queue_t).               *)
(***************************************************************************)
EXTENDS Instruction, FiniteSets

CONSTANTS
    REG_PHY_FILE_SIZE,       \* number of physical registers
    INSTRUCTIONS_PER_CYCLE,  \* width of fetch, rename, commit and recovery
    NUM_ALUS,
    ALU_STAGES,
    IQ_CAPACITY,
    PC_EXCEPTION,            \* address of the exception handler
    Programs,                \* the programs main() may be given
    UninitRegIdx             \* what the uninitialised phy_reg_dest_idx may hold

ASSUME SizesAssumption ==
    /\ REG_PHY_FILE_SIZE \in Nat
    /\ REG_PHY_FILE_SIZE > REG_LOG_FILE_SIZE
    /\ INSTRUCTIONS_PER_CYCLE \in Nat \ {0}
    /\ NUM_ALUS \in Nat \ {0}
    /\ ALU_STAGES \in Nat \ {0}
    /\ IQ_CAPACITY \in Nat \ {0}
    /\ PC_EXCEPTION \in Nat
ASSUME ProgramsAssumption == Programs \subseteq Seq(AnyInstruction)
ASSUME UninitAssumption == UninitRegIdx \subseteq Nat /\ UninitRegIdx # {}

PhyReg == 0 .. REG_PHY_FILE_SIZE - 1
FREE_LIST_SIZE == REG_PHY_FILE_SIZE - REG_LOG_FILE_SIZE
ACTIVE_LIST_SIZE == REG_LOG_FILE_SIZE
DIR_SIZE == INSTRUCTIONS_PER_CYCLE

VARIABLES
    program,          \* the instructions, fixed after parsing
    pc,
    is_exception,     \* exception_status.is_exception, dumped as "Exception"
    exception_pc,
    physical,         \* the physical register file
    logical,          \* the register map table
    free_list,
    is_busy,          \* the busy bit table
    active_list,
    dir,              \* the addresses of the instructions in the DIR
    iq,
    alus,             \* alus[i][s]: the instruction in stage s of ALU i
    backpressure,
    exception_mode,   \* commit_t's own flag, never dumped
    ready_to_finish,
    finished,
    stage,            \* the part of processor_cycle that runs
    step,             \* iterations of its loop already done
    entries,          \* issue_cycle's local array of ready entries
    error             \* the last stage error reported on stderr

archVars == <<pc, is_exception, exception_pc>>
renameVars == <<logical, free_list, active_list>>
regVars == <<physical, is_busy>>
issueVars == <<iq, entries>>
endVars == <<program, ready_to_finish, finished>>
vars == <<archVars, renameVars, regVars, issueVars, endVars, dir, alus,
          backpressure, exception_mode, stage, step, error>>

-----------------------------------------------------------------------------
ErrorCode == {"ERR_NONE", "ERR_QUEUE_FULL", "ERR_QUEUE_EMPTY", "ERR_INVALID_PHY_REG"}

ActiveEntry == [pc: Nat, log_dest: LogReg, old_phy_dest: PhyReg,
                curr_phy_dest: PhyReg, is_done: BOOLEAN, is_exception: BOOLEAN]

\* A renamed instruction: the tags and values of its operands, its destination
\* register and the value computed for it.
Renamed == [type: RegOps \cup ImmOps, pc: Nat, dest: PhyReg, value: Word,
            opA: PhyReg, valA: Word, opB: PhyReg, valB: Word,
            is_exception: BOOLEAN]
IqEntry == [instr: Renamed, is_opA_ready: BOOLEAN, is_opB_ready: BOOLEAN]

\* An ALU slot without an instruction (memset to 0, type UNKNOWN_TYPE).
EmptySlot == [type |-> "unknown", pc |-> 0, dest |-> 0, value |-> 0,
              opA |-> 0, valA |-> 0, opB |-> 0, valB |-> 0,
              is_exception |-> FALSE]
EmptyAlus == [a \in 1 .. NUM_ALUS |-> [s \in 1 .. ALU_STAGES |-> EmptySlot]]

\* The instruction at an address: the DIR copies it, its address stands for it.
InstructionAt(addr) == program[addr + 1]

-----------------------------------------------------------------------------
\* The stage that runs next, from its first iteration.
GoTo(next) == stage' = next /\ step' = 0

\* One more iteration of the current loop.
Iterate == step' = step + 1 /\ UNCHANGED stage

\* A loop with a fixed number of iterations, followed by `next`.
IterateUpTo(n, next) == IF step + 1 < n THEN Iterate ELSE GoTo(next)

\* A stage returned an error: processor_cycle prints it and returns, and
\* run_simulation starts the next cycle.
Abort(code) == GoTo("commit") /\ error' = code

\* The result of free_list_push.
FreeListPushResult(reg) ==
    IF reg >= REG_PHY_FILE_SIZE THEN "ERR_INVALID_PHY_REG"
    ELSE IF Len(free_list) = FREE_LIST_SIZE THEN "ERR_QUEUE_FULL"
    ELSE "ERR_NONE"

\* The result of free_list_pop, which reads its output parameter first.
FreeListPopResult(slot) ==
    IF slot >= REG_PHY_FILE_SIZE THEN "ERR_INVALID_PHY_REG"
    ELSE IF free_list = << >> THEN "ERR_QUEUE_EMPTY"
    ELSE "ERR_NONE"

\* is_operand_ready for a register operand, over a busy bit table and an active
\* list: not busy, and not computed by an instruction that raised an exception.
RegisterReady_NeverBusy(reg, busy, list) == TRUE
RegisterReady(reg, busy, list) ==
    /\ ~busy[reg]
    /\ \A i \in 1 .. Len(list) :
          ~(list[i].curr_phy_dest = reg /\ list[i].is_exception)

\* A renamed instruction as an integer queue entry: an immediate is ready, and a
\* register operand that is ready takes its value from the register file.
WithReadiness(instr, busy, list) ==
    LET imm == instr.type \in ImmOps
        readyA == RegisterReady(instr.opA, busy, list)
        readyB == imm \/ RegisterReady(instr.opB, busy, list)
    IN  [instr |-> [instr EXCEPT
            !.valA = IF readyA THEN physical[instr.opA] ELSE @,
            !.valB = IF readyB /\ ~imm THEN physical[instr.opB] ELSE @],
         is_opA_ready |-> readyA, is_opB_ready |-> readyB]
=============================================================================
