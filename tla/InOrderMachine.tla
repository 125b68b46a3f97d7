--------------------------- MODULE InOrderMachine ---------------------------
(***************************************************************************)
(* What the pipeline promises to a program: the sequential machine that    *)
(* executes one instruction after the other.  An instruction that raises   *)
(* an exception changes no register, its address is recorded, and nothing  *)
(* of the program after it ever takes effect (precise exceptions).         *)
(***************************************************************************)
EXTENDS Instruction

CONSTANT PC_EXCEPTION

VARIABLES
    program,
    regs,       \* the architectural registers
    cpc,        \* the address of the next instruction
    trapped,    \* an exception was taken
    epc         \* where

vars == <<program, regs, cpc, trapped, epc>>

Running == ~trapped /\ cpc < Len(program)
Current == program[cpc + 1]

\* The second operand: a register or an immediate.
OperandB == IF Current.type \in ImmOps THEN Current.opB ELSE regs[Current.opB]

-----------------------------------------------------------------------------
Init ==
    /\ program \in Seq(AnyInstruction)
    /\ regs = [l \in LogReg |-> 0]
    /\ cpc = 0
    /\ trapped = FALSE
    /\ epc = 0

Retire ==
    /\ Running
    /\ ~RaisesException(Current.type, OperandB)
    /\ regs' = [regs EXCEPT ![Current.dest] =
                    Result(Current.type, regs[Current.opA], OperandB)]
    /\ cpc' = cpc + 1
    /\ UNCHANGED <<program, trapped, epc>>

Trap ==
    /\ Running
    /\ RaisesException(Current.type, OperandB)
    /\ trapped' = TRUE
    /\ epc' = cpc
    /\ cpc' = PC_EXCEPTION
    /\ UNCHANGED <<program, regs>>

Next == Retire \/ Trap

Spec == Init /\ [][Next]_vars
=============================================================================
