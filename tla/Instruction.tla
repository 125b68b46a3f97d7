---------------------------- MODULE Instruction ----------------------------
(***************************************************************************)
(* The instructions of the simulated machine and what an ALU computes for  *)
(* them (src/instruction.c, include/instruction.h).  A word has WORD_SIZE  *)
(* values (2^64 in the program, a small power of two when model checking). *)
(***************************************************************************)
EXTENDS Integers, Sequences

CONSTANTS
    WORD_SIZE,          \* number of values of reg_t
    REG_LOG_FILE_SIZE   \* number of architectural registers

ASSUME WordSizeAssumption == WORD_SIZE \in Nat \ {0}
ASSUME RegLogAssumption == REG_LOG_FILE_SIZE \in Nat \ {0}

Word == 0 .. WORD_SIZE - 1
LogReg == 0 .. REG_LOG_FILE_SIZE - 1

\* type_t; the ALUs also hold UNKNOWN_TYPE, "unknown" here.
RegOps == {"add", "sub", "mulu", "divu", "remu"}
ImmOps == {"addi"}

\* An assembly instruction as the parser leaves it in program memory: opB is a
\* register for the five register operations, the immediate for addi.
RegInstruction == [type: RegOps, dest: LogReg, opA: LogReg, opB: LogReg]
ImmInstruction == [type: ImmOps, dest: LogReg, opA: LogReg, opB: Word]
AnyInstruction == RegInstruction \cup ImmInstruction

-----------------------------------------------------------------------------
\* The casts between ureg_t and sreg_t that add, addi and sub go through.
ToSigned(w) == IF 2 * w >= WORD_SIZE THEN w - WORD_SIZE ELSE w
ToUnsigned_NoWrap(n) == n
ToUnsigned(n) == n % WORD_SIZE

\* divu_func and remu_func raise the exception flag on a zero divisor.
RaisesException(type, b) == type \in {"divu", "remu"} /\ b = 0

\* The value the operation writes to its destination register: 0 when it
\* raises the exception.
Result(type, a, b) ==
    CASE type \in {"add", "addi"} -> ToUnsigned(ToSigned(a) + ToSigned(b))
      [] type = "sub"             -> ToUnsigned(ToSigned(a) - ToSigned(b))
      [] type = "mulu"            -> (a * b) % WORD_SIZE
      [] type = "divu"            -> IF b = 0 THEN 0 ELSE a \div b
      [] type = "remu"            -> IF b = 0 THEN 0 ELSE a % b
=============================================================================
