------------------------------- MODULE Parser -------------------------------
(***************************************************************************)
(* parse_instructions (src/parser.c): from the JSON document to the        *)
(* program in memory.  A line of text is what sscanf makes of it: how many *)
(* of the four fields it has, a name, and three operand texts, each a      *)
(* number with or without the leading x.  Fields longer than the buffers   *)
(* that receive them are left out.                                         *)
(***************************************************************************)
EXTENDS Instruction

CONSTANTS
    BYTE_SIZE,   \* number of values of uint8_t
    INT_SIZE,    \* number of values of int, which is what atoi returns
    Files        \* the input files: [loads, is_arr, items]

WidthsAssumption ==
    /\ BYTE_SIZE \in Nat \ {0} /\ INT_SIZE \in Nat \ {0}
    /\ REG_LOG_FILE_SIZE < BYTE_SIZE
    /\ 2 * BYTE_SIZE <= INT_SIZE /\ INT_SIZE < WORD_SIZE
    /\ INT_SIZE % 2 = 0 /\ WORD_SIZE % INT_SIZE = 0

OperandText == [is_reg: BOOLEAN, num: Int]
Item == [is_str: BOOLEAN, fields: 0 .. 4, name: STRING,
         dest: OperandText, opA: OperandText, opB: OperandText]
FilesAssumption == Files \subseteq [loads: BOOLEAN, is_arr: BOOLEAN, items: Seq(Item)]

\* operand_t as parsed: the low word of its union is the immediate, and its
\* lowest byte is log_id; phy_id and value are 0 for a register.
Operand == [type: {"reg", "imm"}, low: Word]
LogId(op) == op.low % BYTE_SIZE
Imm(op) == ToSigned(op.low)

VARIABLES
    file,          \* the input
    phase,         \* where parse_instructions is
    instructions,  \* the elements of the array filled so far
    doc_live,      \* the JSON document is allocated
    array_live,    \* the array of instructions is allocated
    result         \* what parse_instructions returned

vars == <<file, phase, instructions, doc_live, array_live, result>>

-----------------------------------------------------------------------------
\* atoi: the C library reads a long, which saturates, and keeps its low bits.
Saturated(n) == IF n > WORD_SIZE \div 2 - 1 THEN WORD_SIZE \div 2 - 1
                ELSE IF n < -(WORD_SIZE \div 2) THEN -(WORD_SIZE \div 2) ELSE n
Atoi(n) == LET bits == Saturated(n) % INT_SIZE
           IN  IF 2 * bits >= INT_SIZE THEN bits - INT_SIZE ELSE bits

\* (reg_t) of an int
AsWord(n) == n % WORD_SIZE

\* The range check of parse_operand is made on an unsigned word, so that a
\* negative number is out of range too.
InvalidLogReg_Signed(res) == ToSigned(res) >= REG_LOG_FILE_SIZE
InvalidLogReg_Strict(res) == res >= REG_LOG_FILE_SIZE - 1
InvalidLogReg(res) == res >= REG_LOG_FILE_SIZE

ParseOperandResult(text) ==
    IF text.is_reg /\ InvalidLogReg(AsWord(Atoi(text.num)))
    THEN "ERR_INVALID_LOG_REG" ELSE "ERR_NONE"

ParsedOperand(text) ==
    IF text.is_reg
    THEN [type |-> "reg", low |-> AsWord(Atoi(text.num)) % BYTE_SIZE]
    ELSE [type |-> "imm", low |-> AsWord(Atoi(text.num))]

\* parse_instruction: the checks in the order of the code, the first error wins.
ParseResult(item) ==
    LET results == << IF item.fields = 4 THEN "ERR_NONE" ELSE "ERR_INVALID_FORMAT",
                      IF item.name \in RegOps \cup ImmOps THEN "ERR_NONE" ELSE "ERR_INVALID_NAME",
                      ParseOperandResult(item.dest),
                      ParseOperandResult(item.opA),
                      ParseOperandResult(item.opB) >>
        errors == {k \in DOMAIN results : results[k] # "ERR_NONE"}
    IN  IF errors = {} THEN "ERR_NONE"
        ELSE results[CHOOSE k \in errors : \A j \in errors : k <= j]

ParsedInstruction(item, index) ==
    [type |-> item.name, pc |-> index, dest |-> ParsedOperand(item.dest),
     opA |-> ParsedOperand(item.opA), opB |-> ParsedOperand(item.opB)]

-----------------------------------------------------------------------------
Init ==
    /\ file \in Files
    /\ phase = "read"
    /\ instructions = << >>
    /\ doc_live = FALSE /\ array_live = FALSE
    /\ result = "none"

Return(code) == phase' = "returned" /\ result' = code

\* yyjson_read_file
ReadFile ==
    /\ phase = "read"
    /\ IF file.loads THEN doc_live' = TRUE /\ phase' = "root" /\ UNCHANGED result
       ELSE Return("ERR_FILE_PARSE") /\ UNCHANGED doc_live
    /\ UNCHANGED <<file, instructions, array_live>>

\* The root must be an array; the memory for the instructions may not be there.
CheckRoot ==
    /\ phase = "root"
    /\ \/ /\ ~file.is_arr
          /\ Return("ERR_INVALID_FORMAT")
          /\ doc_live' = FALSE /\ UNCHANGED array_live
       \/ /\ file.is_arr
          /\ Return("ERR_MEM_ALLOC")
          /\ doc_live' = FALSE /\ UNCHANGED array_live
       \/ /\ file.is_arr
          /\ array_live' = TRUE /\ phase' = "items"
          /\ UNCHANGED <<doc_live, result>>
    /\ UNCHANGED <<file, instructions>>

\* What an item that cannot be parsed releases before the return.
ReleaseOnError_DocOnly == doc_live' = FALSE /\ UNCHANGED array_live
ReleaseOnError == doc_live' = FALSE /\ array_live' = FALSE

\* One iteration of the loop over the items.
ParseItem ==
    /\ phase = "items" /\ Len(instructions) < Len(file.items)
    /\ LET index == Len(instructions)
           item == file.items[index + 1]
           res == IF item.is_str THEN ParseResult(item) ELSE "ERR_INVALID_FORMAT"
       IN  IF res = "ERR_NONE"
           THEN /\ instructions' = Append(instructions, ParsedInstruction(item, index))
                /\ UNCHANGED <<phase, doc_live, array_live, result>>
           ELSE Return(res) /\ ReleaseOnError /\ UNCHANGED instructions
    /\ UNCHANGED file

ParseDone ==
    /\ phase = "items" /\ Len(instructions) = Len(file.items)
    /\ doc_live' = FALSE
    /\ Return("ERR_NONE")
    /\ UNCHANGED <<file, instructions, array_live>>

Returned == phase = "returned" /\ UNCHANGED vars

Next == ReadFile \/ CheckRoot \/ ParseItem \/ ParseDone \/ Returned

Spec == Init /\ [][Next]_vars

-----------------------------------------------------------------------------
Accepted == phase = "returned" /\ result = "ERR_NONE"

\* The caller gets a whole program or nothing: parse_instructions returns the array,
\* with every line parsed, exactly when it returns ERR_NONE, and the document never
\* outlives the call.
AllOrNothing ==
    phase = "returned" =>
        /\ ~doc_live
        /\ array_live <=> Accepted
        /\ Accepted => /\ Len(instructions) = Len(file.items)
                       /\ \A i \in DOMAIN instructions : instructions[i].pc = i - 1

\* Numbers that fit an int survive the conversions (atoi, reg_t, uint8_t, the
\* union): a register operand names the register the text names, which exists, and
\* an immediate has its value.
FitsInt(n) == 2 * n >= -INT_SIZE /\ 2 * n < INT_SIZE
Keeps(op, text) ==
    FitsInt(text.num) =>
        IF text.is_reg THEN op.type = "reg" /\ LogId(op) = text.num /\ text.num \in LogReg
        ELSE op.type = "imm" /\ Imm(op) = text.num
NumbersKept ==
    \A i \in DOMAIN instructions :
        LET item == file.items[i]
        IN  /\ Keeps(instructions[i].dest, item.dest)
            /\ Keeps(instructions[i].opA, item.opA)
            /\ Keeps(instructions[i].opB, item.opB)

\* The forms of the README: a program all of whose lines have one is accepted, unless
\* memory runs out, and is one the pipeline is modelled for.
IsReg(text) == text.is_reg /\ text.num \in LogReg
WellFormed(item) ==
    /\ item.is_str /\ item.fields = 4
    /\ item.name \in RegOps \cup ImmOps
    /\ IsReg(item.dest) /\ IsReg(item.opA)
    /\ IF item.name \in ImmOps THEN ~item.opB.is_reg /\ FitsInt(item.opB.num) ELSE IsReg(item.opB)
AsInstruction(instr) ==
    [type |-> instr.type, dest |-> LogId(instr.dest), opA |-> LogId(instr.opA),
     opB |-> IF instr.type \in ImmOps THEN instr.opB.low ELSE LogId(instr.opB)]
WellFormedAccepted ==
    phase = "returned" /\ file.loads /\ file.is_arr
      /\ (\A i \in DOMAIN file.items : WellFormed(file.items[i])) =>
        /\ result \in {"ERR_NONE", "ERR_MEM_ALLOC"}
        /\ \A i \in DOMAIN instructions : AsInstruction(instructions[i]) \in AnyInstruction
=============================================================================
