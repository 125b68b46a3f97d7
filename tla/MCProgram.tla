------------------------------ MODULE MCProgram -------------------------------
(***************************************************************************)
(* The program around the simulation, composed for TLC: main (LifeCycle)   *)
(* calls yyjson_read_file (JsonFile), parses what was read (Parser), dumps *)
(* the cycles (Dump) and writes the document (JsonFile).  A call runs      *)
(* until it returns; main then takes its result and the variables of the   *)
(* call, which are locals, get their initial values back.  The two file    *)
(* functions are also called on their own, with the caller's file.         *)
(***************************************************************************)
EXTENDS LifeCycle, Integers

CONSTANTS
    WORD_SIZE, REG_LOG_FILE_SIZE, BYTE_SIZE, INT_SIZE, Files,       \* of Parser
    Snapshots, MAX_CYCLES, MAX_FAILURES,                            \* of Dump
    Lengths, Starts, SIZE_LIMIT, LONG_MAX, PADDING, CHUNK_MIN, CHUNK_MAX,   \* of JsonFile,
    Texts, Olds                                                     \* to read and to write

VARIABLES
    caller,     \* "main", or a caller of "read" or "write" with its own file
    called,     \* the call that runs: "none", "read", "parse", "dump" or "write"; between
                \* the first two, whether there is a "content"
    pFile, pPhase, pInstructions, pDocLive, pArrayLive, pResult,
    dSnapshots, dRoot, dStateObj, dQueueArray, dEntry, dPhase, dField, dIndex, dFailed, dFinished,
    rPc, rVia, rLength, rStart, rPos, rOpen, rFileSize, rBase, rBufSize, rBuf, rChunkNow, rGot,
        rBroken, rErr,
    wPc, wVia, wText, wValid, wDat, wOld, wWritten, wBuffered, wFile, wSuc, wErr

parserVars == <<pFile, pPhase, pInstructions, pDocLive, pArrayLive, pResult>>
dumpVars == <<dSnapshots, dRoot, dStateObj, dQueueArray, dEntry, dPhase, dField, dIndex, dFailed,
              dFinished>>
readVars == <<rPc, rVia, rLength, rStart, rPos, rOpen, rFileSize, rBase, rBufSize, rBuf, rChunkNow,
              rGot, rBroken, rErr>>
writeVars == <<wPc, wVia, wText, wValid, wDat, wOld, wWritten, wBuffered, wFile, wSuc, wErr>>

P == INSTANCE Parser WITH
    file <- pFile, phase <- pPhase, instructions <- pInstructions, doc_live <- pDocLive,
    array_live <- pArrayLive, result <- pResult
D == INSTANCE Dump WITH
    snapshots <- dSnapshots, root <- dRoot, state_obj <- dStateObj, queue_array <- dQueueArray,
    entry <- dEntry, phase <- dPhase, field <- dField, index <- dIndex, failed <- dFailed,
    finished <- dFinished
F == INSTANCE JsonFile WITH
    pc <- rPc, via <- rVia, length <- rLength, start <- rStart, pos <- rPos, open <- rOpen,
    file_size <- rFileSize, base <- rBase, buf_size <- rBufSize, buf <- rBuf,
    chunk_now <- rChunkNow, got <- rGot, broken <- rBroken, err <- rErr,
    at <- wPc, way <- wVia, text <- wText, valid <- wValid, dat <- wDat, old <- wOld,
    written <- wWritten, buffered <- wBuffered, out <- wFile, suc <- wSuc, why <- wErr

ASSUME MachineSizes == WORD_SIZE \in Nat \ {0} /\ REG_LOG_FILE_SIZE \in Nat \ {0}
ASSUME Widths == P!WidthsAssumption
ASSUME FileItems == P!FilesAssumption
ASSUME Bounds == D!BoundsAssumption
ASSUME Cycles == D!SnapshotsAssumption
ASSUME FileSizes == F!ReadFileAssumption
ASSUME TextSizes == F!WriteFileAssumption

-----------------------------------------------------------------------------
\* Files for Parser: four registers, bytes of 8 values, ints of 32 and words of 128,
\* numbers at and around every limit between them, every number in every position,
\* every kind of operand, and the ways in which a line is not an instruction.
Numbers == {-80, -33, -16, -1, 0, 3, 4, 9, 15, 16, 33, 63, 80}
RegText(n) == [is_reg |-> TRUE, num |-> n]
Line(name, d, a, b) ==
    [is_str |-> TRUE, fields |-> 4, name |-> name, dest |-> d, opA |-> a, opB |-> b]
Lines ==
    {Line("add", t, RegText(1), RegText(2)) : t \in [is_reg: BOOLEAN, num: Numbers]}
    \cup {Line("sub", RegText(1), t, RegText(2)) : t \in [is_reg: BOOLEAN, num: Numbers]}
    \cup {Line("addi", RegText(3), RegText(0), t) : t \in [is_reg: BOOLEAN, num: Numbers]}
    \cup {[Line("mulu", RegText(1), RegText(1), RegText(1)) EXCEPT !.fields = f] : f \in 0 .. 4}
    \cup {Line("div", RegText(1), RegText(1), RegText(1))}
    \cup {[Line("remu", RegText(1), RegText(1), RegText(1)) EXCEPT !.is_str = FALSE]}
MCFiles ==
    [loads: {TRUE}, is_arr: {TRUE}, items: {<< >>} \cup [1 .. 1 -> Lines] \cup [1 .. 2 -> Lines]]
    \cup [loads: {FALSE}, is_arr: {TRUE}, items: {<< >>}]
    \cup [loads: {TRUE}, is_arr: {FALSE}, items: {<< >>}]

\* Snapshots for Dump: queues of capacity 2, empty, partly filled, full, and wrapped
\* around the end of their array.
Q(data, head, count) == [data |-> data, head |-> head, count |-> count]
MCSnapshots ==
    { [FreeList |-> Q(<<"p2", "p3">>, 0, 2), ActiveList |-> Q(<<"a1", "a2">>, 0, 0),
       DecodedPCs |-> Q(<<"i1", "i2">>, 0, 2), IntegerQueue |-> Q(<<"q1", "q2">>, 0, 0)],
      [FreeList |-> Q(<<"p2", "p3">>, 1, 0), ActiveList |-> Q(<<"a1", "a2">>, 1, 2),
       DecodedPCs |-> Q(<<"i1", "i2">>, 1, 1), IntegerQueue |-> Q(<<"q1", "q2">>, 1, 1)] }

-----------------------------------------------------------------------------
\* The inputs of a call that does not run
NoFile == [loads |-> FALSE, is_arr |-> TRUE, items |-> << >>]
NoCycle == CHOOSE s \in Snapshots : TRUE
NoLength == CHOOSE n \in Lengths : TRUE
NoText == CHOOSE t \in Texts : TRUE
NoOld == CHOOSE o \in Olds : TRUE
ReadIdle == rVia = "path" /\ rLength = NoLength
WriteIdle == wVia = "path" /\ wText = NoText /\ wOld = NoOld /\ wValid

\* What a call begins with, which is also what its variables hold while it does not run
ParserLocals(f) ==
    /\ pFile' = f /\ pPhase' = "read" /\ pInstructions' = << >>
    /\ pDocLive' = FALSE /\ pArrayLive' = FALSE /\ pResult' = "none"
DumpLocals(s) ==
    /\ dSnapshots' = <<s>> /\ dRoot' = << >> /\ dStateObj' = << >> /\ dQueueArray' = << >>
    /\ dEntry' = << >> /\ dPhase' = "cycle" /\ dField' = 1 /\ dIndex' = 0 /\ dFailed' = 0
    /\ dFinished' = FALSE
ReadLocals(n) ==
    /\ rPc' = "start" /\ rVia' = "path" /\ rLength' = n /\ rStart' = 0 /\ rPos' = 0
    /\ rOpen' = FALSE /\ rFileSize' = 0 /\ rBase' = 0 /\ rBufSize' = 0 /\ rBuf' = "none"
    /\ rChunkNow' = CHUNK_MIN /\ rGot' = 0 /\ rBroken' = FALSE /\ rErr' = "none"
WriteLocals(t, v, o) ==
    /\ wPc' = "check" /\ wVia' = "path" /\ wText' = t /\ wValid' = v /\ wDat' = FALSE
    /\ wOld' = o /\ wWritten' = 0 /\ wBuffered' = 0 /\ wFile' = "none" /\ wSuc' = FALSE
    /\ wErr' = "none"

MCInit ==
    /\ Init
    /\ P!Init /\ pFile = NoFile
    /\ D!Init /\ dSnapshots = <<NoCycle>>
    /\ F!ReadInit /\ F!WriteInit
    /\ \/ caller = "main" /\ called = "none" /\ ReadIdle /\ WriteIdle
       \/ caller = "read" /\ called = "read" /\ rVia = "fp" /\ WriteIdle
       \/ caller = "write" /\ called = "write" /\ wVia = "fp" /\ ReadIdle

\* The steps of main that call nothing of the above
MainStep ==
    /\ caller = "main" /\ called = "none" /\ phase \notin {"parse", "run", "write"}
    /\ Next
    /\ UNCHANGED <<caller, called, parserVars, dumpVars, readVars, writeVars>>

\* parse_instructions calls yyjson_read_file, and then looks at what the file holds.
CallReadFile ==
    /\ caller = "main" /\ called = "none" /\ phase = "parse" /\ called' = "read"
    /\ \E n \in Lengths : ReadLocals(n)
    /\ UNCHANGED <<caller, vars, parserVars, dumpVars, writeVars>>
ReadStep ==
    /\ called = "read" /\ F!ReadNext
    /\ UNCHANGED <<caller, called, vars, parserVars, dumpVars, writeVars>>
ReadReturns ==
    /\ caller = "main" /\ called = "read" /\ rPc = "done"
    /\ called' = IF rErr = "none" THEN "content" ELSE "no content"
    /\ ReadLocals(NoLength)
    /\ UNCHANGED <<caller, vars, parserVars, dumpVars, writeVars>>
ParseWhatWasRead ==
    /\ called \in {"content", "no content"} /\ called' = "parse"
    /\ \E f \in Files : f.loads = (called = "content") /\ ParserLocals(f)
    /\ UNCHANGED <<caller, vars, dumpVars, readVars, writeVars>>
ParserStep ==
    /\ called = "parse" /\ P!Next
    /\ UNCHANGED <<caller, called, vars, dumpVars, readVars, writeVars>>
TakeProgram ==
    /\ called = "parse" /\ pPhase = "returned" /\ called' = "none"
    /\ ParseInstructions /\ (phase' = "calloc") = (pResult = "ERR_NONE")
    /\ ParserLocals(NoFile)
    /\ UNCHANGED <<caller, dumpVars, readVars, writeVars>>

CallRunSimulation ==
    /\ called = "none" /\ phase = "run" /\ called' = "dump"
    /\ \E s \in Snapshots : DumpLocals(s)
    /\ UNCHANGED <<caller, vars, parserVars, readVars, writeVars>>
DumpStep ==
    /\ called = "dump" /\ D!Next
    /\ UNCHANGED <<caller, called, vars, parserVars, readVars, writeVars>>
TakeDump ==
    /\ called = "dump" /\ dPhase = "returned" /\ called' = "none"
    /\ RunSimulation /\ DumpLocals(NoCycle)
    /\ UNCHANGED <<caller, parserVars, readVars, writeVars>>

\* The path is an argument of main, so it may be empty but not NULL; without a document
\* there is no text.
CallWriteFile ==
    /\ called = "none" /\ phase = "write" /\ called' = "write"
    /\ \E t \in Texts, v \in BOOLEAN, o \in Olds : WriteLocals(t, v, o)
    /\ UNCHANGED <<caller, vars, parserVars, dumpVars, readVars>>
WriteStep ==
    /\ called = "write" /\ F!WriteNext
    /\ caller = "main" /\ Single("doc") \notin ptr => ~wDat'
    /\ UNCHANGED <<caller, called, vars, parserVars, dumpVars, readVars>>
TakeWritten ==
    /\ caller = "main" /\ called = "write" /\ wPc = "returned" /\ called' = "none"
    /\ WriteFile /\ (err' = "ERR_NONE") = wSuc
    /\ WriteLocals(NoText, TRUE, NoOld)
    /\ UNCHANGED <<caller, parserVars, dumpVars, readVars>>

MCNext ==
    \/ MainStep
    \/ CallReadFile \/ ReadStep \/ ReadReturns \/ ParseWhatWasRead \/ ParserStep \/ TakeProgram
    \/ CallRunSimulation \/ DumpStep \/ TakeDump
    \/ CallWriteFile \/ WriteStep \/ TakeWritten

mcVars == <<caller, called, vars, parserVars, dumpVars, readVars, writeVars>>
MCSpec == MCInit /\ [][MCNext]_mcVars

-----------------------------------------------------------------------------
\* parse_instructions gives a whole program or nothing, and never keeps the document.
AllOrNothing == P!AllOrNothing

\* Numbers that fit an int survive parse_operand (atoi, reg_t, uint8_t, the union).
NumbersKept == P!NumbersKept

\* parse_instructions accepts every program all of whose lines have a form of the README.
WellFormedAccepted == P!WellFormedAccepted

\* The dump is a log of the cycles, every queue in full and oldest first (queue_get_json,
\* iq_get_json).
ShowsTheCycles == D!ShowsTheCycles

\* run_simulation ends before the program is done only when a call failed, and loses one
\* cycle at most.
EndsEarlyOnlyOnFailure == D!EndsEarlyOnlyOnFailure

\* The only member of a cycle that may be missing is the integer queue (iq_get_json).
CyclesAreComparable == D!CyclesAreComparable

\* Every failed call of yyjson in the dump costs one member at most.
LossesAreCounted == D!LossesAreCounted

\* yyjson_read_fp parses what it has read, all of the file when no call failed, with the
\* padding behind it in its block.
ParsesTheFile == F!ParsesTheFile

\* The chunks of a stream lie one behind the other in the block (yyjson_read_fp).
ChunksAdjoin == F!ChunksAdjoin

\* yyjson_read_file gives its block to the document or back, and closes what it opened.
ReadHoldsNothing == F!ReadHoldsNothing

\* write_dat_to_file and write_dat_to_fp say true only when all of the text is written.
TrueMeansWritten == F!TrueMeansWritten

\* yyjson_mut_write_file gives its block back and closes what it opened, whatever fails.
WriteHoldsNothing == F!WriteHoldsNothing


-----------------------------------------------------------------------------

\* Whatever fails, every function leaves what its caller counts on: a machine that is run
\* is complete, no field points to what was released, what remains at exit is known, and
\* the file functions hold no block and no file that they opened.
ResourcesReturned ==
    /\ NoDangling /\ RunsComplete /\ LeftAtExit
    /\ ReadHoldsNothing /\ WriteHoldsNothing

\* parse_instructions gives the program of the file, all of it with its numbers, to every
\* well-formed file, and otherwise nothing.
ParsesPrograms == AllOrNothing /\ NumbersKept /\ WellFormedAccepted

\* The dump of run_simulation is a log of the cycles from the first on; what is missing
\* in it is accounted for by failed calls of yyjson, one by one.
DumpIsLog ==
    /\ ShowsTheCycles /\ EndsEarlyOnlyOnFailure
    /\ CyclesAreComparable /\ LossesAreCounted

\* What is parsed is what the file holds, and a file said to be written holds the text
\* (yyjson_read_fp, write_dat_to_file).
FilesAreWhole == ParsesTheFile /\ ChunksAdjoin /\ TrueMeansWritten
=============================================================================
