--------------------------- MODULE ProgramProofs ---------------------------
(***************************************************************************)
(* The safety of the program around the simulation, proved for every value *)
(* of the constants of MCProgram: any number of ALUs, any input files, any *)
(* widths of words, ints and bytes, lengths of files and texts, sizes of   *)
(* chunks, queue capacities and contents, and numbers of cycles and of     *)
(* failing calls.  One part for main, one for each call, and one in which  *)
(* the calls and main make up the program.                                 *)
(***************************************************************************)
EXTENDS MCProgram, FiniteSetTheorems, TLAPS

-----------------------------------------------------------------------------
(***************************************************************************)
(* For every number of ALUs: no allocation failure makes the program       *)
(* release what is not allocated, and only a complete machine is run.      *)
(***************************************************************************)

\* The inductive invariant: what is not NULL is allocated, so that a release is
\* always one of an allocated object.
Owned == NoDangling /\ NoInvalidFree

\* A release that clears the fields of what it releases keeps the invariant.
LEMMA ReleaseOwned ==
    ASSUME Owned, NEW S, Release(S, S)
    PROVE  Owned'
  BY DEF Owned, NoDangling, NoInvalidFree, Release

\* An allocation adds to both what is allocated and what is pointed to.
LEMMA AllocateOwned ==
    ASSUME Owned, NEW o, Allocate(o)
    PROVE  Owned'
  BY DEF Owned, NoDangling, NoInvalidFree, Allocate

\* So does a step that neither allocates nor releases.
LEMMA NoAllocationOwned ==
    ASSUME Owned, NoAllocation
    PROVE  Owned'
  BY DEF Owned, NoDangling, NoInvalidFree, NoAllocation

\* Every step of main keeps it.
LEMMA OwnedKept ==
    ASSUME Owned, [Next]_vars
    PROVE  Owned'
<1>1. CASE CheckArgs
  BY <1>1, NoAllocationOwned DEF CheckArgs
<1>2. CASE ParseInstructions
  BY <1>2, NoAllocationOwned, AllocateOwned DEF ParseInstructions
<1>3. CASE AllocProcessor
  BY <1>3, NoAllocationOwned, AllocateOwned DEF AllocProcessor
<1>4. CASE InitStep
  BY <1>4, AllocateOwned, ReleaseOwned DEF InitStep, OnAllocFailure
<1>5. CASE InitDone \/ RunSimulation \/ FreeFailed
  BY <1>5, NoAllocationOwned DEF InitDone, RunSimulation, FreeFailed
<1>6. CASE NewDoc
  BY <1>6, NoAllocationOwned, AllocateOwned DEF NewDoc
<1>7. CASE WriteFile
  BY <1>7, ReleaseOwned DEF WriteFile
<1>8. CASE FreeStep
  BY <1>8, ReleaseOwned DEF FreeStep
<1>9. CASE FreeDone
  BY <1>9, ReleaseOwned, NoAllocationOwned DEF FreeDone
<1>10. CASE Exited \/ UNCHANGED vars
  BY <1>10 DEF Exited, vars, Owned, NoDangling, NoInvalidFree
<1> QED
  BY <1>1, <1>2, <1>3, <1>4, <1>5, <1>6, <1>7, <1>8, <1>9, <1>10 DEF Next

\* Spec => []NoInvalidFree: no failing allocation leads to a second release of an
\* object, in main, free_processor or the free_ functions.
THEOREM NoInvalidFreeHolds == Spec => []NoInvalidFree
<1>1. Init => Owned
  BY DEF Init, Owned, NoDangling, NoInvalidFree
<1>2. Owned => NoInvalidFree
  BY DEF Owned
<1> QED
  BY <1>1, <1>2, OwnedKept, PTL DEF Spec

-----------------------------------------------------------------------------
\* The objects allocated so far are those before step.
Progress ==
    /\ step \in Nat \ {0}
    /\ phase \in {"args", "parse", "calloc", "init", "doc", "run", "write", "free", "exit"}
    /\ phase = "init" => /\ Single("processor") \in live \cap ptr
                         /\ step <= Len(Allocations) + 1
                         /\ \A k \in 1 .. step - 1 : Allocations[k] \in live \cap ptr
    /\ phase \in {"doc", "run"} => Machine \subseteq live \cap ptr

\* Two concatenated sequences have one index set again.
LEMMA ConcatSeq ==
    ASSUME NEW S, NEW s \in Seq(S), NEW t \in Seq(S)
    PROVE  s \o t \in Seq(S)
  OBVIOUS

\* Allocations is a finite sequence, of twelve, of two for each ALU, and of three.
LEMMA AllocationsLen == Len(Allocations) \in Nat /\ DOMAIN Allocations = 1 .. Len(Allocations)
<1> DEFINE O == {StateAllocations[k] : k \in 1 .. 12} \cup {StageAllocations[k] : k \in 1 .. 3}
                \cup {AluAllocations[k] : k \in 1 .. 2 * NUM_ALUS}
<1>1. StateAllocations \in Seq(O)
  <2>1. StateAllocations = [k \in 1 .. 12 |-> StateAllocations[k]]
    BY DEF StateAllocations
  <2> QED
    BY <2>1
<1>2. AluAllocations \in Seq(O)
  <2>1. 2 * NUM_ALUS \in Nat
    BY NumAlusAssumption
  <2>2. AluAllocations \in [1 .. 2 * NUM_ALUS -> O]
    BY DEF AluAllocations
  <2> QED
    BY <2>1, <2>2
<1>3. StageAllocations \in Seq(O)
  <2>1. StageAllocations = [k \in 1 .. 3 |-> StageAllocations[k]]
    BY DEF StageAllocations
  <2> QED
    BY <2>1
<1> HIDE DEF O
<1>4. Allocations \in Seq(O)
  BY <1>1, <1>2, <1>3, ConcatSeq DEF Allocations
<1> QED
  BY <1>4

\* Every step of main keeps it.
LEMMA ProgressKept ==
    ASSUME Progress, [Next]_vars
    PROVE  Progress'
<1>1. CASE Exited \/ UNCHANGED vars
  BY <1>1 DEF Exited, vars, Progress
<1>6. CASE CheckArgs
  BY <1>6 DEF CheckArgs, Progress, Exit, Goto
<1>10. CASE ParseInstructions
  BY <1>10 DEF ParseInstructions, Progress, Exit, Goto
<1>7. CASE RunSimulation \/ WriteFile
  BY <1>7 DEF RunSimulation, WriteFile, Progress, Goto, NoAllocation
<1>8. CASE FreeStep
  BY <1>8 DEF FreeStep, Progress
<1>9. CASE FreeFailed \/ FreeDone
  BY <1>9 DEF FreeFailed, FreeDone, Progress, Exit
<1>2. CASE AllocProcessor
  BY <1>2 DEF AllocProcessor, Progress, Exit, Goto, Allocate
<1>3. CASE InitStep
  <2>1. CASE Allocate(Allocations[step]) /\ step' = step + 1 /\ UNCHANGED <<phase, err, code>>
    <3>1. phase = "init" /\ step \in Nat \ {0} /\ step <= Len(Allocations)
      BY <1>3 DEF InitStep, Progress
    <3>2. ASSUME NEW k \in 1 .. step' - 1
          PROVE  Allocations[k] \in live' \cap ptr'
      <4>1. k = step \/ k \in 1 .. step - 1
        BY <2>1, <3>1
      <4> QED
        BY <2>1, <3>1, <4>1 DEF Allocate, Progress
    <3>3. Single("processor") \in live' \cap ptr'
      BY <2>1, <3>1 DEF Allocate, Progress
    <3>4. step' \in Nat \ {0} /\ step' <= Len(Allocations) + 1
      BY <2>1, <3>1, AllocationsLen
    <3> QED
      BY <2>1, <3>1, <3>2, <3>3, <3>4 DEF Progress
  <2>2. CASE Goto("free")
    BY <2>2 DEF Progress, Goto
  <2> QED
    BY <1>3, <2>1, <2>2 DEF InitStep
<1>4. CASE InitDone
  <2>1. Range(Allocations) \subseteq live \cap ptr
    BY <1>4, AllocationsLen DEF InitDone, Progress, Range
  <2>2. Machine \subseteq live \cap ptr
    BY <1>4, <2>1 DEF InitDone, Progress, Machine
  <2> QED
    BY <1>4, <2>2 DEF InitDone, Progress, Goto, NoAllocation
<1>5. CASE NewDoc
  BY <1>5 DEF NewDoc, Progress, Goto, Allocate
<1> QED
  BY <1>1, <1>2, <1>3, <1>4, <1>5, <1>6, <1>7, <1>8, <1>9, <1>10 DEF Next

\* Spec => []RunsComplete: run_simulation is only called when every allocation of
\* init_processor succeeded and nothing of the machine has been released.
THEOREM RunsCompleteHolds == Spec => []RunsComplete
<1>1. Init => Progress
  BY DEF Init, Progress
<1>2. Progress => RunsComplete
  BY DEF Progress, RunsComplete
<1> QED
  BY <1>1, <1>2, ProgressKept, PTL DEF Spec

-----------------------------------------------------------------------------
(***************************************************************************)
(* yyjson_read_file: what the code knows of the file, the block and what   *)
(* it holds, at every place of the code.                                   *)
(***************************************************************************)
ReadTypes ==
    /\ rPc \in {"start", "sized", "stream", "read", "parsed", "done"}
    /\ rVia \in {"path", "fp"}
    /\ rLength \in Lengths /\ rStart \in Nat /\ rPos \in Nat /\ rOpen \in BOOLEAN
    /\ rFileSize \in Int /\ rBase \in Int /\ rBufSize \in Nat /\ rGot \in Nat
    /\ rChunkNow \in 1 .. CHUNK_MAX /\ rBroken \in BOOLEAN

\* Before anything is read
Unread ==
    rPc \in {"start", "sized"} =>
        /\ rGot = 0 /\ rBuf = "none" /\ rErr = "none" /\ ~rBroken
        /\ rFileSize = rBase

\* The size that was found is that of the rest of the file, or none.
SizeIsKnown ==
    /\ rPc = "start" => rPos = rStart
    /\ rPc = "sized" /\ rBase > 0 => rBase = rLength - rStart

\* The stream has filled its block but for the padding, and counts on from the base.
StreamFills ==
    rPc = "stream" =>
        /\ rErr = "none" /\ rBase <= 0
        /\ rBufSize = PADDING + rGot /\ rBufSize <= LONG_MAX
        /\ rFileSize = rBase + rGot

\* What is parsed
ReadIsWhole ==
    rPc = "read" /\ rErr = "none" =>
        /\ rGot + PADDING <= rBufSize
        /\ rBase <= 0 => rFileSize = rBase + rGot
        /\ rBase > 0 => rFileSize = rGot /\ rBase = rGot /\ rStart + rGot = rLength

\* The block and the file
ReadOwns ==
    /\ rPc \in {"read", "parsed", "done"} /\ rErr # "none" => rBuf = "none"
    /\ rPc \in {"parsed", "done"} /\ rErr = "none" => rBuf = "doc"
    /\ rVia = "fp" => rOpen
    /\ rPc = "done" /\ rVia = "path" => ~rOpen

ReadInv == ReadTypes /\ Unread /\ SizeIsKnown /\ StreamFills /\ ReadIsWhole /\ ReadOwns

\* fread adds no more bytes than it is asked for.
LEMMA FreadEffect ==
    ASSUME NEW n \in Nat, ReadTypes, F!Fread(n)
    PROVE  /\ rGot' \in Nat /\ rPos' \in Nat /\ rBroken' \in BOOLEAN
           /\ \E k \in Nat : k <= n /\ rGot' = rGot + k
<1>1. PICK k \in 0 .. F!There(n) : rGot' = rGot + k /\ rPos' = rPos + k
                                   /\ rBroken' = (rBroken \/ k < F!There(n))
  BY DEF F!Fread
<1>2. F!There(n) \in Nat /\ F!There(n) <= n
  BY FileSizes DEF F!There, F!LesserOf, ReadTypes, F!ReadFileAssumption
<1> QED
  BY <1>1, <1>2 DEF ReadTypes

\* When the test for overflow passes, the sum of the sizes has not wrapped around.
LEMMA GrownIs ==
    ASSUME ReadInv, rPc = "stream", ~(F!Grown < rBufSize)
    PROVE  F!Grown = rBufSize + rChunkNow
<1>1. rBufSize \in 0 .. SIZE_LIMIT - 1 /\ rChunkNow \in 0 .. SIZE_LIMIT - 1 /\ rChunkNow > 0
      /\ SIZE_LIMIT \in Nat
  BY FileSizes DEF ReadInv, ReadTypes, StreamFills, F!ReadFileAssumption
<1>2. \A x, y \in Int, m \in Nat : 
         x \in 0 .. m - 1 /\ y \in 0 .. m - 1 => (x + y) % m = IF x + y < m THEN x + y ELSE x + y - m
  OBVIOUS
<1> QED
  BY <1>1, <1>2 DEF F!Grown

\* Every step of yyjson_read_file keeps ReadInv.
LEMMA ReadKept ==
    ASSUME ReadInv, F!ReadNext
    PROVE  ReadInv'
<1> USE DEF ReadInv
<1>1. CASE F!Open
  BY <1>1, FileSizes DEF F!Open, F!given, ReadTypes, Unread, SizeIsKnown, StreamFills, ReadIsWhole, ReadOwns
<1>2. CASE F!FindSize
  BY <1>2, FileSizes DEF F!FindSize, F!SizeTold, F!given, ReadTypes, Unread, SizeIsKnown, StreamFills, ReadIsWhole,
     ReadOwns, F!ReadFileAssumption
<1>3. CASE F!ReadWhole
  <2>1. /\ rPc = "sized" /\ rFileSize > 0 /\ rBuf = "none"
        /\ UNCHANGED <<rVia, rLength, rStart, rOpen, rFileSize, rBase, rChunkNow>>
    BY <1>3 DEF F!ReadWhole, F!given
  <2>2. CASE F!Failed("MEMORY_ALLOCATION") /\ UNCHANGED <<rPos, rGot, rBroken, rBufSize>>
    BY <2>1, <2>2 DEF F!Failed, ReadTypes, Unread, SizeIsKnown, StreamFills, ReadIsWhole, ReadOwns
  <2>3. CASE /\ rBufSize' = rFileSize + PADDING
             /\ F!Fread(rFileSize)
             /\ IF F!ReadInFull THEN rPc' = "read" /\ rBuf' = "block" /\ rErr' = rErr
                ELSE F!Failed("FILE_READ")
    <3>1. rGot' \in Nat /\ rPos' \in Nat /\ rBroken' \in BOOLEAN /\ rBufSize' \in Nat
      BY <2>1, <2>3, FreadEffect, FileSizes DEF ReadTypes, F!ReadFileAssumption
    <3>2. rPc' = "read"
      BY <2>3 DEF F!Failed
    <3>3. CASE F!ReadInFull
      <4>1. rGot' = rFileSize /\ rBuf' = "block" /\ rErr' = "none" /\ rBase > 0
        BY <2>1, <2>3, <3>3 DEF F!ReadInFull, Unread
      <4>2. rStart + rGot' = rLength
        BY <2>1, <4>1, FileSizes DEF Unread, SizeIsKnown, ReadTypes, F!ReadFileAssumption
      <4> QED
        BY <2>1, <2>3, <3>1, <3>2, <4>1, <4>2, FileSizes
        DEF ReadTypes, Unread, SizeIsKnown, StreamFills, ReadIsWhole, ReadOwns, F!ReadFileAssumption
    <3>4. CASE F!Failed("FILE_READ")
      BY <2>1, <2>3, <3>1, <3>4
      DEF F!Failed, ReadTypes, Unread, SizeIsKnown, StreamFills, ReadIsWhole, ReadOwns
    <3> QED
      BY <2>3, <3>3, <3>4
  <2> QED
    BY <1>3, <2>2, <2>3 DEF F!ReadWhole
<1>4. CASE F!BeginStream
  BY <1>4, FileSizes DEF F!BeginStream, F!given, ReadTypes, Unread, SizeIsKnown, StreamFills, ReadIsWhole,
     ReadOwns, F!ReadFileAssumption
<1>5. CASE F!ReadChunk
  <2>1. rPc = "stream" /\ UNCHANGED <<rVia, rLength, rStart, rOpen, rBase>>
    BY <1>5 DEF F!ReadChunk, F!given
  <2>2. F!Grown \in Nat
    BY FileSizes DEF F!Grown, F!ReadFileAssumption, ReadTypes
  <2>3. CASE /\ F!Failed("MEMORY_ALLOCATION") /\ rBufSize' \in Nat
             /\ UNCHANGED <<rPos, rGot, rBroken, rFileSize, rChunkNow>>
    BY <2>1, <2>3 DEF F!Failed, ReadTypes, Unread, SizeIsKnown, StreamFills, ReadIsWhole, ReadOwns
  <2>4. CASE /\ ~(F!Grown < rBufSize) /\ F!Grown <= LONG_MAX
             /\ rBufSize' = F!Grown /\ rBuf' = "block" /\ rErr' = rErr
             /\ F!Fread(rChunkNow)
             /\ rFileSize' = rFileSize + (rGot' - rGot)
             /\ IF rGot' - rGot # rChunkNow THEN rPc' = "read" /\ UNCHANGED rChunkNow
                ELSE rPc' = "stream" /\ rChunkNow' = F!NextChunk
    <3>0. rBuf' = "block" /\ rErr' = rErr /\ rFileSize' = rFileSize + (rGot' - rGot)
      BY <2>4
    <3>1. rBufSize' = rBufSize + rChunkNow /\ rBufSize' <= LONG_MAX /\ rBufSize' \in Nat
      BY <2>1, <2>2, <2>4, GrownIs
    <3>2. rGot' \in Nat /\ rPos' \in Nat /\ rBroken' \in BOOLEAN
      BY <2>4, FreadEffect DEF ReadTypes
    <3> PICK more \in Nat : more <= rChunkNow /\ rGot' = rGot + more
      BY <2>4, FreadEffect DEF ReadTypes
    <3>3. rChunkNow' \in 1 .. CHUNK_MAX
      BY <2>4, FileSizes DEF F!NextChunk, F!LesserOf, ReadTypes, F!ReadFileAssumption
    <3>4. ReadTypes'
      <4>1. rPc' \in {"read", "stream"}
        BY <2>4
      <4> QED
        BY <2>1, <3>0, <3>1, <3>2, <3>3, <4>1 DEF ReadTypes
    <3>5. /\ rErr' = "none" /\ rBase <= 0 /\ rFileSize' = rBase' + rGot'
          /\ rBufSize = PADDING + rGot
      BY <2>1, <2>4, <3>2 DEF StreamFills, ReadTypes
    <3>6. PADDING \in Nat
      BY FileSizes DEF F!ReadFileAssumption
    <3>7. rGot' + PADDING <= rBufSize' /\ (rGot' - rGot = rChunkNow => rBufSize' = PADDING + rGot')
      <4>1. rGot \in Nat /\ rChunkNow \in Nat
        BY DEF ReadTypes
      <4>2. rGot' + PADDING = PADDING + rGot + more /\ rGot' - rGot = more
        BY <4>1, <3>6
      <4>3. rBufSize' = PADDING + rGot + rChunkNow
        BY <3>1, <3>5
      <4> QED
        BY <3>2, <3>6, <4>1, <4>2, <4>3
    <3>8. rBuf' = "block" /\ rVia = rVia' /\ rOpen' = rOpen /\ rBase' = rBase
      BY <2>1, <3>0
    <3>9. CASE rPc' = "read"
      <4>1. (Unread /\ SizeIsKnown /\ StreamFills /\ ReadOwns)'
        BY <3>5, <3>8, <3>9 DEF Unread, SizeIsKnown, StreamFills, ReadOwns
      <4>2. ReadIsWhole'
        <5>1. rGot' + PADDING <= rBufSize' /\ rFileSize' = rBase' + rGot' /\ rBase' <= 0
          BY <3>5, <3>7, <3>8
        <5>2. ~(rBase' > 0)
          BY <3>4, <5>1 DEF ReadTypes
        <5> QED
          BY <5>1, <5>2 DEF ReadIsWhole
      <4> QED
        BY <3>4, <4>1, <4>2
    <3>10. CASE rPc' = "stream" /\ rGot' - rGot = rChunkNow
      <4>1. (Unread /\ SizeIsKnown /\ ReadIsWhole /\ ReadOwns)'
        BY <3>5, <3>8, <3>10 DEF Unread, SizeIsKnown, ReadIsWhole, ReadOwns
      <4>2. StreamFills'
        BY <3>1, <3>5, <3>7, <3>8, <3>10 DEF StreamFills
      <4> QED
        BY <3>4, <4>1, <4>2
    <3> QED
      BY <2>4, <3>9, <3>10
  <2> QED
    BY <1>5, <2>2, <2>3, <2>4 DEF F!ReadChunk, ReadTypes
<1>6. CASE F!Parse
  BY <1>6 DEF F!Parse, F!given, ReadTypes, Unread, SizeIsKnown, StreamFills, ReadIsWhole, ReadOwns
<1>7. CASE F!Return
  BY <1>7 DEF F!Return, F!given, ReadTypes, Unread, SizeIsKnown, StreamFills, ReadIsWhole, ReadOwns
<1>8. CASE F!Finished
  BY <1>8 DEF F!Finished, F!readVars, ReadTypes, Unread, SizeIsKnown, StreamFills, ReadIsWhole, ReadOwns
<1> QED
  BY <1>1, <1>2, <1>3, <1>4, <1>5, <1>6, <1>7, <1>8 DEF F!ReadNext

-----------------------------------------------------------------------------
(***************************************************************************)
(* yyjson_mut_write_file and its relatives: nothing is said before the     *)
(* text is in the file, and then what happened.                            *)
(***************************************************************************)
WriteTypes ==
    /\ wPc \in {"check", "write", "open", "fwrite", "close", "free", "returned"}
    /\ wVia \in {"path", "fp"} /\ wFile \in {"none", "open", "caller"}
    /\ wText \in Nat /\ wWritten \in Nat /\ wBuffered \in Nat
    /\ wValid \in BOOLEAN /\ wDat \in BOOLEAN /\ wSuc \in BOOLEAN

\* Who opened the file, and while it is open
FileIs ==
    /\ (wFile = "caller") = (wVia = "fp" /\ wValid)
    /\ wFile = "open" => wPc \in {"fwrite", "close"} /\ wVia = "path"
    /\ wPc \in {"open", "close"} => wVia = "path"

\* Nothing has failed and nothing has been said before the text is in the file.
BeforeTheEnd ==
    /\ wPc \in {"check", "write"} => ~wDat
    /\ wPc \in {"check", "write", "open", "fwrite", "close"} => ~wSuc /\ wErr = "none"
    /\ wPc \in {"fwrite", "close"} /\ wVia = "path" => wOld = 0
    /\ wPc = "close" => wWritten = wText /\ wBuffered <= wWritten

\* What is said then
AtTheEnd ==
    /\ wPc \in {"free", "returned"} =>
          /\ wSuc = (wErr = "none")
          /\ wSuc => wWritten = wText /\ (wVia = "path" => wBuffered = 0 /\ wOld = 0)
    /\ wPc = "returned" => ~wDat

WriteInv == WriteTypes /\ FileIs /\ BeforeTheEnd /\ AtTheEnd

\* Every step of the functions that write a file keeps WriteInv.
LEMMA WriteKept ==
    ASSUME WriteInv, F!WriteNext
    PROVE  WriteInv'
<1>1. CASE F!Check
  <2>1. WriteTypes'
    BY <1>1 DEF F!Check, F!Goto, WriteInv, WriteTypes
  <2>2. FileIs'
    BY <1>1 DEF F!Check, F!Goto, WriteInv, FileIs
  <2>3. BeforeTheEnd' /\ AtTheEnd'
    BY <1>1 DEF F!Check, F!Goto, WriteInv, WriteTypes, BeforeTheEnd, AtTheEnd
  <2> QED
    BY <2>1, <2>2, <2>3 DEF WriteInv
<1>2. CASE F!WriteText
  <2>1. WriteTypes'
    BY <1>2 DEF F!WriteText, F!Goto, WriteInv, WriteTypes
  <2>2. FileIs'
    BY <1>2 DEF F!WriteText, F!Goto, WriteInv, FileIs, WriteTypes
  <2>3. BeforeTheEnd'
    BY <1>2 DEF F!WriteText, F!Goto, WriteInv, WriteTypes, BeforeTheEnd, FileIs
  <2>4. AtTheEnd'
    BY <1>2 DEF F!WriteText, F!Goto, WriteInv, WriteTypes, BeforeTheEnd, AtTheEnd
  <2> QED
    BY <2>1, <2>2, <2>3, <2>4 DEF WriteInv
<1>3. CASE F!OpenToWrite
  <2>1. WriteTypes'
    BY <1>3 DEF F!OpenToWrite, F!Goto, WriteInv, WriteTypes
  <2>2. FileIs'
    BY <1>3 DEF F!OpenToWrite, F!Goto, WriteInv, FileIs, WriteTypes
  <2>3. BeforeTheEnd'
    BY <1>3 DEF F!OpenToWrite, F!Goto, WriteInv, WriteTypes, BeforeTheEnd, FileIs
  <2>4. AtTheEnd'
    BY <1>3 DEF F!OpenToWrite, F!Goto, WriteInv, WriteTypes, BeforeTheEnd, AtTheEnd
  <2> QED
    BY <2>1, <2>2, <2>3, <2>4 DEF WriteInv
<1>4. CASE F!Fwrite
  <2>1. PICK k \in 0 .. wText, b \in 0 .. wText :
          /\ b <= k /\ wWritten' = k /\ wBuffered' = b
          /\ IF k = wText
             THEN IF wVia = "path" THEN wPc' = "close" /\ UNCHANGED <<wSuc, wErr, wFile>>
                  ELSE wPc' = "free" /\ wSuc' = TRUE /\ UNCHANGED <<wErr, wFile>>
             ELSE wPc' = "free" /\ wErr' = "FILE_WRITE" /\ wFile' = F!CloseOnError(wFile)
                     /\ UNCHANGED wSuc
    BY <1>4 DEF F!Fwrite, F!Goto
  <2>2. wPc = "fwrite" /\ UNCHANGED <<wVia, wText, wValid, wDat, wOld>>
    BY <1>4 DEF F!Fwrite
  <2>3. wWritten' \in Nat /\ wBuffered' \in Nat
    BY <2>1 DEF WriteInv, WriteTypes
  <2>4. wSuc = FALSE /\ wErr = "none" /\ (wVia = "path" => wOld = 0)
    BY <2>2 DEF WriteInv, BeforeTheEnd, WriteTypes
  <2>5. CASE k = wText /\ wVia = "path"
    <3>1. wPc' = "close" /\ UNCHANGED <<wSuc, wErr, wFile>>
      BY <2>1, <2>5
    <3>2. WriteTypes' /\ FileIs'
      BY <2>2, <2>3, <2>5, <3>1 DEF WriteInv, WriteTypes, FileIs
    <3>3. BeforeTheEnd' /\ AtTheEnd'
      BY <2>1, <2>2, <2>4, <2>5, <3>1 DEF BeforeTheEnd, AtTheEnd
    <3> QED
      BY <3>2, <3>3 DEF WriteInv
  <2>6. CASE k = wText /\ wVia = "fp"
    <3>1. wPc' = "free" /\ wSuc' = TRUE /\ UNCHANGED <<wErr, wFile>>
      BY <2>1, <2>6
    <3>2. WriteTypes' /\ FileIs'
      <4>1. wPc' \in {"check", "write", "open", "fwrite", "close", "free", "returned"} /\ wSuc' \in BOOLEAN
        BY <3>1
      <4>2. WriteTypes'
        BY <2>2, <2>3, <3>1, <4>1 DEF WriteInv, WriteTypes
      <4>3. FileIs'
        BY <2>2, <2>6, <3>1 DEF WriteInv, FileIs
      <4> QED
        BY <4>2, <4>3
    <3>3. BeforeTheEnd' /\ AtTheEnd'
      BY <2>1, <2>2, <2>4, <2>6, <3>1 DEF BeforeTheEnd, AtTheEnd
    <3> QED
      BY <3>2, <3>3 DEF WriteInv
  <2>7. CASE k # wText
    <3>1. wPc' = "free" /\ wErr' = "FILE_WRITE" /\ wSuc' = wSuc
          /\ wFile' = IF wFile = "open" THEN "none" ELSE wFile
      BY <2>1, <2>7 DEF F!CloseOnError
    <3>2. WriteTypes' /\ FileIs'
      BY <2>2, <2>3, <3>1 DEF WriteInv, WriteTypes, FileIs
    <3>3. BeforeTheEnd' /\ AtTheEnd'
      BY <2>2, <2>4, <3>1 DEF BeforeTheEnd, AtTheEnd
    <3> QED
      BY <3>2, <3>3 DEF WriteInv
  <2> QED
    BY <2>5, <2>6, <2>7 DEF WriteInv, WriteTypes
<1>5. CASE F!Close
  <2>1. PICK lost \in 0 .. wBuffered :
           /\ wWritten' = wWritten - lost
           /\ IF lost > 0 THEN wErr' = "FILE_WRITE" /\ UNCHANGED wSuc
              ELSE wSuc' = TRUE /\ UNCHANGED wErr
    BY <1>5 DEF F!Close, F!CloseFails
  <2>2. /\ wPc = "close" /\ wPc' = "free" /\ wBuffered' = 0 /\ wFile' = "none"
        /\ UNCHANGED <<wVia, wText, wValid, wDat, wOld>>
    BY <1>5 DEF F!Close, F!Goto
  <2>3. wWritten' \in Nat
    BY <2>1, <2>2 DEF WriteInv, WriteTypes, BeforeTheEnd
  <2>4. WriteTypes'
    BY <2>1, <2>2, <2>3 DEF WriteInv, WriteTypes
  <2>5. FileIs' /\ BeforeTheEnd'
    BY <2>2 DEF WriteInv, FileIs, WriteTypes, BeforeTheEnd
  <2>6. AtTheEnd'
    <3>1. wSuc = FALSE /\ wErr = "none" /\ wOld = 0 /\ wWritten = wText /\ wWritten \in Nat
      BY <2>2 DEF WriteInv, BeforeTheEnd, FileIs, WriteTypes
    <3>2. CASE lost > 0
      <4>1. wErr' = "FILE_WRITE" /\ wSuc' = FALSE
        BY <2>1, <3>1, <3>2
      <4> QED
        BY <2>2, <4>1 DEF AtTheEnd
    <3>3. CASE lost = 0
      <4>1. wErr' = "none" /\ wSuc' = TRUE /\ wWritten' = wText
        BY <2>1, <3>1, <3>3 DEF WriteInv, WriteTypes
      <4> QED
        BY <2>2, <3>1, <4>1 DEF AtTheEnd
    <3> QED
      BY <3>2, <3>3 DEF WriteInv, WriteTypes
  <2> QED
    BY <2>4, <2>5, <2>6 DEF WriteInv
<1>6. CASE F!Free
  <2>1. WriteTypes' /\ FileIs'
    BY <1>6 DEF F!Free, F!Goto, WriteInv, WriteTypes, FileIs
  <2>2. BeforeTheEnd'
    BY <1>6 DEF F!Free, F!Goto, WriteInv, WriteTypes, BeforeTheEnd
  <2>3. AtTheEnd'
    BY <1>6 DEF F!Free, F!Goto, WriteInv, WriteTypes, AtTheEnd
  <2> QED
    BY <2>1, <2>2, <2>3 DEF WriteInv
<1>7. CASE F!Returned
  BY <1>7 DEF F!Returned, F!writeVars, WriteInv, WriteTypes, FileIs, BeforeTheEnd, AtTheEnd
<1> QED
  BY <1>1, <1>2, <1>3, <1>4, <1>5, <1>6, <1>7 DEF F!WriteNext

-----------------------------------------------------------------------------
\* A number of which the modulus is known
LEMMA ModSmall ==
    \A m \in Nat : \A a \in 0 .. m - 1 : a % m = a
  OBVIOUS

\* The same of a negative one
LEMMA ModNegative ==
    \A m \in Nat : \A a \in -m .. -1 : a % m = a + m
  OBVIOUS

\* atoi and the cast to reg_t keep a number that fits an int.
LEMMA FitsWord ==
    ASSUME NEW n \in Int, P!FitsInt(n)
    PROVE  P!Atoi(n) = n /\ P!AsWord(n) = IF n >= 0 THEN n ELSE n + WORD_SIZE
<1> USE MachineSizes, Widths DEF P!WidthsAssumption
<1>1. /\ INT_SIZE \in Nat /\ WORD_SIZE \in Nat /\ INT_SIZE < WORD_SIZE
      /\ 2 * n >= -INT_SIZE /\ 2 * n < INT_SIZE
  BY DEF P!FitsInt
<1>2. P!Saturated(n) = n
  <2>1. 2 * (WORD_SIZE \div 2) >= WORD_SIZE - 1 /\ WORD_SIZE \div 2 \in Nat
    BY <1>1
  <2> DEFINE half == WORD_SIZE \div 2
  <2> HIDE DEF half
  <2>2. half \in Nat /\ 2 * half >= INT_SIZE
    BY <1>1, <2>1 DEF half
  <2>3. P!Saturated(n) = IF n > half - 1 THEN half - 1 ELSE IF n < -half THEN -half ELSE n
    BY DEF P!Saturated, half
  <2> QED
    BY <1>1, <2>2, <2>3
<1>3. CASE n >= 0
  <2>1. n % INT_SIZE = n /\ n % WORD_SIZE = n
    BY <1>1, <1>3, ModSmall
  <2> QED
    BY <1>1, <1>2, <1>3, <2>1 DEF P!Atoi, P!AsWord
<1>4. CASE n < 0
  <2>1. n \in -INT_SIZE .. -1 /\ n \in -WORD_SIZE .. -1
    BY <1>1, <1>4
  <2>2. n % INT_SIZE = n + INT_SIZE
    BY <1>1, <2>1, ModNegative
  <2>3. n % WORD_SIZE = n + WORD_SIZE
    BY <1>1, <2>1, ModNegative
  <2> QED
    BY <1>1, <1>2, <1>4, <2>2, <2>3 DEF P!Atoi, P!AsWord
<1> QED
  BY <1>3, <1>4

\* Whatever the number, the result is a word.
LEMMA AtoiType ==
    ASSUME NEW n \in Int
    PROVE  P!AsWord(P!Atoi(n)) \in P!Word
  BY MachineSizes, Widths DEF P!WidthsAssumption, P!Atoi, P!AsWord, P!Saturated, P!Word

\* parse_operand, when it succeeds, keeps a number that fits an int, and for a
\* register the uint8_t of the union holds all of it.
LEMMA OperandKeeps ==
    ASSUME NEW text \in P!OperandText, P!ParseOperandResult(text) = "ERR_NONE"
    PROVE  P!Keeps(P!ParsedOperand(text), text)
<1> USE MachineSizes, Widths DEF P!WidthsAssumption
<1> DEFINE n == text.num
<1> SUFFICES ASSUME P!FitsInt(n)
             PROVE  IF text.is_reg
                    THEN /\ P!ParsedOperand(text).type = "reg"
                         /\ P!LogId(P!ParsedOperand(text)) = n /\ n \in P!LogReg
                    ELSE P!ParsedOperand(text).type = "imm" /\ P!Imm(P!ParsedOperand(text)) = n
  BY DEF P!Keeps
<1>1. n \in Int /\ text.is_reg \in BOOLEAN
  BY DEF P!OperandText
<1>2. P!Atoi(n) = n /\ P!AsWord(n) = IF n >= 0 THEN n ELSE n + WORD_SIZE
  BY <1>1, FitsWord
<1>3. 2 * n >= -INT_SIZE /\ 2 * n < INT_SIZE
  BY DEF P!FitsInt
<1>4. CASE text.is_reg
  <2>1. P!AsWord(n) < REG_LOG_FILE_SIZE
    BY <1>1, <1>2, <1>4 DEF P!ParseOperandResult, P!InvalidLogReg
  <2>2. n >= 0
    BY <1>1, <1>2, <1>3, <2>1
  <2>3. P!ParsedOperand(text) = [type |-> "reg", low |-> n % BYTE_SIZE]
    BY <1>2, <1>4, <2>2 DEF P!ParsedOperand
  <2>4. n % BYTE_SIZE = n
    BY <1>1, <1>2, <2>1, <2>2, ModSmall
  <2> QED
    BY <1>1, <1>2, <1>4, <2>1, <2>2, <2>3, <2>4 DEF P!LogId, P!LogReg
<1>5. CASE ~text.is_reg
  <2>1. P!ParsedOperand(text) = [type |-> "imm", low |-> P!AsWord(n)]
    BY <1>2, <1>5 DEF P!ParsedOperand
  <2> QED
    BY <1>1, <1>2, <1>3, <1>5, <2>1 DEF P!Imm, P!ToSigned
<1> QED
  BY <1>4, <1>5

\* The first error of a line is there exactly when the line has one.
LEMMA FirstError ==
    ASSUME NEW item
    PROVE  P!ParseResult(item) = "ERR_NONE" <=>
             /\ item.fields = 4 /\ item.name \in P!RegOps \cup P!ImmOps
             /\ P!ParseOperandResult(item.dest) = "ERR_NONE"
             /\ P!ParseOperandResult(item.opA) = "ERR_NONE"
             /\ P!ParseOperandResult(item.opB) = "ERR_NONE"
<1> DEFINE r == << IF item.fields = 4 THEN "ERR_NONE" ELSE "ERR_INVALID_FORMAT",
                   IF item.name \in P!RegOps \cup P!ImmOps THEN "ERR_NONE" ELSE "ERR_INVALID_NAME",
                   P!ParseOperandResult(item.dest),
                   P!ParseOperandResult(item.opA),
                   P!ParseOperandResult(item.opB) >>
           E == {k \in DOMAIN r : r[k] # "ERR_NONE"}
<1>1. P!ParseResult(item) = IF E = {} THEN "ERR_NONE" ELSE r[CHOOSE k \in E : \A j \in E : k <= j]
  BY DEF P!ParseResult
<1>2. DOMAIN r = 1 .. 5
  OBVIOUS
<1>3. /\ r[1] = "ERR_NONE" <=> item.fields = 4
      /\ r[2] = "ERR_NONE" <=> item.name \in P!RegOps \cup P!ImmOps
      /\ r[3] = P!ParseOperandResult(item.dest)
      /\ r[4] = P!ParseOperandResult(item.opA)
      /\ r[5] = P!ParseOperandResult(item.opB)
  OBVIOUS
<1> HIDE DEF r
<1>4. CASE E = {}
  BY <1>1, <1>2, <1>3, <1>4
<1>5. CASE E # {}
  <2>1. \E k \in E : \A j \in E : k <= j
    <3>1. E \subseteq {1, 2, 3, 4, 5}
      BY <1>2
    <3> HIDE DEF E
    <3>2. CASE 1 \in E
      BY <3>1, <3>2
    <3>3. CASE 1 \notin E /\ 2 \in E
      BY <3>1, <3>3
    <3>4. CASE 1 \notin E /\ 2 \notin E /\ 3 \in E
      BY <3>1, <3>4
    <3>5. CASE 1 \notin E /\ 2 \notin E /\ 3 \notin E
      <4>1. E \subseteq {4, 5} /\ (4 \in E \/ E = {5})
        BY <1>5, <3>1, <3>5
      <4> QED
        BY <4>1
    <3> QED
      BY <3>2, <3>3, <3>4, <3>5
  <2>2. (CHOOSE k \in E : \A j \in E : k <= j) \in E
    BY <2>1
  <2>3. P!ParseResult(item) # "ERR_NONE"
    BY <1>1, <1>5, <2>2
  <2>4. PICK k \in 1 .. 5 : r[k] # "ERR_NONE"
    BY <1>2, <1>5
  <2> QED
    BY <1>3, <2>3, <2>4
<1> QED
  BY <1>4, <1>5

\* A line of one of the forms of the README has no error and gives an instruction.
LEMMA WellFormedParses ==
    ASSUME NEW item \in P!Item, P!WellFormed(item)
    PROVE  /\ item.is_str /\ P!ParseResult(item) = "ERR_NONE"
           /\ \A i : P!AsInstruction(P!ParsedInstruction(item, i)) \in P!AnyInstruction
<1> USE MachineSizes, Widths DEF P!WidthsAssumption
<1> DEFINE Number(text) == /\ text \in P!OperandText /\ P!FitsInt(text.num)
                           /\ text.is_reg => text.num \in P!LogReg
<1>1. /\ item.dest \in P!OperandText /\ item.opA \in P!OperandText /\ item.opB \in P!OperandText
      /\ item.is_str /\ item.fields = 4 /\ item.name \in P!RegOps \cup P!ImmOps
      /\ P!IsReg(item.dest) /\ P!IsReg(item.opA)
      /\ IF item.name \in P!ImmOps THEN ~item.opB.is_reg /\ P!FitsInt(item.opB.num)
         ELSE P!IsReg(item.opB)
  BY DEF P!Item, P!WellFormed
<1>2. ASSUME NEW text \in P!OperandText, P!IsReg(text)
      PROVE  /\ P!FitsInt(text.num) /\ P!ParseOperandResult(text) = "ERR_NONE"
             /\ P!LogId(P!ParsedOperand(text)) \in P!LogReg
  <2>1. /\ text.num \in 0 .. REG_LOG_FILE_SIZE - 1 /\ text.is_reg
        /\ INT_SIZE \in Nat /\ REG_LOG_FILE_SIZE \in Nat
        /\ 2 * REG_LOG_FILE_SIZE < INT_SIZE
    BY <1>2 DEF P!IsReg, P!LogReg
  <2>2. P!FitsInt(text.num)
    BY <2>1 DEF P!FitsInt
  <2>3. P!AsWord(P!Atoi(text.num)) = text.num
    BY <2>1, <2>2, FitsWord
  <2>4. P!ParseOperandResult(text) = "ERR_NONE"
    BY <2>1, <2>3 DEF P!ParseOperandResult, P!InvalidLogReg
  <2>5. P!LogId(P!ParsedOperand(text)) = text.num
    BY <2>1, <2>2, <2>4, OperandKeeps DEF P!Keeps
  <2> QED
    BY <2>1, <2>2, <2>4, <2>5 DEF P!LogReg
<1>3. P!ParseOperandResult(item.opB) = "ERR_NONE"
  <2>1. CASE item.name \in P!ImmOps
    BY <1>1, <2>1 DEF P!ParseOperandResult
  <2>2. CASE ~(item.name \in P!ImmOps)
    BY <1>1, <1>2, <2>2
  <2> QED
    BY <2>1, <2>2
<1>4. P!ParseResult(item) = "ERR_NONE"
  BY <1>1, <1>2, <1>3, FirstError
<1>5. ASSUME NEW i
      PROVE  P!AsInstruction(P!ParsedInstruction(item, i)) \in P!AnyInstruction
  <2> DEFINE instr == P!AsInstruction(P!ParsedInstruction(item, i))
  <2>1. instr = [type |-> item.name, dest |-> P!LogId(P!ParsedOperand(item.dest)),
                 opA |-> P!LogId(P!ParsedOperand(item.opA)),
                 opB |-> IF item.name \in P!ImmOps THEN P!ParsedOperand(item.opB).low
                         ELSE P!LogId(P!ParsedOperand(item.opB))]
    BY DEF P!AsInstruction, P!ParsedInstruction
  <2>2. P!LogId(P!ParsedOperand(item.dest)) \in P!LogReg /\ P!LogId(P!ParsedOperand(item.opA)) \in P!LogReg
    BY <1>1, <1>2
  <2>3. CASE item.name \in P!ImmOps
    <3>1. P!ParsedOperand(item.opB) = [type |-> "imm", low |-> P!AsWord(P!Atoi(item.opB.num))]
      BY <1>1, <2>3 DEF P!ParsedOperand
    <3>2. P!ParsedOperand(item.opB).low \in P!Word
      BY <1>1, <3>1, AtoiType DEF P!OperandText
    <3>3. instr \in P!ImmInstruction
      BY <2>1, <2>2, <2>3, <3>2 DEF P!ImmInstruction
    <3> QED
      BY <3>3 DEF P!AnyInstruction
  <2>4. CASE ~(item.name \in P!ImmOps)
    <3>1. P!LogId(P!ParsedOperand(item.opB)) \in P!LogReg
      BY <1>1, <1>2, <2>4
    <3>2. item.name \in P!RegOps
      BY <1>1, <2>4
    <3>3. instr \in P!RegInstruction
      BY <2>1, <2>2, <2>4, <3>1, <3>2 DEF P!RegInstruction
    <3> QED
      BY <3>3 DEF P!AnyInstruction
  <2> QED
    BY <2>3, <2>4
<1> QED
  BY <1>1, <1>4, <1>5

-----------------------------------------------------------------------------
\* The program so far is what the first lines say.
ParsedLines ==
    \A i \in 1 .. Len(pInstructions) :
        /\ pFile.items[i].is_str /\ P!ParseResult(pFile.items[i]) = "ERR_NONE"
        /\ pInstructions[i] = P!ParsedInstruction(pFile.items[i], i - 1)

\* A line that gives no instruction
Unparsable(f) ==
    \E i \in 1 .. Len(f.items) :
        ~f.items[i].is_str \/ P!ParseResult(f.items[i]) # "ERR_NONE"

AnyLine == {P!ParsedInstruction(item, i) : item \in P!Item, i \in Nat}
FileType == [loads: BOOLEAN, is_arr: BOOLEAN, items: Seq(P!Item)]

ParserInv ==
    /\ pFile \in FileType
    /\ pPhase \in {"read", "root", "items", "returned"}
    /\ pDocLive \in BOOLEAN /\ pArrayLive \in BOOLEAN
    /\ pInstructions \in Seq(AnyLine)
    /\ Len(pInstructions) \in 0 .. Len(pFile.items)
    /\ ParsedLines
    /\ pPhase = "read" => ~pDocLive /\ ~pArrayLive
    /\ pPhase = "root" => pDocLive /\ ~pArrayLive
    /\ pPhase = "items" => pDocLive /\ pArrayLive
    /\ pPhase = "returned" =>
          /\ ~pDocLive /\ pArrayLive = (pResult = "ERR_NONE")
          /\ pResult = "ERR_NONE" => Len(pInstructions) = Len(pFile.items)
          /\ pResult \notin {"ERR_NONE", "ERR_MEM_ALLOC"} =>
                ~pFile.loads \/ ~pFile.is_arr \/ Unparsable(pFile)

\* Every step of parse_instructions keeps ParserInv.
LEMMA ParserKept ==
    ASSUME ParserInv, P!Next
    PROVE  ParserInv'
<1>1. CASE P!ReadFile
  BY <1>1 DEF P!ReadFile, P!Return, ParserInv, ParsedLines
<1>2. CASE P!CheckRoot
  BY <1>2 DEF P!CheckRoot, P!Return, ParserInv, ParsedLines
<1>3. CASE P!ParseItem
  <2> DEFINE n == Len(pInstructions)
             item == pFile.items[n + 1]
             line == P!ParsedInstruction(item, n)
  <2>1. /\ pPhase = "items" /\ n < Len(pFile.items) /\ pFile' = pFile
        /\ LET res == IF item.is_str THEN P!ParseResult(item) ELSE "ERR_INVALID_FORMAT"
           IN  IF res = "ERR_NONE"
               THEN /\ pInstructions' = Append(pInstructions, line)
                    /\ UNCHANGED <<pPhase, pDocLive, pArrayLive, pResult>>
               ELSE P!Return(res) /\ P!ReleaseOnError /\ UNCHANGED pInstructions
    BY <1>3 DEF P!ParseItem
  <2>2. /\ n \in Nat /\ n + 1 \in 1 .. Len(pFile.items) /\ item \in P!Item
        /\ pFile \in FileType /\ pInstructions \in Seq(AnyLine)
    BY <2>1 DEF ParserInv, FileType
  <2>3. CASE item.is_str /\ P!ParseResult(item) = "ERR_NONE"
    <3>1. pInstructions' = Append(pInstructions, line) /\ UNCHANGED <<pPhase, pDocLive, pArrayLive, pResult>>
      BY <2>1, <2>3
    <3>2. line \in AnyLine
      BY <2>2 DEF AnyLine
    <3> HIDE DEF line
    <3>3. pInstructions' \in Seq(AnyLine) /\ Len(pInstructions') = n + 1
      BY <2>2, <3>1, <3>2
    <3>4. ParsedLines'
      <4> SUFFICES ASSUME NEW i \in 1 .. n + 1
                   PROVE  /\ pFile.items[i].is_str /\ P!ParseResult(pFile.items[i]) = "ERR_NONE"
                          /\ pInstructions'[i] = P!ParsedInstruction(pFile.items[i], i - 1)
        BY <2>1, <3>3 DEF ParsedLines
      <4>1. CASE i = n + 1
        <5>1. pInstructions'[i] = line /\ i - 1 = n
          BY <2>2, <3>1, <3>2, <4>1
        <5> QED
          BY <2>3, <4>1, <5>1 DEF line
      <4>2. CASE i \in 1 .. n
        <5>1. pInstructions'[i] = pInstructions[i]
          BY <2>2, <3>1, <3>2, <4>2
        <5> QED
          BY <4>2, <5>1 DEF ParserInv, ParsedLines
      <4> QED
        BY <2>2, <4>1, <4>2
    <3> HIDE DEF item, n
    <3>5. Len(pInstructions') \in 0 .. Len(pFile.items)
      BY <2>2, <3>3
    <3> QED
      BY <2>1, <3>1, <3>3, <3>4, <3>5 DEF ParserInv
  <2>4. CASE ~(item.is_str /\ P!ParseResult(item) = "ERR_NONE")
    <3>1. /\ pPhase' = "returned" /\ pResult' # "ERR_NONE"
          /\ pDocLive' = FALSE /\ pArrayLive' = FALSE /\ pInstructions' = pInstructions
      BY <2>1, <2>4 DEF P!Return, P!ReleaseOnError
    <3>2. Unparsable(pFile)
      BY <2>2, <2>4 DEF Unparsable
    <3> QED
      BY <2>1, <3>1, <3>2 DEF ParserInv, ParsedLines, Unparsable
  <2> QED
    BY <2>3, <2>4
<1>4. CASE P!ParseDone
  BY <1>4 DEF P!ParseDone, P!Return, ParserInv, ParsedLines
<1>5. CASE P!Returned
  BY <1>5 DEF P!Returned, P!vars, ParserInv, ParsedLines
<1> QED
  BY <1>1, <1>2, <1>3, <1>4, <1>5 DEF P!Next

\* What the invariant says of the program that is returned
LEMMA ParserShows ==
    ASSUME ParserInv
    PROVE  ParsesPrograms
<1>1. /\ pFile \in FileType /\ pInstructions \in Seq(AnyLine)
      /\ Len(pInstructions) \in 0 .. Len(pFile.items) /\ DOMAIN pInstructions = 1 .. Len(pInstructions)
      /\ DOMAIN pFile.items = 1 .. Len(pFile.items) /\ Len(pFile.items) \in Nat
  BY DEF ParserInv, FileType
<1>2. ASSUME NEW i \in DOMAIN pInstructions
      PROVE  /\ pFile.items[i] \in P!Item
             /\ P!ParseResult(pFile.items[i]) = "ERR_NONE"
             /\ pInstructions[i] = P!ParsedInstruction(pFile.items[i], i - 1)
  BY <1>1 DEF ParserInv, ParsedLines, FileType
<1>3. AllOrNothing
  <2>1. ASSUME NEW i \in DOMAIN pInstructions
        PROVE  pInstructions[i].pc = i - 1
    BY <1>2 DEF P!ParsedInstruction
  <2> QED
    BY <2>1 DEF AllOrNothing, P!AllOrNothing, P!Accepted, ParserInv
<1>4. NumbersKept
  <2> SUFFICES ASSUME NEW i \in DOMAIN pInstructions
               PROVE  /\ P!Keeps(pInstructions[i].dest, pFile.items[i].dest)
                      /\ P!Keeps(pInstructions[i].opA, pFile.items[i].opA)
                      /\ P!Keeps(pInstructions[i].opB, pFile.items[i].opB)
    BY DEF NumbersKept, P!NumbersKept
  <2> PICK item \in P!Item : item = pFile.items[i]
    BY <1>2
  <2>1. /\ P!ParseOperandResult(item.dest) = "ERR_NONE" /\ P!ParseOperandResult(item.opA) = "ERR_NONE"
        /\ P!ParseOperandResult(item.opB) = "ERR_NONE"
    BY <1>2, FirstError
  <2>2. item.dest \in P!OperandText /\ item.opA \in P!OperandText /\ item.opB \in P!OperandText
    BY DEF P!Item
  <2>3. /\ pInstructions[i].dest = P!ParsedOperand(item.dest)
        /\ pInstructions[i].opA = P!ParsedOperand(item.opA)
        /\ pInstructions[i].opB = P!ParsedOperand(item.opB)
    BY <1>2 DEF P!ParsedInstruction
  <2> QED
    BY <2>1, <2>2, <2>3, OperandKeeps
<1>5. WellFormedAccepted
  <2> SUFFICES ASSUME pPhase = "returned", pFile.loads, pFile.is_arr,
                      \A i \in DOMAIN pFile.items : P!WellFormed(pFile.items[i])
               PROVE  /\ pResult \in {"ERR_NONE", "ERR_MEM_ALLOC"}
                      /\ \A i \in DOMAIN pInstructions :
                             P!AsInstruction(pInstructions[i]) \in P!AnyInstruction
    BY DEF WellFormedAccepted, P!WellFormedAccepted
  <2>1. ASSUME NEW i \in DOMAIN pFile.items
        PROVE  /\ pFile.items[i].is_str /\ P!ParseResult(pFile.items[i]) = "ERR_NONE"
               /\ \A k : P!AsInstruction(P!ParsedInstruction(pFile.items[i], k)) \in P!AnyInstruction
    <3>1. pFile.items[i] \in P!Item
      BY <1>1 DEF FileType
    <3> QED
      BY <3>1, WellFormedParses
  <2>2. ~Unparsable(pFile)
    BY <1>1, <2>1 DEF Unparsable
  <2>3. pResult \in {"ERR_NONE", "ERR_MEM_ALLOC"}
    BY <2>2 DEF ParserInv
  <2>4. ASSUME NEW i \in DOMAIN pInstructions
        PROVE  P!AsInstruction(pInstructions[i]) \in P!AnyInstruction
    <3>1. i \in DOMAIN pFile.items
      BY <1>1
    <3>2. pInstructions[i] = P!ParsedInstruction(pFile.items[i], i - 1)
      BY <1>2
    <3> QED
      BY <2>1, <3>1, <3>2
  <2> QED
    BY <2>3, <2>4
<1> QED
  BY <1>3, <1>4, <1>5 DEF ParsesPrograms

-----------------------------------------------------------------------------
\* The names of what init_processor allocates once, for the state and for the stages
StateNames == {"free_list.list", "free_list.list.data", "active_list.list", "active_list.list.data",
               "dir", "dir.queue", "dir.queue.data", "fetch_decode",
               "iq", "iq.queue", "iq.queue.data", "fw_paths"}
StageNames == {"issue", "rename_dispatch", "commit"}

\* What init_processor allocates: the names of the state, of the stages, and two of
\* every ALU
LEMMA AllocationsAre ==
    Range(Allocations) = {Single(n) : n \in StateNames \cup StageNames}
                         \cup {Alu(i) : i \in AluIds} \cup {Stages(i) : i \in AluIds}
<1> DEFINE All == {Single(n) : n \in StateNames \cup StageNames}
                  \cup {Alu(i) : i \in AluIds} \cup {Stages(i) : i \in AluIds}
           S == StateAllocations
           A == AluAllocations
           T == StageAllocations
<1>1. /\ S \in Seq(All) /\ Len(S) = 12 /\ Range(S) = {Single(n) : n \in StateNames}
  <2>1. S = [k \in 1 .. 12 |-> S[k]]
    BY DEF StateAllocations
  <2>2. Len(S) = 12 /\ DOMAIN S = 1 .. 12
    BY DEF StateAllocations
  <2>3. /\ S[1] = Single("free_list.list") /\ S[2] = Single("free_list.list.data")
        /\ S[3] = Single("active_list.list") /\ S[4] = Single("active_list.list.data")
        /\ S[5] = Single("dir") /\ S[6] = Single("dir.queue") /\ S[7] = Single("dir.queue.data")
        /\ S[8] = Single("fetch_decode") /\ S[9] = Single("iq") /\ S[10] = Single("iq.queue")
        /\ S[11] = Single("iq.queue.data") /\ S[12] = Single("fw_paths")
    BY DEF StateAllocations
  <2> HIDE DEF S
  <2>4. \A k \in 1 .. 12 : S[k] \in {Single(n) : n \in StateNames}
    BY <2>3 DEF StateNames
  <2>5. \A n \in StateNames : \E k \in 1 .. 12 : S[k] = Single(n)
    BY <2>3 DEF StateNames
  <2> QED
    BY <2>1, <2>2, <2>4, <2>5 DEF Range
<1>2. /\ T \in Seq(All) /\ Len(T) = 3 /\ Range(T) = {Single(n) : n \in StageNames}
  <2>1. T = [k \in 1 .. 3 |-> T[k]]
    BY DEF StageAllocations
  <2>2. Len(T) = 3 /\ DOMAIN T = 1 .. 3
    BY DEF StageAllocations
  <2>3. T[1] = Single("issue") /\ T[2] = Single("rename_dispatch") /\ T[3] = Single("commit")
    BY DEF StageAllocations
  <2> HIDE DEF T
  <2>4. \A k \in 1 .. 3 : T[k] \in {Single(n) : n \in StageNames}
    BY <2>3 DEF StageNames
  <2>5. \A n \in StageNames : \E k \in 1 .. 3 : T[k] = Single(n)
    BY <2>3 DEF StageNames
  <2> QED
    BY <2>1, <2>2, <2>4, <2>5 DEF Range
<1>3. /\ A \in Seq(All) /\ Len(A) = 2 * NUM_ALUS
      /\ Range(A) = {Alu(i) : i \in AluIds} \cup {Stages(i) : i \in AluIds}
  <2>1. 2 * NUM_ALUS \in Nat /\ NUM_ALUS \in Nat
    BY NumAlusAssumption
  <2>2. A = [k \in 1 .. 2 * NUM_ALUS |-> A[k]] /\ DOMAIN A = 1 .. 2 * NUM_ALUS
    BY DEF AluAllocations
  <2>3. \A k \in 1 .. 2 * NUM_ALUS :
            A[k] = IF k % 2 = 1 THEN Alu((k + 1) \div 2) ELSE Stages(k \div 2)
    BY DEF AluAllocations
  <2> HIDE DEF A
  <2>4. ASSUME NEW k \in 1 .. 2 * NUM_ALUS
        PROVE  A[k] \in {Alu(i) : i \in AluIds} \cup {Stages(i) : i \in AluIds}
    <3>1. CASE k % 2 = 1
      <4>1. (k + 1) \div 2 \in AluIds
        BY <2>1, <3>1 DEF AluIds
      <4> QED
        BY <2>3, <3>1, <4>1
    <3>2. CASE k % 2 # 1
      <4>1. k \div 2 \in AluIds
        BY <2>1, <3>2 DEF AluIds
      <4> QED
        BY <2>3, <3>2, <4>1
    <3> QED
      BY <3>1, <3>2
  <2>5. ASSUME NEW i \in AluIds
        PROVE  /\ \E k \in 1 .. 2 * NUM_ALUS : A[k] = Alu(i)
               /\ \E k \in 1 .. 2 * NUM_ALUS : A[k] = Stages(i)
    <3>1. 2 * i - 1 \in 1 .. 2 * NUM_ALUS /\ (2 * i - 1) % 2 = 1 /\ (2 * i - 1 + 1) \div 2 = i
      BY <2>1 DEF AluIds
    <3>2. 2 * i \in 1 .. 2 * NUM_ALUS /\ (2 * i) % 2 # 1 /\ (2 * i) \div 2 = i
      BY <2>1 DEF AluIds
    <3>3. A[2 * i - 1] = Alu(i)
      BY <2>3, <3>1
    <3>4. A[2 * i] = Stages(i)
      BY <2>3, <3>2
    <3> QED
      BY <3>1, <3>2, <3>3, <3>4
  <2>6. Range(A) = {A[k] : k \in 1 .. 2 * NUM_ALUS}
    BY <2>2 DEF Range
  <2>7. Range(A) = {Alu(i) : i \in AluIds} \cup {Stages(i) : i \in AluIds}
    BY <2>4, <2>5, <2>6, SMTT(30)
  <2>8. A \in Seq(All) /\ Len(A) = 2 * NUM_ALUS
    <3>1. \A k \in 1 .. 2 * NUM_ALUS : A[k] \in All
      BY <2>4
    <3> HIDE DEF All
    <3> QED
      BY <2>1, <2>2, <3>1
  <2> QED
    BY <2>7, <2>8
<1>4. \A X \in Seq(All), Y \in Seq(All) :
          /\ X \o Y \in Seq(All)
          /\ Range(X \o Y) = Range(X) \cup Range(Y)
  <2> SUFFICES ASSUME NEW X \in Seq(All), NEW Y \in Seq(All)
               PROVE  X \o Y \in Seq(All) /\ Range(X \o Y) = Range(X) \cup Range(Y)
    OBVIOUS
  <2> HIDE DEF All
  <2>1. X \o Y \in Seq(All) /\ Len(X \o Y) = Len(X) + Len(Y)
    OBVIOUS
  <2>2. \A k \in 1 .. Len(X) : (X \o Y)[k] = X[k]
    OBVIOUS
  <2>3. \A k \in 1 .. Len(Y) : (X \o Y)[Len(X) + k] = Y[k]
    OBVIOUS
  <2>4. Range(X) \subseteq Range(X \o Y)
    BY <2>1, <2>2 DEF Range
  <2>5. Range(Y) \subseteq Range(X \o Y)
    <3> SUFFICES ASSUME NEW k \in 1 .. Len(Y)
                 PROVE  Y[k] \in Range(X \o Y)
      BY DEF Range
    <3>1. Len(X) + k \in DOMAIN (X \o Y)
      BY <2>1
    <3> QED
      BY <2>3, <3>1 DEF Range
  <2>6. Range(X \o Y) \subseteq Range(X) \cup Range(Y)
    <3> SUFFICES ASSUME NEW k \in 1 .. Len(X) + Len(Y)
                 PROVE  (X \o Y)[k] \in Range(X) \cup Range(Y)
      BY <2>1 DEF Range
    <3>1. CASE k \in 1 .. Len(X)
      BY <2>2, <3>1 DEF Range
    <3>2. CASE ~(k \in 1 .. Len(X))
      <4>1. k - Len(X) \in 1 .. Len(Y) /\ k = Len(X) + (k - Len(X))
        BY <3>2
      <4>2. (X \o Y)[k] = Y[k - Len(X)]
        BY <2>3, <4>1
      <4> QED
        BY <4>1, <4>2 DEF Range
    <3> QED
      BY <3>1, <3>2
  <2> QED
    BY <2>1, <2>4, <2>5, <2>6
<1> HIDE DEF S, A, T, All
<1>5. Allocations = S \o A \o T
  BY DEF Allocations, S, A, T
<1>6. Range(Allocations) = Range(S) \cup Range(A) \cup Range(T)
  <2>1. S \o A \in Seq(All) /\ Range(S \o A) = Range(S) \cup Range(A)
    BY <1>1, <1>3, <1>4
  <2>2. Range((S \o A) \o T) = Range(S \o A) \cup Range(T)
    BY <1>2, <1>4, <2>1
  <2>3. S \o A \o T = (S \o A) \o T
    OBVIOUS
  <2> QED
    BY <1>5, <2>1, <2>2, <2>3
<1> QED
  BY <1>1, <1>2, <1>3, <1>6

\* What free_processor releases, one part after the other
EverReleased == UNION {Released(FreeOrder[j]) : j \in 1 .. 9}

\* The machine is what is released and what never is.
LEMMA MachineIs ==
    /\ Machine = NeverReleased \cup EverReleased
    /\ NeverReleased \cap EverReleased = {}
    /\ Single("instructions") \notin Machine /\ Single("doc") \notin Machine
    /\ Len(FreeOrder) = 9
<1>1. /\ FreeOrder[1] = "commit" /\ FreeOrder[2] = "rename_dispatch" /\ FreeOrder[3] = "issue"
      /\ FreeOrder[4] = "fw_paths" /\ FreeOrder[5] = "alus" /\ FreeOrder[6] = "iq"
      /\ FreeOrder[7] = "fetch_decode" /\ FreeOrder[8] = "dir" /\ FreeOrder[9] = "processor"
      /\ Len(FreeOrder) = 9
  BY DEF FreeOrder
<1>2. Machine = {Single("processor")} \cup {Single(n) : n \in StateNames \cup StageNames}
                \cup {Alu(i) : i \in AluIds} \cup {Stages(i) : i \in AluIds}
  BY AllocationsAre DEF Machine
<1>3. EverReleased =
          {Single(n) : n \in {"commit", "rename_dispatch", "issue", "fw_paths", "iq", "iq.queue",
                              "iq.queue.data", "fetch_decode", "dir", "dir.queue", "dir.queue.data",
                              "processor"}}
          \cup {Alu(i) : i \in AluIds}
  <2>1. \A x : (\E j \in 1 .. 9 : x \in Released(FreeOrder[j])) <=>
             \/ x \in Released("commit") \/ x \in Released("rename_dispatch") \/ x \in Released("issue")
             \/ x \in Released("fw_paths") \/ x \in Released("alus") \/ x \in Released("iq")
             \/ x \in Released("fetch_decode") \/ x \in Released("dir") \/ x \in Released("processor")
    <3> DEFINE R(j) == Released(FreeOrder[j])
    <3>1. /\ R(1) = Released("commit") /\ R(2) = Released("rename_dispatch")
          /\ R(3) = Released("issue") /\ R(4) = Released("fw_paths") /\ R(5) = Released("alus")
          /\ R(6) = Released("iq") /\ R(7) = Released("fetch_decode") /\ R(8) = Released("dir")
          /\ R(9) = Released("processor")
      BY <1>1
    <3> HIDE DEF R
    <3>2. \A x : (\E j \in 1 .. 9 : x \in R(j)) <=>
             \/ x \in R(1) \/ x \in R(2) \/ x \in R(3) \/ x \in R(4) \/ x \in R(5) \/ x \in R(6)
             \/ x \in R(7) \/ x \in R(8) \/ x \in R(9)
      OBVIOUS
    <3>3. \A x : (\E j \in 1 .. 9 : x \in R(j)) <=>
             \/ x \in Released("commit") \/ x \in Released("rename_dispatch") \/ x \in Released("issue")
             \/ x \in Released("fw_paths") \/ x \in Released("alus") \/ x \in Released("iq")
             \/ x \in Released("fetch_decode") \/ x \in Released("dir") \/ x \in Released("processor")
      BY <3>1, <3>2
    <3> QED
      BY <3>3 DEF R
  <2>2. /\ Released("commit") = {Single("commit")} /\ Released("rename_dispatch") = {Single("rename_dispatch")}
        /\ Released("issue") = {Single("issue")} /\ Released("fw_paths") = {Single("fw_paths")}
        /\ Released("alus") = {Alu(i) : i \in AluIds}
        /\ Released("iq") = {Single("iq"), Single("iq.queue"), Single("iq.queue.data")}
        /\ Released("fetch_decode") = {Single("fetch_decode")}
        /\ Released("dir") = {Single("dir"), Single("dir.queue"), Single("dir.queue.data")}
        /\ Released("processor") = {Single("processor")}
    BY DEF Released
  <2> QED
    BY <2>1, <2>2 DEF EverReleased
<1>4. NeverReleased = {Single(n) : n \in {"free_list.list", "free_list.list.data", "active_list.list",
                                          "active_list.list.data"}}
                      \cup {Stages(i) : i \in AluIds}
  BY DEF NeverReleased
<1>5. Machine = NeverReleased \cup EverReleased
  BY <1>2, <1>3, <1>4 DEF StateNames, StageNames
<1>6. NeverReleased \cap EverReleased = {}
  BY <1>3, <1>4 DEF Single, Alu, Stages
<1>7. Single("instructions") \notin Machine /\ Single("doc") \notin Machine
  BY <1>2 DEF Single, Alu, Stages, StateNames, StageNames
<1> QED
  BY <1>1, <1>5, <1>6, <1>7

\* What is allocated where main is
AllocatedSoFar ==
    /\ live = ptr /\ live \subseteq Machine \cup {Single("instructions"), Single("doc")}
    /\ err \in {"ERR_NONE", "ERR_MEM_ALLOC", "ERR_FILE_PARSE"}
    /\ phase \notin {"write", "free", "exit"} => err = "ERR_NONE"
    /\ phase \in {"args", "parse"} => live = {}
    /\ phase = "calloc" => live = {Single("instructions")}
    /\ phase \in {"init", "doc", "run", "write"} => Single("instructions") \in live
    /\ phase = "write" => Machine \subseteq live
    /\ Single("doc") \in live => phase \in {"run", "write"}

\* free_processor releases one part after the other, all of a machine that is complete.
FreedSoFar ==
    phase = "free" =>
        /\ step <= 10
        /\ \A j \in 1 .. step - 1 : Released(FreeOrder[j]) \cap live = {}
        /\ err = "ERR_NONE" =>
              /\ Single("instructions") \in live
              /\ \A o \in Machine : o \in live \/ \E j \in 1 .. step - 1 : o \in Released(FreeOrder[j])

Heap == Progress /\ AllocatedSoFar /\ FreedSoFar /\ LeftAtExit

\* A release that clears the fields leaves as allocated what is pointed to.
LEMMA ReleaseKeepsEqual ==
    ASSUME live = ptr, NEW S, Release(S, S)
    PROVE  live' = live \ S /\ ptr' = live'
  BY DEF Release

\* Every step of main keeps Heap.
LEMMA HeapKept ==
    ASSUME Heap, Next
    PROVE  Heap'
<1>1. Progress'
  BY ProgressKept DEF Heap
<1>2. CASE CheckArgs
  BY <1>1, <1>2 DEF Heap, CheckArgs, Exit, Goto, NoAllocation, AllocatedSoFar, FreedSoFar, LeftAtExit, FreeFails
<1>3. CASE ParseInstructions
  <2>1. live = {} /\ ptr = {} /\ phase = "parse" /\ err = "ERR_NONE"
    BY <1>3 DEF Heap, AllocatedSoFar, ParseInstructions
  <2>2. CASE Exit("ERR_PARSE") /\ NoAllocation
    BY <1>1, <2>1, <2>2 DEF Heap, Exit, NoAllocation, AllocatedSoFar, FreedSoFar, LeftAtExit, FreeFails
  <2>3. CASE Goto("calloc") /\ Allocate(Single("instructions")) /\ UNCHANGED err
    BY <1>1, <2>1, <2>3, MachineIs DEF Heap, Goto, Allocate, AllocatedSoFar, FreedSoFar, LeftAtExit, Single
  <2> QED
    BY <1>3, <2>2, <2>3 DEF ParseInstructions
<1>4. CASE AllocProcessor
  <2>1. live = {Single("instructions")} /\ ptr = live /\ phase = "calloc" /\ err = "ERR_NONE"
    BY <1>4 DEF Heap, AllocatedSoFar, AllocProcessor
  <2>2. CASE Exit("ERR_MEM_ALLOC") /\ NoAllocation
    BY <1>1, <2>1, <2>2, MachineIs DEF Heap, Exit, NoAllocation, AllocatedSoFar, FreedSoFar, LeftAtExit, FreeFails, Single
  <2>3. CASE Goto("init") /\ Allocate(Single("processor")) /\ UNCHANGED err
    <3>1. Single("processor") \in Machine
      BY DEF Machine
    <3> QED
      BY <1>1, <2>1, <2>3, <3>1, MachineIs DEF Heap, Goto, Allocate, AllocatedSoFar, FreedSoFar, LeftAtExit, Single
  <2> QED
    BY <1>4, <2>2, <2>3 DEF AllocProcessor
<1>5. CASE InitStep
  <2>1. /\ phase = "init" /\ step \in 1 .. Len(Allocations) /\ live = ptr /\ Single("instructions") \in live
        /\ Single("doc") \notin live /\ err = "ERR_NONE"
    BY <1>5, AllocationsLen DEF Heap, Progress, AllocatedSoFar, InitStep
  <2>2. CASE Allocate(Allocations[step]) /\ UNCHANGED <<phase, err, code>>
    <3>1. Allocations[step] \in Machine
      BY <2>1, AllocationsLen DEF Machine, Range
    <3>2. Allocations[step] # Single("doc")
      BY <3>1, MachineIs
    <3> QED
      BY <1>1, <2>1, <2>2, <3>1, <3>2 DEF Heap, Allocate, AllocatedSoFar, FreedSoFar, LeftAtExit
  <2>3. CASE OnAllocFailure(Allocations[step]) /\ err' = "ERR_MEM_ALLOC" /\ Goto("free")
    <3>1. live' \subseteq live /\ ptr' = live'
      BY <2>1, <2>3, ReleaseKeepsEqual DEF OnAllocFailure
    <3> QED
      BY <1>1, <2>1, <2>3, <3>1 DEF Heap, Goto, AllocatedSoFar, FreedSoFar, LeftAtExit
  <2> QED
    BY <1>5, <2>2, <2>3 DEF InitStep
<1>6. CASE InitDone \/ RunSimulation
  BY <1>1, <1>6 DEF Heap, Progress, InitDone, RunSimulation, Goto, NoAllocation, AllocatedSoFar, FreedSoFar, LeftAtExit
<1>7. CASE NewDoc
  BY <1>1, <1>7 DEF Heap, Progress, NewDoc, Goto, NoAllocation, Allocate, AllocatedSoFar, FreedSoFar, LeftAtExit
<1>8. CASE WriteFile
  <2>1. /\ phase = "write" /\ live = ptr /\ Machine \subseteq live /\ Single("instructions") \in live
        /\ step' = 1 /\ phase' = "free" /\ err' \in {err, "ERR_FILE_PARSE"} /\ code' = code
    BY <1>8 DEF Heap, AllocatedSoFar, WriteFile, Goto
  <2>2. live' = live \ {Single("doc")} /\ ptr' = live'
    BY <1>8, <2>1, ReleaseKeepsEqual DEF WriteFile
  <2>3. Machine \subseteq live' /\ Single("instructions") \in live'
    BY <2>1, <2>2, MachineIs DEF Single
  <2> QED
    BY <1>1, <2>1, <2>2, <2>3 DEF Heap, AllocatedSoFar, FreedSoFar, LeftAtExit
<1>9. CASE FreeStep
  <2> DEFINE now == Released(FreeOrder[step])
  <2>1. /\ phase = "free" /\ step \in 1 .. 9 /\ live = ptr /\ UNCHANGED <<phase, err, code>> /\ step' = step + 1
        /\ live' = live \ now /\ ptr' = live'
    BY <1>9, MachineIs, ReleaseKeepsEqual DEF Heap, Progress, AllocatedSoFar, FreeStep
  <2>2. Single("instructions") \notin now
    BY <2>1, MachineIs DEF EverReleased
  <2>3. \A j \in 1 .. step' - 1 : Released(FreeOrder[j]) \cap live' = {}
    <3> SUFFICES ASSUME NEW j \in 1 .. step
                 PROVE  Released(FreeOrder[j]) \cap live' = {}
      BY <2>1
    <3>1. CASE j = step
      BY <2>1, <3>1
    <3>2. CASE j \in 1 .. step - 1
      BY <2>1, <3>2 DEF Heap, FreedSoFar
    <3> QED
      BY <2>1, <3>1, <3>2
  <2>4. ASSUME err = "ERR_NONE", NEW o \in Machine
        PROVE  o \in live' \/ \E j \in 1 .. step' - 1 : o \in Released(FreeOrder[j])
    <3>1. o \in live \/ \E j \in 1 .. step - 1 : o \in Released(FreeOrder[j])
      BY <2>1, <2>4 DEF Heap, FreedSoFar
    <3>2. 1 .. step - 1 \subseteq 1 .. step' - 1 /\ step \in 1 .. step' - 1
      BY <2>1
    <3> QED
      BY <2>1, <3>1, <3>2
  <2> HIDE DEF now
  <2>5. AllocatedSoFar' /\ LeftAtExit'
    BY <2>1 DEF Heap, AllocatedSoFar, LeftAtExit
  <2>6. FreedSoFar'
    BY <2>1, <2>2, <2>3, <2>4 DEF Heap, FreedSoFar
  <2> QED
    BY <1>1, <2>5, <2>6 DEF Heap
<1>10. CASE FreeFailed
  <2>1. /\ phase = "free" /\ step \in 1 .. 9 /\ live = ptr /\ FreeFails(FreeOrder[step])
        /\ phase' = "exit" /\ code' = (IF err = "ERR_NONE" THEN "ERR_NULL_PTR" ELSE err)
        /\ UNCHANGED <<step, err, live, ptr, invalid>>
    BY <1>10, MachineIs DEF Heap, Progress, AllocatedSoFar, FreeFailed, Exit, NoAllocation
  <2>2. FreeOrder[step] = "iq" /\ Single("iq") \in live /\ Single("iq.queue") \notin live
    BY <2>1 DEF FreeFails
  <2>3. err # "ERR_NONE"
    <3> SUFFICES ASSUME err = "ERR_NONE" PROVE FALSE
      OBVIOUS
    <3>1. Single("iq.queue") \in Released("iq") /\ Released("iq") \subseteq EverReleased
      BY <2>1, <2>2 DEF Released, EverReleased
    <3>2. Single("iq.queue") \in Machine
      BY <3>1, MachineIs
    <3>3. PICK j \in 1 .. step - 1 : Single("iq.queue") \in Released(FreeOrder[j])
      BY <2>1, <2>2, <3>2 DEF Heap, FreedSoFar
    <3>4. FreeOrder[j] = "iq"
      <4>1. j \in 1 .. 9
        BY <2>1
      <4>2. \A part : Single("iq.queue") \in Released(part) => part = "iq" \/ part = "iq.queue"
        BY DEF Released, Single, Alu
      <4>3. FreeOrder[j] # "iq.queue"
        BY <4>1 DEF FreeOrder
      <4> QED
        BY <3>3, <4>2, <4>3
    <3>5. Released("iq") \cap live = {}
      BY <2>1, <3>4 DEF Heap, FreedSoFar
    <3> QED
      BY <2>2, <3>5 DEF Released
  <2>4. FreeFails("iq")'
    BY <2>1, <2>2 DEF FreeFails
  <2>5. AllocatedSoFar' /\ FreedSoFar'
    BY <2>1 DEF Heap, AllocatedSoFar, FreedSoFar
  <2>6. LeftAtExit'
    BY <2>1, <2>3, <2>4 DEF Heap, AllocatedSoFar, LeftAtExit
  <2> QED
    BY <1>1, <2>5, <2>6 DEF Heap
<1>11. CASE FreeDone
  <2>1. /\ phase = "free" /\ step = 10 /\ live = ptr /\ phase' = "exit" /\ code' = err /\ err' = err
    BY <1>11, MachineIs DEF Heap, Progress, AllocatedSoFar, FreedSoFar, FreeDone, Exit
  <2>2. live \cap EverReleased = {}
    <3>1. \A j \in 1 .. 9 : Released(FreeOrder[j]) \cap live = {}
      BY <2>1 DEF Heap, FreedSoFar
    <3> QED
      BY <3>1 DEF EverReleased
  <2>3. live \subseteq NeverReleased \cup {Single("instructions")}
    BY <2>1, <2>2, MachineIs DEF Heap, AllocatedSoFar
  <2>4. live' \subseteq live /\ ptr' = live'
    BY <1>11, <2>1, ReleaseKeepsEqual DEF FreeDone, NoAllocation
  <2>5. CASE err = "ERR_NONE"
    <3>1. live' = live \ {Single("instructions")}
      BY <1>11, <2>1, <2>5, ReleaseKeepsEqual DEF FreeDone
    <3>2. NeverReleased \subseteq live
      <4> SUFFICES ASSUME NEW o \in NeverReleased PROVE o \in live
        OBVIOUS
      <4>1. o \in Machine /\ o \notin EverReleased
        BY MachineIs
      <4>2. o \in live \/ \E j \in 1 .. 9 : o \in Released(FreeOrder[j])
        BY <2>1, <2>5, <4>1 DEF Heap, FreedSoFar
      <4> QED
        BY <4>1, <4>2 DEF EverReleased
    <3>3. Single("instructions") \notin NeverReleased
      BY MachineIs
    <3>4. live' = NeverReleased
      BY <2>3, <3>1, <3>2, <3>3
    <3> QED
      BY <1>1, <2>1, <2>4, <2>5, <3>4 DEF Heap, AllocatedSoFar, FreedSoFar, LeftAtExit
  <2>6. CASE err # "ERR_NONE"
    BY <1>1, <2>1, <2>3, <2>4, <2>6 DEF Heap, AllocatedSoFar, FreedSoFar, LeftAtExit
  <2> QED
    BY <2>5, <2>6
<1>12. CASE Exited
  BY <1>1, <1>12 DEF Exited, vars, Heap, AllocatedSoFar, FreedSoFar, LeftAtExit, FreeFails
<1> QED
  BY <1>2, <1>3, <1>4, <1>5, <1>6, <1>7, <1>8, <1>9, <1>10, <1>11, <1>12 DEF Next

-----------------------------------------------------------------------------
\* What a dump is made of
Data == UNION {D!Range(s[q].data) : s \in Snapshots, q \in D!QueueNames}
DumpName == D!Range(D!Fields) \cup D!Range(D!ActiveListKeys) \cup D!Range(D!IqKeys)
DumpElement == [of: Data, keys: SUBSET DumpName]
DumpMember == [key: DumpName, value: Seq(DumpElement)]
DumpKey == [key: DumpName, made: BOOLEAN]

DumpTypes ==
    /\ dSnapshots \in Seq(Snapshots) /\ dRoot \in Seq(Seq(DumpMember))
    /\ dStateObj \in Seq(DumpMember) /\ dQueueArray \in Seq(DumpElement) /\ dEntry \in Seq(DumpKey)
    /\ dPhase \in {"cycle", "field", "element", "members", "append", "returned", "crashed"}
    /\ dField \in 1 .. 10 /\ dIndex \in Nat /\ dFailed \in Nat /\ dFinished \in BOOLEAN

\* Where the dump is in the cycle, in the queue and in the element
InQueue == dPhase \in {"element", "members"}
InCycle == dPhase \in {"field", "append"} \/ InQueue
CycleNow == Len(dRoot) + 1
DumpPlace ==
    /\ dFinished => dPhase = "returned"
    /\ Len(dSnapshots) = IF dFinished THEN Len(dRoot) ELSE CycleNow
    /\ dPhase = "returned" => dFinished \/ dFailed > 0
    /\ dPhase = "field" \/ InQueue => Len(dStateObj) = dField - 1
    /\ dPhase = "append" => Len(dStateObj) \in {9, 10}
    /\ InQueue => D!Key \in D!QueueNames /\ Len(dQueueArray) = dIndex /\ dIndex <= D!Queue.count
    /\ dPhase = "members" =>
          /\ dIndex < D!Queue.count /\ Len(dEntry) <= Len(D!KeysOf(D!Key))
          /\ \A j \in 1 .. Len(dEntry) : dEntry[j].key = D!KeysOf(D!Key)[j]

\* The members are in order and show the cycle; the elements so far are the first ones.
CycleShows(cycle, s) ==
    \A k \in 1 .. Len(cycle) :
        /\ cycle[k].key = D!Fields[k]
        /\ cycle[k].key \in D!QueueNames =>
              D!Shown(cycle[k].value) = D!Contents(s[cycle[k].key])
DumpShows ==
    /\ \A n \in 1 .. Len(dRoot) : CycleShows(dRoot[n], dSnapshots[n]) /\ Len(dRoot[n]) >= 9
    /\ InCycle => CycleShows(dStateObj, D!Snapshot)
    /\ InQueue => \A i \in 1 .. Len(dQueueArray) : dQueueArray[i].of = D!Contents(D!Queue)[i]

\* L has whatever a cycle lacks.
MissingCovered(L, n, cycle) == \A k \in D!MissingIn(cycle) : <<n, k>> \in L
ArrayCovered(L, n, name, array) ==
    \A i \in 1 .. Len(array) : \A k \in D!Range(D!KeysOf(name)) \ array[i].keys :
        <<n, name, i, k>> \in L
CycleCovered(L, n, cycle) ==
    \A j \in 1 .. Len(cycle) : ArrayCovered(L, n, cycle[j].key, cycle[j].value)

\* L has whatever the dump lacks so far, also in what is not yet part of the document.
DumpCovered(L) ==
    /\ \A n \in 1 .. Len(dRoot) : MissingCovered(L, n, dRoot[n]) /\ CycleCovered(L, n, dRoot[n])
    /\ InCycle => CycleCovered(L, CycleNow, dStateObj)
    /\ dPhase = "append" => MissingCovered(L, CycleNow, dStateObj)
    /\ InQueue => ArrayCovered(L, CycleNow, D!Key, dQueueArray)
    /\ dPhase = "members" =>
          \A j \in 1 .. Len(dEntry) :
              dEntry[j].made \/ <<CycleNow, D!Key, dIndex + 1, dEntry[j].key>> \in L
DumpCounted == \E L : IsFiniteSet(L) /\ Cardinality(L) <= dFailed /\ DumpCovered(L)

DumpInv == DumpTypes /\ DumpPlace /\ DumpShows /\ DumpCounted

-----------------------------------------------------------------------------
\* An element at the end of a sequence
LEMMA AppendIs ==
    ASSUME NEW S, NEW s \in Seq(S), NEW e \in S
    PROVE  /\ Append(s, e) \in Seq(S) /\ Len(Append(s, e)) = Len(s) + 1 /\ Len(s) \in Nat
           /\ Append(s, e)[Len(s) + 1] = e
           /\ \A i \in 1 .. Len(s) : Append(s, e)[i] = s[i]
  OBVIOUS

\* The ten members of a cycle, the last of which is the integer queue's
LEMMA FieldsAre ==
    /\ Len(D!Fields) = 10 /\ DOMAIN D!Fields = 1 .. 10
    /\ \A k \in 1 .. 10 : D!Fields[k] \in DumpName
    /\ D!Fields[10] = "IntegerQueue" /\ \A k \in 1 .. 9 : D!Fields[k] # "IntegerQueue"
<1>1. Len(D!Fields) = 10 /\ DOMAIN D!Fields = 1 .. 10
  BY DEF D!Fields
<1>2. /\ D!Fields[1] = "PC" /\ D!Fields[2] = "ExceptionPC" /\ D!Fields[3] = "Exception"
      /\ D!Fields[4] = "PhysicalRegisterFile" /\ D!Fields[5] = "RegisterMapTable"
      /\ D!Fields[6] = "FreeList" /\ D!Fields[7] = "BusyBitTable" /\ D!Fields[8] = "ActiveList"
      /\ D!Fields[9] = "DecodedPCs" /\ D!Fields[10] = "IntegerQueue"
  BY DEF D!Fields
<1>3. \A k \in 1 .. 10 : k = 1 \/ k = 2 \/ k = 3 \/ k = 4 \/ k = 5 \/ k = 6 \/ k = 7 \/ k = 8 \/ k = 9 \/ k = 10
  OBVIOUS
<1> HIDE DEF D!Fields
<1>4. \A k \in 1 .. 10 : D!Fields[k] \in DumpName
  BY <1>1 DEF DumpName, D!Range
<1>5. \A k \in 1 .. 9 : D!Fields[k] # "IntegerQueue"
  BY <1>2, <1>3
<1> QED
  BY <1>1, <1>2, <1>4, <1>5

\* The keys of an element are a sequence of names.
LEMMA KeysAre ==
    ASSUME NEW name
    PROVE  D!KeysOf(name) \in Seq(DumpName)
<1>1. D!ActiveListKeys \in Seq(DumpName)
  <2>1. D!ActiveListKeys = [k \in 1 .. 5 |-> D!ActiveListKeys[k]]
    BY DEF D!ActiveListKeys
  <2>2. DOMAIN D!ActiveListKeys = 1 .. 5
    BY DEF D!ActiveListKeys
  <2> HIDE DEF D!ActiveListKeys
  <2>3. \A k \in 1 .. 5 : D!ActiveListKeys[k] \in DumpName
    BY <2>2 DEF DumpName, D!Range
  <2> QED
    BY <2>1, <2>3
<1>2. D!IqKeys \in Seq(DumpName)
  <2>1. D!IqKeys = [k \in 1 .. 9 |-> D!IqKeys[k]]
    BY DEF D!IqKeys
  <2>2. DOMAIN D!IqKeys = 1 .. 9
    BY DEF D!IqKeys
  <2> HIDE DEF D!IqKeys
  <2>3. \A k \in 1 .. 9 : D!IqKeys[k] \in DumpName
    BY <2>2 DEF DumpName, D!Range
  <2> QED
    BY <2>1, <2>3
<1>3. << >> \in Seq(DumpName)
  OBVIOUS
<1> QED
  BY <1>1, <1>2, <1>3 DEF D!KeysOf

\* What is made of the queue of the cycle
LEMMA ElementIs ==
    ASSUME DumpTypes, Len(dSnapshots) > 0, D!Key \in D!QueueNames
    PROVE  /\ D!Queue.count \in Nat
           /\ DOMAIN D!Contents(D!Queue) = 1 .. D!Queue.count
           /\ \A i \in Nat : i < D!Queue.count =>
                  D!Element(i) \in Data /\ D!Element(i) = D!Contents(D!Queue)[i + 1]
<1>1. D!Snapshot \in Snapshots
  BY DEF DumpTypes, D!Snapshot, D!Last
<1> DEFINE q == D!Queue
<1>2. /\ q.data \in Seq(D!Range(q.data)) /\ q.head \in 0 .. Len(q.data) - 1
      /\ q.count \in 0 .. Len(q.data)
  BY <1>1, Cycles DEF D!SnapshotsAssumption, D!Queue
<1>5. D!Range(q.data) \subseteq Data
  BY <1>1 DEF D!Queue, Data
<1>3. DOMAIN D!Contents(q) = 1 .. q.count /\ q.count \in Nat
  BY <1>2 DEF D!Contents
<1>4. ASSUME NEW i \in Nat, i < q.count
      PROVE  D!Element(i) \in Data /\ D!Element(i) = D!Contents(q)[i + 1]
  <2>1. ((q.head + i) % Len(q.data)) + 1 \in 1 .. Len(q.data)
    <3>1. \A a \in Nat, n \in Nat \ {0} : (a % n) + 1 \in 1 .. n
      OBVIOUS
    <3>2. q.head + i \in Nat /\ Len(q.data) \in Nat \ {0}
      BY <1>2
    <3> QED
      BY <3>1, <3>2
  <2>2. D!Element(i) = q.data[((q.head + i) % Len(q.data)) + 1]
    BY DEF D!Element, D!LogicalIndex
  <2>3. D!Element(i) \in D!Range(q.data)
    BY <1>2, <2>1, <2>2 DEF D!Range
  <2>4. i + 1 \in 1 .. q.count /\ q.head + (i + 1) - 1 = q.head + i
    BY <1>2, <1>4
  <2>5. D!Contents(q)[i + 1] = q.data[((q.head + (i + 1) - 1) % Len(q.data)) + 1]
    BY <2>4 DEF D!Contents
  <2> QED
    BY <1>5, <2>2, <2>3, <2>4, <2>5
<1> QED
  BY <1>3, <1>4

\* L keeps what it has when it grows.
LEMMA CoveredGrows ==
    ASSUME NEW L, NEW M, L \subseteq M, NEW n
    PROVE  /\ \A cycle : MissingCovered(L, n, cycle) => MissingCovered(M, n, cycle)
           /\ \A name, array : ArrayCovered(L, n, name, array) => ArrayCovered(M, n, name, array)
           /\ \A cycle : CycleCovered(L, n, cycle) => CycleCovered(M, n, cycle)
  BY DEF MissingCovered, ArrayCovered, CycleCovered

\* While no cycle is dumped only the document counts.
LEMMA DumpBetweenCycles ==
    ASSUME DumpInv, dPhase \notin {"returned", "crashed"},
           DumpTypes', DumpPlace', UNCHANGED <<dRoot, dSnapshots>>,
           dPhase' \in {"cycle", "returned", "crashed"}, dFailed' \in {dFailed, dFailed + 1}
    PROVE  DumpInv'
<1>1. ~InCycle' /\ ~InQueue'
  BY DEF InCycle, InQueue
<1>2. DumpShows'
  BY <1>1 DEF DumpInv, DumpShows
<1>3. PICK L : IsFiniteSet(L) /\ Cardinality(L) <= dFailed /\ DumpCovered(L)
  BY DEF DumpInv, DumpCounted
<1>4. DumpCovered(L)'
  BY <1>1, <1>3 DEF DumpCovered
<1>5. Cardinality(L) \in Nat /\ dFailed \in Nat
  BY <1>3, FS_CardinalityType DEF DumpInv, DumpTypes
<1>6. Cardinality(L) <= dFailed'
  BY <1>3, <1>5
<1> QED
  BY <1>2, <1>3, <1>4, <1>6 DEF DumpInv, DumpCounted

\* A call that fails ends the simulation.
LEMMA StopKept ==
    ASSUME DumpInv, dPhase \notin {"returned", "crashed"}, D!Stop
    PROVE  DumpInv'
<1>1. /\ dPhase' = "returned" /\ dFailed' = dFailed + 1
      /\ UNCHANGED <<dSnapshots, dRoot, dStateObj, dQueueArray, dEntry, dField, dIndex, dFinished>>
  BY DEF D!Stop, D!doc
<1>2. DumpTypes'
  BY <1>1 DEF DumpInv, DumpTypes
<1>3. DumpPlace'
  <2>1. dFailed' > 0
    BY <1>1 DEF DumpInv, DumpTypes
  <2> QED
    BY <1>1, <2>1 DEF DumpInv, DumpPlace, InQueue, CycleNow
<1> QED
  BY <1>1, <1>2, <1>3, DumpBetweenCycles

\* A member is added, of which nothing is missing that L has not.
LEMMA MemberAdded ==
    ASSUME DumpInv, dPhase = "field" \/ InQueue, NEW v \in Seq(DumpElement),
           D!Key \in D!QueueNames => D!Shown(v) = D!Contents(D!Queue),
           NEW L, IsFiniteSet(L), Cardinality(L) <= dFailed, DumpCovered(L),
           ArrayCovered(L, CycleNow, D!Key, v),
           D!AddMember(v), D!NextField,
           UNCHANGED <<dSnapshots, dRoot, dQueueArray, dEntry, dIndex, dFailed, dFinished>>
    PROVE  DumpInv'
<1> DEFINE m == [key |-> D!Key, value |-> v]
<1>1. /\ DumpTypes /\ dField \in 1 .. 10 /\ Len(dStateObj) = dField - 1 /\ dStateObj \in Seq(DumpMember)
      /\ D!Key = D!Fields[dField] /\ m \in DumpMember
  BY FieldsAre DEF DumpInv, DumpTypes, DumpPlace, D!Key, DumpMember
<1>2. dStateObj' = Append(dStateObj, m)
  BY DEF D!AddMember
<1> HIDE DEF m
<1>3. /\ dStateObj' \in Seq(DumpMember) /\ Len(dStateObj') = dField /\ dStateObj'[dField] = m
      /\ \A i \in 1 .. dField - 1 : dStateObj'[i] = dStateObj[i]
  BY <1>1, <1>2, AppendIs
<1>4. \/ dField < 10 /\ dPhase' = "field" /\ dField' = dField + 1
      \/ dField = 10 /\ dPhase' = "append" /\ dField' = dField
  BY <1>1, FieldsAre DEF D!NextField
<1>5. DumpTypes'
  <2>1. dPhase' \in {"field", "append"} /\ dField' \in 1 .. 10
    BY <1>1, <1>4
  <2> QED
    BY <1>1, <1>3, <2>1 DEF DumpTypes
<1>6. ~InQueue' /\ InCycle /\ dPhase' # "members"
  BY <1>4 DEF InQueue, InCycle
<1>7. DumpPlace'
  <2>1. dPhase # "returned" /\ ~dFinished /\ Len(dSnapshots) = CycleNow
    BY DEF DumpInv, DumpPlace, InQueue
  <2>2. dPhase' = "field" => Len(dStateObj') = dField' - 1
    BY <1>1, <1>3, <1>4
  <2>3. dPhase' = "append" => Len(dStateObj') = 10
    BY <1>1, <1>3, <1>4
  <2>4. dPhase' # "returned" /\ CycleNow' = CycleNow
    BY <1>4 DEF CycleNow
  <2> QED
    BY <1>6, <2>1, <2>2, <2>3, <2>4 DEF DumpPlace
<1>8. CycleShows(dStateObj', D!Snapshot')
  <2>1. CycleShows(dStateObj, D!Snapshot) /\ D!Snapshot' = D!Snapshot
    BY <1>6 DEF DumpInv, DumpShows, D!Snapshot
  <2>2. ASSUME NEW k \in 1 .. dField
        PROVE  /\ dStateObj'[k].key = D!Fields[k]
               /\ dStateObj'[k].key \in D!QueueNames =>
                     D!Shown(dStateObj'[k].value) = D!Contents(D!Snapshot[dStateObj'[k].key])
    <3>1. CASE k = dField
      <4>1. dStateObj'[k].key = D!Key /\ dStateObj'[k].value = v
        BY <1>3, <3>1 DEF m
      <4> QED
        BY <1>1, <3>1, <4>1 DEF D!Queue
    <3>2. CASE k \in 1 .. dField - 1
      <4>1. dStateObj'[k] = dStateObj[k]
        BY <1>3, <3>2
      <4> QED
        BY <1>1, <2>1, <3>2, <4>1 DEF CycleShows
    <3> QED
      BY <1>1, <3>1, <3>2
  <2> QED
    BY <1>3, <2>1, <2>2 DEF CycleShows
<1>10. DumpShows'
  BY <1>6, <1>8 DEF DumpInv, DumpShows
<1>9. DumpCovered(L)'
  <2>1. CycleNow' = CycleNow
    BY DEF CycleNow
  <2>2. CycleCovered(L, CycleNow, dStateObj')
    <3> SUFFICES ASSUME NEW k \in 1 .. dField
                 PROVE  ArrayCovered(L, CycleNow, dStateObj'[k].key, dStateObj'[k].value)
      BY <1>3 DEF CycleCovered
    <3>1. CASE k = dField
      <4>1. dStateObj'[k].key = D!Key /\ dStateObj'[k].value = v
        BY <1>3, <3>1 DEF m
      <4> QED
        BY <4>1
    <3>2. CASE k \in 1 .. dField - 1
      <4>1. dStateObj'[k] = dStateObj[k]
        BY <1>3, <3>2
      <4> QED
        BY <1>1, <1>6, <3>2, <4>1 DEF DumpCovered, CycleCovered
    <3> QED
      BY <1>1, <3>1, <3>2
  <2>3. dPhase' = "append" => MissingCovered(L, CycleNow, dStateObj')
    <3> SUFFICES ASSUME dField = 10
                 PROVE  D!MissingIn(dStateObj') = {}
      BY <1>4 DEF MissingCovered
    <3>1. ASSUME NEW k \in 1 .. 10
          PROVE  \E x \in D!Range(dStateObj') : x.key = D!Fields[k]
      <4>1. dStateObj'[k].key = D!Fields[k] /\ DOMAIN dStateObj' = 1 .. 10
        BY <1>3, <1>8 DEF CycleShows
      <4> QED
        BY <4>1 DEF D!Range
    <3> QED
      BY <3>1, FieldsAre DEF D!MissingIn
  <2> QED
    BY <1>6, <2>1, <2>2, <2>3 DEF DumpCovered
<1> QED
  BY <1>5, <1>7, <1>9, <1>10 DEF DumpInv, DumpCounted

\* L, and one more loss that a failed call accounts for
LEMMA OneMore ==
    ASSUME NEW L, IsFiniteSet(L), NEW n \in Nat, Cardinality(L) <= n, NEW x
    PROVE  IsFiniteSet(L \cup {x}) /\ Cardinality(L \cup {x}) <= n + 1
<1>1. Cardinality(L) \in Nat
  BY FS_CardinalityType
<1>2. /\ IsFiniteSet(L \cup {x})
      /\ Cardinality(L \cup {x}) = IF x \in L THEN Cardinality(L) ELSE Cardinality(L) + 1
  BY FS_AddElement
<1> QED
  BY <1>1, <1>2

\* A member of an element is made, or its call fails.
LEMMA EntryMemberKept ==
    ASSUME DumpInv, D!AddEntryMember
    PROVE  DumpInv'
<1> DEFINE name == D!Key
           n == Len(dEntry)
           key == D!KeysOf(name)[n + 1]
<1>1. /\ dPhase = "members" /\ n < Len(D!KeysOf(name)) /\ InQueue /\ InCycle
      /\ UNCHANGED <<dSnapshots, dRoot, dStateObj, dQueueArray, dField, dIndex, dFinished>>
  BY DEF D!AddEntryMember, D!MembersMade, InQueue, InCycle
<1>2. /\ dEntry \in Seq(DumpKey) /\ n \in Nat /\ n + 1 \in 1 .. Len(D!KeysOf(name)) /\ key \in DumpName
      /\ dFailed \in Nat
  BY <1>1, KeysAre DEF DumpInv, DumpTypes
<1>3. name' = name /\ D!Queue' = D!Queue /\ CycleNow' = CycleNow /\ D!Snapshot' = D!Snapshot
  BY <1>1 DEF D!Key, D!Queue, D!Snapshot, CycleNow
<1>4. PICK L : IsFiniteSet(L) /\ Cardinality(L) <= dFailed /\ DumpCovered(L)
  BY DEF DumpInv, DumpCounted
<1>5. ASSUME NEW made \in BOOLEAN, dEntry' = Append(dEntry, [key |-> key, made |-> made]),
             dPhase' = dPhase, dFailed' \in Nat,
             NEW M, IsFiniteSet(M), Cardinality(M) <= dFailed', L \subseteq M,
             made \/ <<CycleNow, name, dIndex + 1, key>> \in M
      PROVE  DumpInv'
  <2> DEFINE e == [key |-> key, made |-> made]
  <2>1. e \in DumpKey
    BY <1>2 DEF DumpKey
  <2>2. /\ dEntry' \in Seq(DumpKey) /\ Len(dEntry') = n + 1 /\ dEntry'[n + 1] = e
        /\ \A i \in 1 .. n : dEntry'[i] = dEntry[i]
    BY <1>2, <1>5, <2>1, AppendIs
  <2>3. e.key = key /\ e.made = made
    OBVIOUS
  <2> HIDE DEF e
  <2>4. InQueue' /\ InCycle' /\ dPhase' = "members"
    BY <1>1, <1>5 DEF InQueue, InCycle
  <2>5. DumpTypes'
    BY <1>1, <1>5, <2>2 DEF DumpInv, DumpTypes
  <2>6. DumpPlace'
    <3>1. ASSUME NEW j \in 1 .. n + 1
          PROVE  dEntry'[j].key = D!KeysOf(name)[j]
      <4>1. CASE j = n + 1
        BY <2>2, <2>3, <4>1
      <4>2. CASE j \in 1 .. n
        BY <1>1, <2>2, <4>2 DEF DumpInv, DumpPlace
      <4> QED
        BY <1>2, <4>1, <4>2
    <3>2. Len(dEntry') <= Len(D!KeysOf(name)) /\ dIndex < D!Queue.count
      BY <1>1, <1>2, <2>2 DEF DumpInv, DumpPlace
    <3>3. /\ ~dFinished /\ Len(dSnapshots) = CycleNow /\ Len(dStateObj) = dField - 1
          /\ name \in D!QueueNames /\ Len(dQueueArray) = dIndex /\ dIndex <= D!Queue.count
      BY <1>1 DEF DumpInv, DumpPlace
    <3> QED
      BY <1>1, <1>3, <2>2, <2>4, <3>1, <3>2, <3>3 DEF DumpPlace
  <2>7. DumpShows'
    BY <1>1, <1>3 DEF DumpInv, DumpShows
  <2>8. DumpCovered(M)'
    <3>1. /\ \A k \in 1 .. Len(dRoot) : MissingCovered(M, k, dRoot[k]) /\ CycleCovered(M, k, dRoot[k])
          /\ CycleCovered(M, CycleNow, dStateObj) /\ ArrayCovered(M, CycleNow, name, dQueueArray)
      BY <1>1, <1>4, <1>5, CoveredGrows DEF DumpCovered
    <3>2. ASSUME NEW j \in 1 .. n + 1
          PROVE  dEntry'[j].made \/ <<CycleNow, name, dIndex + 1, dEntry'[j].key>> \in M
      <4>1. CASE j = n + 1
        BY <1>5, <2>2, <2>3, <4>1
      <4>2. CASE j \in 1 .. n
        <5>1. dEntry[j].made \/ <<CycleNow, name, dIndex + 1, dEntry[j].key>> \in L
          BY <1>1, <1>4, <4>2 DEF DumpCovered
        <5> QED
          BY <1>5, <2>2, <4>2, <5>1
      <4> QED
        BY <1>2, <4>1, <4>2
    <3> QED
      BY <1>1, <1>3, <2>2, <2>4, <3>1, <3>2 DEF DumpCovered
  <2> QED
    BY <1>5, <2>5, <2>6, <2>7, <2>8 DEF DumpInv, DumpCounted
<1>6. CASE dEntry' = Append(dEntry, [key |-> key, made |-> TRUE]) /\ UNCHANGED <<dPhase, dFailed>>
  BY <1>2, <1>4, <1>5, <1>6
<1>7. CASE dFailed' = dFailed + 1 /\ dEntry' = dEntry \o <<[key |-> key, made |-> FALSE]>> /\ UNCHANGED dPhase
  <2> DEFINE x == <<CycleNow, name, dIndex + 1, key>>
  <2>1. [key |-> key, made |-> FALSE] \in DumpKey
    BY <1>2 DEF DumpKey
  <2>2. dEntry' = Append(dEntry, [key |-> key, made |-> FALSE])
    <3>1. \A S : \A s \in Seq(S), e \in S : s \o <<e>> = Append(s, e)
      OBVIOUS
    <3> QED
      BY <1>2, <1>7, <2>1, <3>1
  <2>3. IsFiniteSet(L \cup {x}) /\ Cardinality(L \cup {x}) <= dFailed'
    BY <1>2, <1>4, <1>7, OneMore
  <2>4. dFailed' \in Nat /\ L \subseteq L \cup {x} /\ x \in L \cup {x}
    BY <1>2, <1>7
  <2> DEFINE M == L \cup {x}
  <2>5. /\ dFailed' \in Nat /\ IsFiniteSet(M) /\ Cardinality(M) <= dFailed' /\ L \subseteq M
        /\ <<CycleNow, name, dIndex + 1, key>> \in M
    BY <2>3, <2>4
  <2> HIDE DEF M
  <2> QED
    BY <1>5, <1>7, <2>2, <2>5
<1>8. CASE dFailed' = dFailed + 1 /\ dPhase' = "crashed" /\ UNCHANGED dEntry
  <2>1. DumpTypes'
    BY <1>1, <1>8 DEF DumpInv, DumpTypes
  <2>2. DumpPlace'
    BY <1>1, <1>8 DEF DumpInv, DumpPlace, InQueue, CycleNow
  <2> QED
    BY <1>1, <1>8, <2>1, <2>2, DumpBetweenCycles
<1> QED
  BY <1>6, <1>7, <1>8 DEF D!AddEntryMember, D!Unmade, D!NextKey, D!MembersMade

\* An element with the members that were made joins the array.
LEMMA ElementKept ==
    ASSUME DumpInv, D!AppendElement
    PROVE  DumpInv'
<1> DEFINE name == D!Key
           n == Len(dQueueArray)
           made == {m.key : m \in {e \in D!Range(dEntry) : e.made}}
           el == [of |-> D!Element(dIndex), keys |-> made]
<1>1. /\ dPhase = "members" /\ Len(dEntry) = Len(D!KeysOf(name)) /\ InQueue /\ InCycle
      /\ dPhase' = "element" /\ dIndex' = dIndex + 1 /\ InQueue' /\ InCycle'
      /\ UNCHANGED <<dSnapshots, dRoot, dStateObj, dEntry, dField, dFailed, dFinished>>
  BY DEF D!AppendElement, D!MembersMade, InQueue, InCycle
<1>2. dQueueArray' = Append(dQueueArray, el)
  BY DEF D!AppendElement
<1>3. name' = name /\ D!Queue' = D!Queue /\ CycleNow' = CycleNow /\ D!Snapshot' = D!Snapshot
  BY <1>1 DEF D!Key, D!Queue, D!Snapshot, CycleNow
<1>4. /\ ~dFinished /\ Len(dSnapshots) = CycleNow /\ Len(dStateObj) = dField - 1
      /\ name \in D!QueueNames /\ n = dIndex /\ dIndex < D!Queue.count
      /\ \A j \in 1 .. Len(dEntry) : dEntry[j].key = D!KeysOf(name)[j]
  BY <1>1 DEF DumpInv, DumpPlace
<1>5. DumpTypes /\ Len(dSnapshots) > 0 /\ dIndex \in Nat /\ dEntry \in Seq(DumpKey)
      /\ dQueueArray \in Seq(DumpElement) /\ DOMAIN dEntry = 1 .. Len(dEntry)
  BY <1>4 DEF DumpInv, DumpTypes, CycleNow
<1>6. /\ D!Element(dIndex) \in Data /\ D!Element(dIndex) = D!Contents(D!Queue)[dIndex + 1]
      /\ D!Queue.count \in Nat
  BY <1>4, <1>5, ElementIs
<1>7. el \in DumpElement
  <2>1. \A e \in D!Range(dEntry) : e.key \in DumpName
    <3>1. \A e \in D!Range(dEntry) : e \in DumpKey
      BY <1>5 DEF D!Range
    <3> QED
      BY <3>1 DEF DumpKey
  <2>2. made \in SUBSET DumpName
    BY <2>1
  <2> QED
    BY <1>6, <2>2 DEF DumpElement
<1>8. el.of = D!Element(dIndex) /\ el.keys = made
  OBVIOUS
<1> HIDE DEF el
<1>9. /\ dQueueArray' \in Seq(DumpElement) /\ Len(dQueueArray') = n + 1 /\ dQueueArray'[n + 1] = el
      /\ n \in Nat /\ \A i \in 1 .. n : dQueueArray'[i] = dQueueArray[i]
  BY <1>2, <1>5, <1>7, AppendIs
<1>10. DumpTypes'
  BY <1>1, <1>5, <1>9 DEF DumpTypes
<1>11. DumpPlace'
  <2>1. Len(dQueueArray') = dIndex' /\ dIndex' <= D!Queue.count
    BY <1>1, <1>4, <1>5, <1>6, <1>9
  <2> QED
    BY <1>1, <1>3, <1>4, <2>1 DEF DumpPlace
<1>12. DumpShows'
  <2>1. ASSUME NEW i \in 1 .. n + 1
        PROVE  dQueueArray'[i].of = D!Contents(D!Queue)[i]
    <3>1. CASE i = n + 1
      BY <1>4, <1>6, <1>8, <1>9, <3>1
    <3>2. CASE i \in 1 .. n
      BY <1>1, <1>9, <3>2 DEF DumpInv, DumpShows
    <3> QED
      BY <1>9, <3>1, <3>2
  <2>2. /\ \A k \in 1 .. Len(dRoot) : CycleShows(dRoot[k], dSnapshots[k]) /\ Len(dRoot[k]) >= 9
        /\ CycleShows(dStateObj, D!Snapshot)
    BY <1>1 DEF DumpInv, DumpShows
  <2> QED
    BY <1>1, <1>3, <1>9, <2>1, <2>2 DEF DumpShows
<1>13. PICK L : IsFiniteSet(L) /\ Cardinality(L) <= dFailed /\ DumpCovered(L)
  BY DEF DumpInv, DumpCounted
<1>14. DumpCovered(L)'
  <2>1. ArrayCovered(L, CycleNow, name, dQueueArray')
    <3> SUFFICES ASSUME NEW i \in 1 .. n + 1, NEW k \in D!Range(D!KeysOf(name)) \ dQueueArray'[i].keys
                 PROVE  <<CycleNow, name, i, k>> \in L
      BY <1>9 DEF ArrayCovered
    <3>1. CASE i = n + 1
      <4>1. k \notin made
        BY <1>8, <1>9, <3>1
      <4>2. D!KeysOf(name) \in Seq(DumpName)
        BY KeysAre
      <4>3. PICK j \in 1 .. Len(dEntry) : k = D!KeysOf(name)[j]
        BY <1>1, <4>2 DEF D!Range
      <4>4. k = dEntry[j].key /\ dEntry[j] \in D!Range(dEntry)
        BY <1>4, <1>5, <4>3 DEF D!Range
      <4>5. ~dEntry[j].made
        BY <4>1, <4>4
      <4>6. <<CycleNow, name, dIndex + 1, k>> \in L
        BY <1>1, <1>13, <4>4, <4>5 DEF DumpCovered
      <4> QED
        BY <1>4, <3>1, <4>6
    <3>2. CASE i \in 1 .. n
      <4>1. ArrayCovered(L, CycleNow, name, dQueueArray)
        BY <1>1, <1>13 DEF DumpCovered
      <4>2. k \in D!Range(D!KeysOf(name)) \ dQueueArray[i].keys
        BY <1>9, <3>2
      <4> QED
        BY <3>2, <4>1, <4>2 DEF ArrayCovered
    <3> QED
      BY <1>9, <3>1, <3>2
  <2>2. /\ \A k \in 1 .. Len(dRoot) : MissingCovered(L, k, dRoot[k]) /\ CycleCovered(L, k, dRoot[k])
        /\ CycleCovered(L, CycleNow, dStateObj)
    BY <1>1, <1>13 DEF DumpCovered
  <2> QED
    BY <1>1, <1>3, <2>1, <2>2 DEF DumpCovered
<1> QED
  BY <1>1, <1>10, <1>11, <1>12, <1>13, <1>14 DEF DumpInv, DumpCounted

\* A queue whose call nobody tests is lost: it is the integer queue, the last member.
LEMMA QueueLost ==
    ASSUME DumpInv, dPhase = "element", D!Key \in D!Untested, D!NextField, dFailed' = dFailed + 1,
           UNCHANGED <<dSnapshots, dRoot, dStateObj, dQueueArray, dEntry, dIndex, dFinished>>
    PROVE  DumpInv'
<1>1. dField = 10 /\ Len(dStateObj) = 9 /\ InCycle /\ DumpTypes
  <2>1. dField \in 1 .. 10 /\ D!Fields[dField] = "IntegerQueue" /\ Len(dStateObj) = dField - 1
    BY DEF DumpInv, DumpTypes, DumpPlace, InQueue, D!Key, D!Untested
  <2>2. dField = 10
    BY <2>1, FieldsAre
  <2> QED
    BY <2>1, <2>2 DEF InCycle, InQueue, DumpInv
<1>2. dPhase' = "append" /\ dField' = 10 /\ ~InQueue' /\ InCycle'
  BY <1>1, FieldsAre DEF D!NextField, InQueue, InCycle
<1>3. DumpTypes'
  BY <1>1, <1>2 DEF DumpTypes
<1>4. DumpPlace'
  <2>1. ~dFinished /\ Len(dSnapshots) = CycleNow /\ CycleNow' = CycleNow
    BY DEF DumpInv, DumpPlace, CycleNow
  <2> QED
    BY <1>1, <1>2, <2>1 DEF DumpPlace
<1>5. CycleShows(dStateObj, D!Snapshot)
  BY <1>1 DEF DumpInv, DumpShows
<1>6. DumpShows'
  BY <1>2, <1>5 DEF DumpInv, DumpShows, D!Snapshot
<1>7. PICK L : IsFiniteSet(L) /\ Cardinality(L) <= dFailed /\ DumpCovered(L)
  BY DEF DumpInv, DumpCounted
<1> PICK M : M = L \cup {<<CycleNow, 10>>}
  OBVIOUS
<1>8. IsFiniteSet(M) /\ Cardinality(M) <= dFailed' /\ L \subseteq M /\ <<CycleNow, 10>> \in M
  BY <1>1, <1>7, OneMore DEF DumpTypes
<1>9. DumpCovered(M)'
  <2>1. D!MissingIn(dStateObj) \subseteq {10}
    <3>1. ASSUME NEW k \in 1 .. 9
          PROVE  \E x \in D!Range(dStateObj) : x.key = D!Fields[k]
      <4>1. dStateObj[k].key = D!Fields[k] /\ DOMAIN dStateObj = 1 .. 9
        <5>1. dStateObj \in Seq(DumpMember)
          BY <1>1 DEF DumpTypes
        <5> QED
          BY <1>1, <1>5, <5>1 DEF CycleShows
      <4> QED
        BY <4>1 DEF D!Range
    <3>2. \A k \in 1 .. 10 : k = 10 \/ k \in 1 .. 9
      OBVIOUS
    <3> QED
      BY <3>1, <3>2, FieldsAre DEF D!MissingIn
  <2>2. MissingCovered(M, CycleNow, dStateObj)
    BY <1>8, <2>1 DEF MissingCovered
  <2>3. /\ \A n \in 1 .. Len(dRoot) : MissingCovered(M, n, dRoot[n]) /\ CycleCovered(M, n, dRoot[n])
        /\ CycleCovered(M, CycleNow, dStateObj)
    <3>1. /\ \A n \in 1 .. Len(dRoot) : MissingCovered(L, n, dRoot[n]) /\ CycleCovered(L, n, dRoot[n])
          /\ CycleCovered(L, CycleNow, dStateObj)
      BY <1>1, <1>7 DEF DumpCovered
    <3> QED
      BY <1>8, <3>1, CoveredGrows
  <2>4. CycleNow' = CycleNow
    BY DEF CycleNow
  <2> QED
    BY <1>2, <2>2, <2>3, <2>4 DEF DumpCovered
<1> QED
  BY <1>3, <1>4, <1>6, <1>8, <1>9 DEF DumpInv, DumpCounted

\* DumpInv is about the variables of the dump alone.
LEMMA DumpStutters ==
    ASSUME DumpInv,
           UNCHANGED <<dSnapshots, dRoot, dStateObj, dQueueArray, dEntry, dPhase, dField, dIndex, dFailed, dFinished>>
    PROVE  DumpInv'
<1>1. /\ InQueue' = InQueue /\ InCycle' = InCycle /\ CycleNow' = CycleNow
      /\ D!Key' = D!Key /\ D!Queue' = D!Queue /\ D!Snapshot' = D!Snapshot
  BY DEF InQueue, InCycle, CycleNow, D!Key, D!Queue, D!Snapshot
<1>2. DumpTypes' /\ DumpPlace'
  BY <1>1 DEF DumpInv, DumpTypes, DumpPlace
<1>3. DumpShows'
  BY <1>1 DEF DumpInv, DumpShows
<1>4. ASSUME NEW L, DumpCovered(L)
      PROVE  DumpCovered(L)'
  BY <1>1, <1>4 DEF DumpCovered
<1> QED
  BY <1>2, <1>3, <1>4 DEF DumpInv, DumpCounted

\* The object joins the document; the next cycle is shown, or it was the last.
LEMMA CycleKept ==
    ASSUME DumpInv, D!AppendAndCycle
    PROVE  DumpInv'
<1> DEFINE n == CycleNow
<1>1. /\ dPhase = "append" /\ InCycle /\ dRoot' = Append(dRoot, dStateObj)
      /\ UNCHANGED <<dStateObj, dQueueArray, dEntry, dField, dIndex, dFailed>>
      /\ \/ dFinished' = TRUE /\ dPhase' = "returned" /\ UNCHANGED dSnapshots
         \/ /\ \E s \in Snapshots : dSnapshots' = Append(dSnapshots, s)
            /\ dPhase' = "cycle" /\ UNCHANGED dFinished
  BY DEF D!AppendAndCycle, D!Appended, InCycle
<1>2. /\ DumpTypes /\ dRoot \in Seq(Seq(DumpMember)) /\ dStateObj \in Seq(DumpMember)
      /\ dSnapshots \in Seq(Snapshots) /\ Len(dRoot) \in Nat /\ n = Len(dRoot) + 1
  BY DEF DumpInv, DumpTypes, CycleNow
<1>3. ~dFinished /\ Len(dSnapshots) = n /\ Len(dStateObj) >= 9
  <2>1. ~dFinished /\ Len(dSnapshots) = n
    BY <1>1 DEF DumpInv, DumpPlace
  <2>2. Len(dStateObj) \in {9, 10}
    BY <1>1 DEF DumpInv, DumpPlace
  <2>3. Len(dStateObj) >= 9
    <3>1. \A x \in {9, 10} : x >= 9
      OBVIOUS
    <3> QED
      BY <2>2, <3>1
  <2> QED
    BY <2>1, <2>3
<1> HIDE DEF n
<1>4. /\ dRoot' \in Seq(Seq(DumpMember)) /\ Len(dRoot') = n /\ dRoot'[n] = dStateObj
      /\ \A i \in 1 .. Len(dRoot) : dRoot'[i] = dRoot[i]
  BY <1>1, <1>2, AppendIs
<1>5. /\ dSnapshots' \in Seq(Snapshots) /\ \A i \in 1 .. n : dSnapshots'[i] = dSnapshots[i]
      /\ Len(dSnapshots') = IF dFinished' THEN n ELSE n + 1
      /\ dPhase' \in {"returned", "cycle"} /\ (dFinished' => dPhase' = "returned")
      /\ (dPhase' = "returned" => dFinished') /\ dFinished' \in BOOLEAN
  <2>1. CASE dFinished' = TRUE /\ dPhase' = "returned" /\ UNCHANGED dSnapshots
    BY <1>2, <1>3, <2>1
  <2>2. CASE /\ \E s \in Snapshots : dSnapshots' = Append(dSnapshots, s)
             /\ dPhase' = "cycle" /\ UNCHANGED dFinished
    <3>1. /\ dSnapshots' \in Seq(Snapshots) /\ Len(dSnapshots') = n + 1
          /\ \A i \in 1 .. n : dSnapshots'[i] = dSnapshots[i]
      BY <1>2, <1>3, <2>2, AppendIs
    <3>2. dFinished' = FALSE
      BY <1>2, <1>3, <2>2 DEF DumpTypes
    <3> QED
      BY <1>3, <2>2, <3>1, <3>2
  <2> QED
    BY <1>1, <2>1, <2>2
<1>6. ~InCycle' /\ ~InQueue'
  BY <1>5 DEF InCycle, InQueue
<1>7. DumpTypes'
  BY <1>1, <1>2, <1>4, <1>5 DEF DumpTypes
<1>8. DumpPlace'
  <2>1. Len(dSnapshots') = IF dFinished' THEN Len(dRoot') ELSE CycleNow'
    BY <1>4, <1>5 DEF CycleNow
  <2> QED
    BY <1>5, <1>6, <2>1 DEF DumpPlace, InQueue
<1>9. \A i \in 1 .. n : i = n \/ i \in 1 .. Len(dRoot)
  BY <1>2
<1>10. DumpShows'
  <2>1. CycleShows(dStateObj, dSnapshots[n])
    BY <1>1, <1>3 DEF DumpInv, DumpShows, D!Snapshot, D!Last
  <2>2. ASSUME NEW i \in 1 .. n
        PROVE  CycleShows(dRoot'[i], dSnapshots'[i]) /\ Len(dRoot'[i]) >= 9
    <3>1. CASE i = n
      BY <1>3, <1>4, <1>5, <2>1, <3>1
    <3>2. CASE i \in 1 .. Len(dRoot)
      BY <1>4, <1>5, <3>2 DEF DumpInv, DumpShows
    <3> QED
      BY <1>9, <3>1, <3>2
  <2> QED
    BY <1>4, <1>6, <2>2 DEF DumpShows
<1>11. PICK L : IsFiniteSet(L) /\ Cardinality(L) <= dFailed /\ DumpCovered(L)
  BY DEF DumpInv, DumpCounted
<1>12. DumpCovered(L)'
  <2>1. ASSUME NEW i \in 1 .. n
        PROVE  MissingCovered(L, i, dRoot'[i]) /\ CycleCovered(L, i, dRoot'[i])
    <3>1. CASE i = n
      <4>1. MissingCovered(L, n, dStateObj) /\ CycleCovered(L, n, dStateObj)
        BY <1>1, <1>11 DEF DumpCovered, n
      <4> QED
        BY <1>4, <3>1, <4>1
    <3>2. CASE i \in 1 .. Len(dRoot)
      BY <1>4, <1>11, <3>2 DEF DumpCovered
    <3> QED
      BY <1>9, <3>1, <3>2
  <2> QED
    BY <1>4, <1>5, <1>6, <2>1 DEF DumpCovered
<1> QED
  BY <1>1, <1>7, <1>8, <1>10, <1>11, <1>12 DEF DumpInv, DumpCounted

\* Every step of run_simulation keeps DumpInv.
LEMMA DumpKept ==
    ASSUME DumpInv, D!Next
    PROVE  DumpInv'
<1>1. PICK L : IsFiniteSet(L) /\ Cardinality(L) <= dFailed /\ DumpCovered(L)
  BY DEF DumpInv, DumpCounted
<1>2. CASE D!NewStateObj
  <2>1. dPhase = "cycle"
    BY <1>2 DEF D!NewStateObj
  <2>2. CASE /\ dStateObj' = << >> /\ dField' = 1 /\ dPhase' = "field"
             /\ UNCHANGED <<dSnapshots, dRoot, dQueueArray, dEntry, dIndex, dFailed, dFinished>>
    <3>1. DumpTypes'
      BY <2>2 DEF DumpInv, DumpTypes
    <3>2. ~InQueue' /\ InCycle' /\ CycleNow' = CycleNow /\ Len(dStateObj') = 0
      BY <2>2 DEF InQueue, InCycle, CycleNow
    <3>3. DumpPlace'
      BY <2>1, <2>2, <3>2 DEF DumpInv, DumpPlace, InQueue
    <3>4. CycleShows(dStateObj', D!Snapshot') /\ CycleCovered(L, CycleNow, dStateObj')
      BY <3>2 DEF CycleShows, CycleCovered
    <3>5. DumpShows'
      BY <2>2, <3>2, <3>4 DEF DumpInv, DumpShows
    <3>6. DumpCovered(L)'
      BY <1>1, <2>2, <3>2, <3>4 DEF DumpCovered
    <3> QED
      BY <1>1, <2>2, <3>1, <3>3, <3>5, <3>6 DEF DumpInv, DumpCounted
  <2> QED
    BY <1>2, <2>1, <2>2, StopKept DEF D!NewStateObj
<1>3. CASE D!AddPlainField
  <2>1. dPhase = "field" /\ D!Key \notin D!QueueNames
    BY <1>3 DEF D!AddPlainField
  <2>2. CASE /\ D!AddMember(<< >>) /\ D!NextField
             /\ UNCHANGED <<dSnapshots, dRoot, dQueueArray, dEntry, dIndex, dFailed, dFinished>>
    <3>1. << >> \in Seq(DumpElement) /\ Len(<< >>) = 0
      OBVIOUS
    <3>2. ArrayCovered(L, CycleNow, D!Key, << >>)
      BY <3>1 DEF ArrayCovered
    <3> QED
      BY <1>1, <2>1, <2>2, <3>1, <3>2, MemberAdded
  <2> QED
    BY <1>3, <2>1, <2>2, StopKept DEF D!AddPlainField
<1>4. CASE D!NewQueueArray
  <2>1. dPhase = "field" /\ D!Key \in D!QueueNames
    BY <1>4 DEF D!NewQueueArray
  <2>2. CASE /\ dQueueArray' = << >> /\ dIndex' = 0 /\ dPhase' = "element"
             /\ UNCHANGED <<dSnapshots, dRoot, dStateObj, dEntry, dField, dFailed, dFinished>>
    <3>1. DumpTypes'
      BY <2>2 DEF DumpInv, DumpTypes
    <3>2. /\ InQueue' /\ InCycle' /\ InCycle /\ CycleNow' = CycleNow /\ Len(dQueueArray') = 0
          /\ D!Key' = D!Key /\ D!Queue' = D!Queue /\ D!Snapshot' = D!Snapshot
      BY <2>1, <2>2 DEF InQueue, InCycle, CycleNow, D!Key, D!Queue, D!Snapshot
    <3>3. DumpPlace'
      <4>1. ~dFinished /\ Len(dSnapshots) = CycleNow /\ Len(dStateObj) = dField - 1
        BY <2>1 DEF DumpInv, DumpPlace
      <4>2. D!Queue.count \in Nat
        <5>1. Len(dSnapshots) > 0 /\ DumpTypes
          BY <4>1 DEF DumpInv, DumpTypes, CycleNow
        <5> QED
          BY <2>1, <5>1, ElementIs
      <4>3. 0 <= D!Queue.count
        BY <4>2
      <4> QED
        BY <2>1, <2>2, <3>2, <4>1, <4>3 DEF DumpPlace
    <3>4. DumpShows'
      BY <2>2, <3>2 DEF DumpInv, DumpShows
    <3>5. ArrayCovered(L, CycleNow, D!Key, dQueueArray')
      BY <3>2 DEF ArrayCovered
    <3>6. DumpCovered(L)'
      BY <1>1, <2>2, <3>2, <3>5 DEF DumpCovered
    <3> QED
      BY <1>1, <2>2, <3>1, <3>3, <3>4, <3>6 DEF DumpInv, DumpCounted
  <2> QED
    BY <1>4, <2>1, <2>2, StopKept DEF D!NewQueueArray
<1>5. CASE D!NewElement
  <2>1. dPhase = "element" /\ dIndex < D!Queue.count
    BY <1>5 DEF D!NewElement
  <2>2. CASE /\ dEntry' = << >> /\ dPhase' = "members"
             /\ UNCHANGED <<dSnapshots, dRoot, dStateObj, dQueueArray, dField, dIndex, dFailed, dFinished>>
    <3>1. DumpTypes'
      BY <2>2 DEF DumpInv, DumpTypes
    <3>2. /\ InQueue' /\ InQueue /\ InCycle' /\ InCycle /\ CycleNow' = CycleNow /\ Len(dEntry') = 0
          /\ D!Key' = D!Key /\ D!Queue' = D!Queue /\ D!Snapshot' = D!Snapshot
      BY <2>1, <2>2 DEF InQueue, InCycle, CycleNow, D!Key, D!Queue, D!Snapshot
    <3>3. DumpPlace'
      <4>1. 0 <= Len(D!KeysOf(D!Key))
        BY KeysAre
      <4> QED
        BY <2>1, <2>2, <3>2, <4>1 DEF DumpInv, DumpPlace
    <3>4. DumpShows'
      BY <2>2, <3>2 DEF DumpInv, DumpShows
    <3>5. DumpCovered(L)'
      BY <1>1, <2>2, <3>2 DEF DumpCovered
    <3> QED
      BY <1>1, <2>2, <3>1, <3>3, <3>4, <3>5 DEF DumpInv, DumpCounted
  <2> QED
    BY <1>5, <2>1, <2>2, StopKept DEF D!NewElement
<1>6. CASE D!AddQueue
  <2>1. dPhase = "element" /\ dIndex = D!Queue.count /\ InQueue
    BY <1>6 DEF D!AddQueue, InQueue
  <2>2. CASE /\ D!AddMember(dQueueArray) /\ D!NextField
             /\ UNCHANGED <<dSnapshots, dRoot, dQueueArray, dEntry, dIndex, dFailed, dFinished>>
    <3>1. /\ ~dFinished /\ Len(dSnapshots) = CycleNow /\ D!Key \in D!QueueNames
          /\ Len(dQueueArray) = dIndex /\ dQueueArray \in Seq(DumpElement) /\ DumpTypes
      BY <2>1 DEF DumpInv, DumpPlace, DumpTypes
    <3>2. DOMAIN D!Contents(D!Queue) = 1 .. D!Queue.count
      <4>1. Len(dSnapshots) > 0
        BY <3>1 DEF CycleNow, DumpTypes
      <4> QED
        BY <3>1, <4>1, ElementIs
    <3>3. D!Shown(dQueueArray) = D!Contents(D!Queue)
      <4>1. DOMAIN dQueueArray = 1 .. D!Queue.count
        BY <2>1, <3>1
      <4>2. \A i \in 1 .. D!Queue.count : dQueueArray[i].of = D!Contents(D!Queue)[i]
        BY <2>1, <3>1 DEF DumpInv, DumpShows
      <4>3. D!Contents(D!Queue) = [i \in 1 .. D!Queue.count |-> D!Contents(D!Queue)[i]]
        BY <3>2 DEF D!Contents
      <4> QED
        BY <4>1, <4>2, <4>3 DEF D!Shown
    <3>4. ArrayCovered(L, CycleNow, D!Key, dQueueArray)
      BY <1>1, <2>1 DEF DumpCovered
    <3> QED
      BY <1>1, <2>1, <2>2, <3>1, <3>3, <3>4, MemberAdded
  <2>3. CASE /\ D!Key \in D!Untested /\ dFailed' = dFailed + 1 /\ UNCHANGED dStateObj /\ D!NextField
             /\ UNCHANGED <<dSnapshots, dRoot, dQueueArray, dEntry, dIndex, dFinished>>
    BY <2>1, <2>3, QueueLost
  <2> QED
    BY <1>6, <2>1, <2>2, <2>3, StopKept DEF D!AddQueue
<1>7. CASE D!AddEntryMember
  BY <1>7, EntryMemberKept
<1>8. CASE D!AppendElement
  BY <1>8, ElementKept
<1>9. CASE D!AppendAndCycle
  BY <1>9, CycleKept
<1>10. CASE D!Returned
  <2>1. UNCHANGED <<dSnapshots, dRoot, dStateObj, dQueueArray, dEntry, dPhase, dField, dIndex, dFailed, dFinished>>
    BY <1>10 DEF D!Returned, D!vars, D!doc
  <2> QED
    BY <2>1, DumpStutters
<1> QED
  BY <1>2, <1>3, <1>4, <1>5, <1>6, <1>7, <1>8, <1>9, <1>10 DEF D!Next

\* With an empty document there is nothing yet to show.
LEMMA DumpAtFirst ==
    ASSUME NEW s \in Snapshots, dSnapshots = <<s>>, dRoot = << >>, dStateObj = << >>,
           dQueueArray = << >>, dEntry = << >>, dPhase = "cycle", dField = 1, dIndex = 0,
           dFailed = 0, dFinished = FALSE
    PROVE  DumpInv
<1>1. Len(dSnapshots) = 1 /\ Len(dRoot) = 0 /\ dSnapshots \in Seq(Snapshots)
  OBVIOUS
<1>2. ~InQueue /\ ~InCycle /\ CycleNow = 1
  BY <1>1 DEF InQueue, InCycle, CycleNow
<1>3. DumpTypes
  <2>1. \A S : << >> \in Seq(S)
    OBVIOUS
  <2>2. /\ dRoot \in Seq(Seq(DumpMember)) /\ dStateObj \in Seq(DumpMember)
        /\ dQueueArray \in Seq(DumpElement) /\ dEntry \in Seq(DumpKey)
    BY <2>1
  <2>3. dField \in 1 .. 10 /\ dIndex \in Nat /\ dFailed \in Nat
    OBVIOUS
  <2>4. dFinished \in BOOLEAN
    OBVIOUS
  <2> QED
    BY <1>1, <2>2, <2>3, <2>4 DEF DumpTypes
<1>4. DumpPlace
  BY <1>1, <1>2 DEF DumpPlace
<1>5. DumpShows
  BY <1>1, <1>2 DEF DumpShows
<1>6. IsFiniteSet({}) /\ Cardinality({}) <= dFailed
  BY FS_EmptySet
<1>7. DumpCovered({})
  BY <1>1, <1>2 DEF DumpCovered
<1> QED
  BY <1>3, <1>4, <1>5, <1>6, <1>7 DEF DumpInv, DumpCounted

\* The same of the first state of a call
LEMMA DumpCalled ==
    ASSUME NEW s \in Snapshots, DumpLocals(s)
    PROVE  DumpInv'
<1>1. /\ Len(dSnapshots') = 1 /\ Len(dRoot') = 0 /\ dSnapshots' \in Seq(Snapshots)
      /\ dFailed' = 0 /\ dFinished' = FALSE /\ dPhase' = "cycle"
  BY DEF DumpLocals
<1>2. ~InQueue' /\ ~InCycle' /\ CycleNow' = 1
  BY <1>1 DEF InQueue, InCycle, CycleNow
<1>3. DumpTypes'
  <2>1. \A S : << >> \in Seq(S)
    OBVIOUS
  <2>2. /\ dRoot' \in Seq(Seq(DumpMember)) /\ dStateObj' \in Seq(DumpMember)
        /\ dQueueArray' \in Seq(DumpElement) /\ dEntry' \in Seq(DumpKey)
    BY <2>1 DEF DumpLocals
  <2>3. dField' \in 1 .. 10 /\ dIndex' \in Nat /\ dFailed' \in Nat
    BY DEF DumpLocals
  <2>4. dFinished' \in BOOLEAN
    BY DEF DumpLocals
  <2> QED
    BY <1>1, <2>2, <2>3, <2>4 DEF DumpTypes
<1>4. DumpPlace'
  BY <1>1, <1>2 DEF DumpPlace
<1>5. DumpShows'
  BY <1>1, <1>2 DEF DumpShows
<1>6. IsFiniteSet({}) /\ Cardinality({}) <= dFailed'
  BY <1>1, FS_EmptySet
<1>7. DumpCovered({})'
  BY <1>1, <1>2 DEF DumpCovered
<1> QED
  BY <1>3, <1>4, <1>5, <1>6, <1>7 DEF DumpInv, DumpCounted

\* Dump counts with the Cardinality of its own FiniteSets.
LEMMA SameCardinality ==
    ASSUME NEW S
    PROVE  D!Cardinality(S) = Cardinality(S)
  BY Zenon DEF D!Cardinality, Cardinality

\* What the invariant says of the document
LEMMA DumpIsShown ==
    ASSUME DumpInv
    PROVE  DumpIsLog
<1>1. /\ DumpTypes /\ dRoot \in Seq(Seq(DumpMember)) /\ Len(dRoot) \in Nat
      /\ DOMAIN dRoot = 1 .. Len(dRoot) /\ dFinished \in BOOLEAN
      /\ Len(dSnapshots) = IF dFinished THEN Len(dRoot) ELSE Len(dRoot) + 1
  BY DEF DumpInv, DumpTypes, DumpPlace, CycleNow
<1>2. ASSUME NEW n \in DOMAIN dRoot
      PROVE  /\ dRoot[n] \in Seq(DumpMember) /\ DOMAIN dRoot[n] = 1 .. Len(dRoot[n])
             /\ CycleShows(dRoot[n], dSnapshots[n]) /\ Len(dRoot[n]) >= 9
  BY <1>1 DEF DumpInv, DumpShows
<1>3. ShowsTheCycles
  <2>1. Len(dRoot) <= Len(dSnapshots)
    BY <1>1
  <2>2. ASSUME NEW n \in DOMAIN dRoot, NEW m \in D!Range(dRoot[n]), m.key \in D!QueueNames
        PROVE  D!Shown(m.value) = D!Contents(dSnapshots[n][m.key])
    <3>1. PICK k \in 1 .. Len(dRoot[n]) : m = dRoot[n][k]
      BY <1>2 DEF D!Range
    <3> QED
      BY <1>2, <2>2, <3>1 DEF CycleShows
  <2> QED
    BY <2>1, <2>2 DEF ShowsTheCycles, D!ShowsTheCycles
<1>4. EndsEarlyOnlyOnFailure
  BY <1>1 DEF DumpInv, DumpPlace, EndsEarlyOnlyOnFailure, D!EndsEarlyOnlyOnFailure
<1>5. CyclesAreComparable
  <2>1. ASSUME NEW n \in DOMAIN dRoot
        PROVE  /\ \A k \in DOMAIN dRoot[n] : dRoot[n][k].key = D!Fields[k]
               /\ Len(dRoot[n]) >= Len(D!Fields) - 1
    BY <1>2, FieldsAre DEF CycleShows
  <2> QED
    BY <2>1 DEF CyclesAreComparable, D!CyclesAreComparable
<1>6. LossesAreCounted
  <2>1. PICK L : IsFiniteSet(L) /\ Cardinality(L) <= dFailed /\ DumpCovered(L)
    BY DEF DumpInv, DumpCounted
  <2>2. ASSUME NEW n \in DOMAIN dRoot
        PROVE  D!Missing(n, dRoot[n]) \subseteq L
    BY <1>1, <2>1 DEF DumpCovered, MissingCovered, D!Missing
  <2>3. ASSUME NEW n \in DOMAIN dRoot, NEW m \in D!Range(dRoot[n])
        PROVE  D!KeysLost(n, m) \subseteq L
    <3>1. PICK j \in 1 .. Len(dRoot[n]) : m = dRoot[n][j]
      BY <1>2 DEF D!Range
    <3>2. ArrayCovered(L, n, m.key, m.value)
      BY <1>1, <2>1, <3>1 DEF DumpCovered, CycleCovered
    <3>3. m.value \in Seq(DumpElement) /\ DOMAIN m.value = 1 .. Len(m.value)
      <4>1. m \in DumpMember
        BY <1>2, <3>1
      <4>2. m.value \in Seq(DumpElement)
        BY <4>1 DEF DumpMember
      <4> QED
        BY <4>2
    <3> QED
      BY <3>2, <3>3 DEF ArrayCovered, D!KeysLost
  <2>4. D!Losses \subseteq L
    BY <2>2, <2>3 DEF D!Losses
  <2>5. Cardinality(D!Losses) <= Cardinality(L) /\ IsFiniteSet(D!Losses)
    BY <2>1, <2>4, FS_Subset
  <2>6. Cardinality(D!Losses) \in Nat /\ Cardinality(L) \in Nat /\ dFailed \in Nat
    BY <1>1, <2>1, <2>5, FS_CardinalityType DEF DumpTypes
  <2> QED
    BY <2>1, <2>5, <2>6, SameCardinality DEF LossesAreCounted, D!LossesAreCounted
<1> QED
  BY <1>3, <1>4, <1>5, <1>6 DEF DumpIsLog

-----------------------------------------------------------------------------
\* Every step of the program is one of main or leaves its variables alone.
LEMMA StepsOfMain ==
    ASSUME [MCNext]_mcVars
    PROVE  [Next]_vars
<1>1. CASE MainStep
  BY <1>1 DEF MainStep
<1>2. CASE TakeProgram
  BY <1>2 DEF TakeProgram, Next
<1>3. CASE TakeDump
  BY <1>3 DEF TakeDump, Next
<1>4. CASE TakeWritten
  BY <1>4 DEF TakeWritten, Next
<1>5. CASE CallReadFile \/ ReadStep \/ ReadReturns \/ ParseWhatWasRead \/ ParserStep
  BY <1>5 DEF CallReadFile, ReadStep, ReadReturns, ParseWhatWasRead, ParserStep
<1>6. CASE CallRunSimulation \/ DumpStep \/ CallWriteFile \/ WriteStep
  BY <1>6 DEF CallRunSimulation, DumpStep, CallWriteFile, WriteStep
<1>7. CASE UNCHANGED mcVars
  BY <1>7 DEF mcVars
<1> QED
  BY <1>1, <1>2, <1>3, <1>4, <1>5, <1>6, <1>7 DEF MCNext

\* Every step of the program is one of yyjson_read_file or the start of a call of it or
\* leaves its variables alone.
LEMMA StepsOfRead ==
    ASSUME rLength \in Lengths, [MCNext]_mcVars
    PROVE  F!ReadNext \/ (\E n \in Lengths : ReadLocals(n)) \/ UNCHANGED readVars
<1>1. CASE CallReadFile
  BY <1>1 DEF CallReadFile
<1>2. CASE ReadStep
  BY <1>2 DEF ReadStep
<1>3. CASE ReadReturns
  <2>1. NoLength \in Lengths
    BY DEF NoLength
  <2> QED
    BY <1>3, <2>1 DEF ReadReturns
<1>4. CASE MainStep \/ ParseWhatWasRead \/ ParserStep \/ TakeProgram
  BY <1>4 DEF MainStep, ParseWhatWasRead, ParserStep, TakeProgram
<1>5. CASE CallRunSimulation \/ DumpStep \/ TakeDump
  BY <1>5 DEF CallRunSimulation, DumpStep, TakeDump
<1>6. CASE CallWriteFile \/ WriteStep \/ TakeWritten
  BY <1>6 DEF CallWriteFile, WriteStep, TakeWritten
<1>7. CASE UNCHANGED mcVars
  BY <1>7 DEF mcVars
<1> QED
  BY <1>1, <1>2, <1>3, <1>4, <1>5, <1>6, <1>7 DEF MCNext

\* The same of yyjson_mut_write_file
LEMMA StepsOfWrite ==
    ASSUME wText \in Texts, [MCNext]_mcVars
    PROVE  \/ F!WriteNext
           \/ \E t \in Texts, v \in BOOLEAN : \E o : WriteLocals(t, v, o)
           \/ UNCHANGED writeVars
<1>1. CASE CallWriteFile
  BY <1>1 DEF CallWriteFile
<1>2. CASE WriteStep
  BY <1>2 DEF WriteStep
<1>3. CASE TakeWritten
  <2>1. NoText \in Texts
    BY DEF NoText
  <2> QED
    BY <1>3, <2>1 DEF TakeWritten
<1>4. CASE MainStep \/ ParseWhatWasRead \/ ParserStep \/ TakeProgram
  BY <1>4 DEF MainStep, ParseWhatWasRead, ParserStep, TakeProgram
<1>5. CASE CallRunSimulation \/ DumpStep \/ TakeDump
  BY <1>5 DEF CallRunSimulation, DumpStep, TakeDump
<1>6. CASE CallReadFile \/ ReadStep \/ ReadReturns
  BY <1>6 DEF CallReadFile, ReadStep, ReadReturns
<1>7. CASE UNCHANGED mcVars
  BY <1>7 DEF mcVars
<1> QED
  BY <1>1, <1>2, <1>3, <1>4, <1>5, <1>6, <1>7 DEF MCNext

\* The same of parse_instructions
LEMMA StepsOfParser ==
    ASSUME [MCNext]_mcVars
    PROVE  P!Next \/ (\E f \in Files \cup {NoFile} : ParserLocals(f)) \/ UNCHANGED parserVars
<1>1. CASE ParseWhatWasRead \/ TakeProgram
  BY <1>1 DEF ParseWhatWasRead, TakeProgram
<1>2. CASE ParserStep
  BY <1>2 DEF ParserStep
<1>3. CASE MainStep \/ CallReadFile \/ ReadStep \/ ReadReturns
  BY <1>3 DEF MainStep, CallReadFile, ReadStep, ReadReturns
<1>4. CASE CallRunSimulation \/ DumpStep \/ TakeDump
  BY <1>4 DEF CallRunSimulation, DumpStep, TakeDump
<1>5. CASE CallWriteFile \/ WriteStep \/ TakeWritten
  BY <1>5 DEF CallWriteFile, WriteStep, TakeWritten
<1>6. CASE UNCHANGED mcVars
  BY <1>6 DEF mcVars
<1> QED
  BY <1>1, <1>2, <1>3, <1>4, <1>5, <1>6 DEF MCNext

\* The same of run_simulation
LEMMA StepsOfDump ==
    ASSUME NoCycle \in Snapshots, [MCNext]_mcVars
    PROVE  D!Next \/ (\E s \in Snapshots : DumpLocals(s)) \/ UNCHANGED dumpVars
<1>1. CASE CallRunSimulation \/ TakeDump
  BY <1>1 DEF CallRunSimulation, TakeDump
<1>2. CASE DumpStep
  BY <1>2 DEF DumpStep
<1>3. CASE MainStep \/ CallReadFile \/ ReadStep \/ ReadReturns
  BY <1>3 DEF MainStep, CallReadFile, ReadStep, ReadReturns
<1>4. CASE ParseWhatWasRead \/ ParserStep \/ TakeProgram
  BY <1>4 DEF ParseWhatWasRead, ParserStep, TakeProgram
<1>5. CASE CallWriteFile \/ WriteStep \/ TakeWritten
  BY <1>5 DEF CallWriteFile, WriteStep, TakeWritten
<1>6. CASE UNCHANGED mcVars
  BY <1>6 DEF mcVars
<1> QED
  BY <1>1, <1>2, <1>3, <1>4, <1>5, <1>6 DEF MCNext

-----------------------------------------------------------------------------
\* The inductive invariant of the program: of main, and of its calls whether they run
\* or not
ProgramInv ==
    /\ Owned /\ Heap
    /\ ReadInv /\ WriteInv /\ ParserInv /\ DumpInv
    /\ wText \in Texts /\ NoCycle \in Snapshots

\* The file of a parser that does not run is one it could be given.
LEMMA NoFileType == NoFile \in FileType
<1>1. << >> \in Seq(P!Item)
  OBVIOUS
<1> QED
  BY <1>1 DEF NoFile, FileType

\* With nothing parsed there is nothing yet to show.
LEMMA ParserInvAtFirst ==
    ASSUME pFile \in FileType, pPhase = "read", pInstructions = << >>,
           pDocLive = FALSE, pArrayLive = FALSE
    PROVE  ParserInv
<1>1. /\ Len(pFile.items) \in Nat /\ Len(pInstructions) = 0 /\ pInstructions \in Seq(AnyLine)
  BY DEF FileType
<1>2. ParsedLines
  BY <1>1 DEF ParsedLines
<1>3. pDocLive \in BOOLEAN /\ pArrayLive \in BOOLEAN
  OBVIOUS
<1> QED
  BY <1>1, <1>2, <1>3 DEF ParserInv

\* The program begins with ProgramInv, called with any file or text.
LEMMA ProgramInvAtFirst == MCInit => ProgramInv
<1> SUFFICES ASSUME MCInit PROVE ProgramInv
  OBVIOUS
<1>1. Owned /\ Heap
  BY DEF MCInit, Init, Owned, NoDangling, NoInvalidFree, Heap, Progress, AllocatedSoFar, FreedSoFar, LeftAtExit
<1>2. ReadInv
  <2>1. rStart \in Nat /\ rVia \in {"path", "fp"} /\ rOpen = (rVia = "fp")
    BY FileSizes DEF MCInit, F!ReadInit, F!ReadFileAssumption
  <2>2. ReadTypes
    <3>1. /\ rPc = "start" /\ rLength \in Lengths /\ rPos = rStart /\ rFileSize = 0 /\ rBase = 0
          /\ rBufSize = 0 /\ rGot = 0 /\ rChunkNow = CHUNK_MIN /\ rBroken = FALSE
      BY DEF MCInit, F!ReadInit
    <3>2. rOpen \in BOOLEAN /\ rBroken \in BOOLEAN
      BY <2>1, <3>1
    <3>3. CHUNK_MIN \in 1 .. CHUNK_MAX
      BY FileSizes DEF F!ReadFileAssumption
    <3>4. rStart \in Nat /\ rPos \in Nat /\ rVia \in {"path", "fp"}
      BY <2>1, <3>1
    <3> QED
      BY <3>1, <3>2, <3>3, <3>4 DEF ReadTypes
  <2>3. ReadOwns
    BY <2>1 DEF MCInit, F!ReadInit, ReadOwns
  <2>4. Unread /\ SizeIsKnown /\ StreamFills /\ ReadIsWhole
    BY DEF MCInit, F!ReadInit, Unread, SizeIsKnown, StreamFills, ReadIsWhole
  <2> QED
    BY <2>2, <2>3, <2>4 DEF ReadInv
<1>3. wText \in Texts
  BY DEF MCInit, F!WriteInit
<1>4. WriteInv
  BY TextSizes DEF MCInit, F!WriteInit, F!WriteFileAssumption, WriteInv, WriteTypes, FileIs, BeforeTheEnd, AtTheEnd
<1>5. ParserInv
  BY NoFileType, ParserInvAtFirst DEF MCInit, P!Init
<1>6. DumpInv /\ NoCycle \in Snapshots
  <2>1. PICK s \in Snapshots : dSnapshots = <<s>>
    BY DEF MCInit, D!Init
  <2>2. DumpInv
    BY <2>1, DumpAtFirst DEF MCInit, D!Init
  <2> QED
    BY <2>1, <2>2 DEF NoCycle
<1> QED
  BY <1>1, <1>2, <1>3, <1>4, <1>5, <1>6 DEF ProgramInv

\* Every step of the program keeps ProgramInv: it is one of main, of one of the
\* calls, or the start or end of one.
LEMMA ProgramInvKept ==
    ASSUME ProgramInv, [MCNext]_mcVars
    PROVE  ProgramInv'
<1>1. Owned'
  BY StepsOfMain, OwnedKept DEF ProgramInv
<1>2. Heap'
  <2>1. CASE Next
    BY <2>1, HeapKept DEF ProgramInv
  <2>2. CASE UNCHANGED vars
    BY <2>2 DEF ProgramInv, vars, Heap, Progress, AllocatedSoFar, FreedSoFar, LeftAtExit, FreeFails
  <2> QED
    BY <2>1, <2>2, StepsOfMain
<1>3. ReadInv'
  <2>1. CASE F!ReadNext
    BY <2>1, ReadKept DEF ProgramInv
  <2>2. ASSUME NEW n \in Lengths, ReadLocals(n)
        PROVE  ReadInv'
    <3>1. rLength' \in Nat /\ CHUNK_MIN \in 1 .. CHUNK_MAX
      BY <2>2, FileSizes DEF ReadLocals, F!ReadFileAssumption
    <3>2. ReadTypes'
      <4>1. rOpen' \in BOOLEAN /\ rBroken' \in BOOLEAN
        BY <2>2 DEF ReadLocals
      <4> QED
        BY <2>2, <3>1, <4>1 DEF ReadLocals, ReadTypes
    <3>3. (Unread /\ SizeIsKnown /\ StreamFills /\ ReadIsWhole /\ ReadOwns)'
      BY <2>2 DEF ReadLocals, Unread, SizeIsKnown, StreamFills, ReadIsWhole, ReadOwns
    <3> QED
      BY <3>2, <3>3 DEF ReadInv
  <2>3. CASE UNCHANGED readVars
    BY <2>3 DEF ProgramInv, readVars, ReadInv, ReadTypes, Unread, SizeIsKnown, StreamFills, ReadIsWhole, ReadOwns
  <2>4. rLength \in Lengths
    BY DEF ProgramInv, ReadInv, ReadTypes
  <2> QED
    BY <2>1, <2>2, <2>3, <2>4, StepsOfRead
<1>4. (WriteInv /\ wText \in Texts)'
  <2>1. CASE F!WriteNext
    <3>1. WriteInv'
      BY <2>1, WriteKept DEF ProgramInv
    <3>2. wText' = wText
      BY <2>1 DEF F!WriteNext, F!Check, F!WriteText, F!OpenToWrite, F!Fwrite, F!Close, F!Free, F!Returned, F!writeVars
    <3> QED
      BY <3>1, <3>2 DEF ProgramInv
  <2>2. ASSUME NEW t \in Texts, NEW v \in BOOLEAN, NEW o, WriteLocals(t, v, o)
        PROVE  (WriteInv /\ wText \in Texts)'
    BY <2>2, TextSizes DEF WriteLocals, F!WriteFileAssumption, WriteInv, WriteTypes, FileIs, BeforeTheEnd, AtTheEnd
  <2>3. CASE UNCHANGED writeVars
    BY <2>3 DEF ProgramInv, writeVars, WriteInv, WriteTypes, FileIs, BeforeTheEnd, AtTheEnd
  <2> QED
    BY <2>1, <2>2, <2>3, StepsOfWrite DEF ProgramInv
<1>5. ParserInv'
  <2>1. CASE P!Next
    BY <2>1, ParserKept DEF ProgramInv
  <2>2. ASSUME NEW f \in Files \cup {NoFile}, ParserLocals(f)
        PROVE  ParserInv'
    <3>1. f \in FileType
      BY NoFileType, FileItems DEF P!FilesAssumption, FileType
    <3>2. /\ pFile' \in FileType /\ pPhase' = "read" /\ pInstructions' = << >>
          /\ pDocLive' = FALSE /\ pArrayLive' = FALSE
      BY <2>2, <3>1 DEF ParserLocals
    <3>3. /\ Len(pFile'.items) \in Nat /\ Len(pInstructions') = 0 /\ pInstructions' \in Seq(AnyLine)
      BY <3>2 DEF FileType
    <3>4. ParsedLines'
      BY <3>3 DEF ParsedLines
    <3>5. pDocLive' \in BOOLEAN /\ pArrayLive' \in BOOLEAN
      BY <3>2
    <3> QED
      BY <3>2, <3>3, <3>4, <3>5 DEF ParserInv
  <2>3. CASE UNCHANGED parserVars
    BY <2>3 DEF ProgramInv, parserVars, ParserInv, ParsedLines
  <2> QED
    BY <2>1, <2>2, <2>3, StepsOfParser
<1>6. DumpInv'
  <2>1. CASE D!Next
    BY <2>1, DumpKept DEF ProgramInv
  <2>2. CASE UNCHANGED dumpVars
    BY <2>2, DumpStutters DEF ProgramInv, dumpVars
  <2> QED
    BY <2>1, <2>2, StepsOfDump, DumpCalled DEF ProgramInv
<1>7. (NoCycle \in Snapshots)'
  BY DEF ProgramInv, NoCycle
<1> QED
  BY <1>1, <1>2, <1>3, <1>4, <1>5, <1>6, <1>7 DEF ProgramInv

\* The inductive invariant holds always.
THEOREM ProgramInvHolds == MCSpec => []ProgramInv
  BY ProgramInvAtFirst, ProgramInvKept, PTL DEF MCSpec

\* MCSpec => []ResourcesReturned: whatever allocation, file or yyjson call fails, and for
\* every number of ALUs, no field is left with what was released, only a complete machine
\* is run, what is left at exit is known, and the file functions keep nothing.
THEOREM ResourcesReturnedHolds == MCSpec => []ResourcesReturned
<1>1. ASSUME ProgramInv
      PROVE  ResourcesReturned
  <2>1. NoDangling /\ RunsComplete /\ LeftAtExit
    BY <1>1 DEF ProgramInv, Owned, Heap, Progress, RunsComplete
  <2>2. ReadHoldsNothing
    <3> SUFFICES ASSUME rPc = "done"
                 PROVE  /\ rBuf = IF rErr = "none" THEN "doc" ELSE "none"
                        /\ rOpen = (rVia = "fp")
      BY DEF ReadHoldsNothing, F!ReadHoldsNothing
    <3>1. rBuf = IF rErr = "none" THEN "doc" ELSE "none"
      BY <1>1 DEF ProgramInv, ReadInv, ReadOwns
    <3>2. rOpen = (rVia = "fp")
      BY <1>1 DEF ProgramInv, ReadInv, ReadOwns, ReadTypes
    <3> QED
      BY <3>1, <3>2
  <2>3. WriteHoldsNothing
    <3> SUFFICES ASSUME wPc = "returned"
                 PROVE  /\ ~wDat /\ wFile \in {"none", "caller"}
                        /\ (wFile = "caller") = (wVia = "fp" /\ wValid)
                        /\ wSuc = (wErr = "none")
      BY DEF WriteHoldsNothing, F!WriteHoldsNothing
    <3>1. ~wDat /\ wFile \in {"none", "caller"}
      BY <1>1 DEF ProgramInv, WriteInv, WriteTypes, FileIs, AtTheEnd
    <3>2. (wFile = "caller") = (wVia = "fp" /\ wValid)
      BY <1>1 DEF ProgramInv, WriteInv, FileIs
    <3>3. wSuc = (wErr = "none")
      BY <1>1 DEF ProgramInv, WriteInv, AtTheEnd
    <3> QED
      BY <3>1, <3>2, <3>3
  <2> QED
    BY <2>1, <2>2, <2>3 DEF ResourcesReturned
<1> QED
  BY <1>1, ProgramInvHolds, PTL

\* MCSpec => []ParsesPrograms: for every file, and for words, ints and bytes of any width,
\* parse_instructions gives the whole program or nothing, with the numbers of the text.
THEOREM ParsesProgramsHolds == MCSpec => []ParsesPrograms
<1>1. ProgramInv => ParsesPrograms
  BY ParserShows DEF ProgramInv
<1> QED
  BY <1>1, ProgramInvHolds, PTL

\* MCSpec => []FilesAreWhole: for files and texts of any length, chunks of any size and
\* words that may overflow, what is parsed is the file and what is said to be written is.
THEOREM FilesAreWholeHolds == MCSpec => []FilesAreWhole
<1>1. ASSUME ProgramInv
      PROVE  FilesAreWhole
  <2>1. F!ReadFileAssumption /\ ReadInv /\ WriteInv
    BY <1>1, FileSizes DEF ProgramInv
  <2>2. ParsesTheFile
    <3> SUFFICES ASSUME rPc = "read", rErr = "none", rBase >= 0
                 PROVE  /\ rFileSize = rGot /\ rGot + PADDING <= rBufSize
                        /\ ~rBroken /\ rBase > 0 => rStart + rGot = rLength
      BY DEF ParsesTheFile, F!ParsesTheFile, F!Parsing
    <3>1. rBase \in Int /\ rGot \in Nat
      BY <2>1 DEF ReadInv, ReadTypes
    <3>2. rGot + PADDING <= rBufSize /\ (rBase <= 0 => rFileSize = rBase + rGot)
      BY <2>1 DEF ReadInv, ReadIsWhole
    <3>3. rBase > 0 => rFileSize = rGot /\ rStart + rGot = rLength
      BY <2>1 DEF ReadInv, ReadIsWhole
    <3> QED
      BY <3>1, <3>2, <3>3
  <2>3. ChunksAdjoin
    BY <2>1 DEF F!ReadFileAssumption, ReadInv, ReadTypes, StreamFills, ChunksAdjoin, F!ChunksAdjoin
  <2>4. TrueMeansWritten
    BY <2>1 DEF WriteInv, AtTheEnd, TrueMeansWritten, F!TrueMeansWritten
  <2> QED
    BY <2>2, <2>3, <2>4 DEF FilesAreWhole
<1> QED
  BY <1>1, ProgramInvHolds, PTL

\* MCSpec => Spec: with its calls in place the program does what main does without them, so
\* that what is proved of Spec holds of it.
THEOREM ProgramImplementsMain == MCSpec => Spec
<1>1. MCInit => Init
  BY DEF MCInit
<1> QED
  BY <1>1, StepsOfMain, PTL DEF MCSpec, Spec

\* MCSpec => []DumpIsLog: for queues of any capacity and contents, simulations of any
\* length and any number of failing calls, the dump is a log of the cycles and every
\* member that it lacks is one failed call's.
THEOREM DumpIsLogHolds == MCSpec => []DumpIsLog
<1>1. ProgramInv => DumpIsLog
  BY DumpIsShown DEF ProgramInv
<1> QED
  BY <1>1, ProgramInvHolds, PTL
=============================================================================
