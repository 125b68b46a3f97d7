--------------------------- MODULE ProcessorProofs ---------------------------
(***************************************************************************)
(* Theorems about Processor, for every size of the machine and every set   *)
(* of programs: types, registers and errors first, then the order of the   *)
(* instructions in flight, the places that hold them, the registers they   *)
(* were given, and the end of the simulation.  They lead to the last one:  *)
(* Processor implements InOrderMachine, so out-of-order execution,         *)
(* renaming and recovery give every program the results of sequential      *)
(* execution.                                                              *)
(***************************************************************************)
EXTENDS Processor, SequenceTheorems, FiniteSetTheorems, WellFoundedInduction, TLAPS

-----------------------------------------------------------------------------
(***************************************************************************)
(* Lemmas about the operators the model is built from.                     *)
(***************************************************************************)

\* Removing a position of a sequence leaves a sequence of one element less, in
\* which the elements behind that position moved up by one.
LEMMA RemoveAtProperties ==
    ASSUME NEW S, NEW s \in Seq(S), NEW i \in 1 .. Len(s)
    PROVE  /\ RemoveAt(s, i) \in Seq(S)
           /\ Len(RemoveAt(s, i)) = Len(s) - 1
           /\ \A j \in 1 .. Len(s) - 1 :
                 RemoveAt(s, i)[j] = IF j < i THEN s[j] ELSE s[j + 1]
<1>1. /\ SubSeq(s, 1, i - 1) \in Seq(S)
      /\ Len(SubSeq(s, 1, i - 1)) = i - 1
      /\ \A j \in 1 .. i - 1 : SubSeq(s, 1, i - 1)[j] = s[j]
  BY SMT
<1>2. /\ SubSeq(s, i + 1, Len(s)) \in Seq(S)
      /\ Len(SubSeq(s, i + 1, Len(s))) = Len(s) - i
      /\ \A j \in 1 .. Len(s) - i : SubSeq(s, i + 1, Len(s))[j] = s[i + j]
  BY SMT
<1> DEFINE front == SubSeq(s, 1, i - 1)
           back == SubSeq(s, i + 1, Len(s))
<1>3. /\ front \o back \in Seq(S)
      /\ Len(front \o back) = Len(front) + Len(back)
      /\ \A j \in 1 .. Len(front) + Len(back) :
            (front \o back)[j] = IF j <= Len(front) THEN front[j] ELSE back[j - Len(front)]
  BY <1>1, <1>2, ConcatProperties
<1>4. RemoveAt(s, i) = front \o back
  BY DEF RemoveAt
<1>5. Len(s) \in Nat /\ i \in Int /\ Len(front) = i - 1 /\ Len(back) = Len(s) - i
  BY <1>1, <1>2
<1>6. ASSUME NEW j \in 1 .. Len(s) - 1
      PROVE  RemoveAt(s, i)[j] = IF j < i THEN s[j] ELSE s[j + 1]
  <2> HIDE DEF front, back
  <2>1. CASE j < i
    <3>1. front[j] = s[j]
      BY <1>1, <1>5, <2>1 DEF front
    <3>2. (front \o back)[j] = front[j]
      BY <1>3, <1>5, <2>1
    <3> QED
      BY <1>4, <2>1, <3>1, <3>2
  <2>2. CASE ~(j < i)
    <3>1. back[j - (i - 1)] = s[i + (j - (i - 1))]
      BY <1>2, <1>5, <2>2 DEF back
    <3>2. (front \o back)[j] = back[j - (i - 1)]
      BY <1>3, <1>5, <2>2
    <3>3. i + (j - (i - 1)) = j + 1
      BY <1>5
    <3> QED
      BY <1>4, <2>2, <3>1, <3>2, <3>3
  <2> QED
    BY <2>1, <2>2
<1>7. Len(RemoveAt(s, i)) = Len(s) - 1
  <2>1. Len(front \o back) = Len(s) - 1
    <3> HIDE DEF front, back
    <3> QED
      BY <1>3, <1>5
  <2> QED
    BY <1>4, <2>1, Zenon
<1>8. RemoveAt(s, i) \in Seq(S)
  <2> HIDE DEF front, back
  <2> QED
    BY <1>3, <1>4
<1> QED
  BY <1>6, <1>7, <1>8

\* The unsigned quotient of two words is a word.
LEMMA QuotientBound ==
    ASSUME NEW a \in Nat, NEW b \in Nat \ {0}
    PROVE  a \div b \in 0 .. a
<1> DEFINE q == a \div b
<1>1. q \in Int /\ a % b \in 0 .. b - 1 /\ a = b * q + (a % b)
  BY SMT
<1>2. q >= 0
  <2>1. SUFFICES ASSUME q <= -1 PROVE FALSE
    BY <1>1
  <2>2. b * q <= -b
    BY <1>1, <2>1, SMT
  <2> QED
    BY <1>1, <2>2, SMT
<1>3. q <= b * q
  BY <1>1, <1>2, SMT
<1> QED
  BY <1>1, <1>2, <1>3, SMT

\* Every operation computes a word from two words.
LEMMA ResultInWord ==
    ASSUME NEW type \in RegOps \cup ImmOps, NEW a \in Word, NEW b \in Word
    PROVE  Result(type, a, b) \in Word
<1> USE WordSizeAssumption DEF Word
<1>1. ASSUME NEW n \in Int PROVE n % WORD_SIZE \in 0 .. WORD_SIZE - 1
  BY SMT
<1>2. ToSigned(a) \in Int /\ ToSigned(b) \in Int
  BY DEF ToSigned
<1>3. CASE type \in {"add", "addi"}
  BY <1>1, <1>2, <1>3 DEF Result, ToUnsigned
<1>4. CASE type = "sub"
  BY <1>1, <1>2, <1>4 DEF Result, ToUnsigned
<1>5. CASE type = "mulu"
  <2>1. a * b \in Int
    BY SMT
  <2> QED
    BY <1>1, <1>5, <2>1 DEF Result
<1>6. CASE type = "divu"
  <2>1. b # 0 => a \div b \in 0 .. a
    BY QuotientBound
  <2> QED
    BY <1>6, <2>1 DEF Result
<1>7. CASE type = "remu"
  <2>1. b # 0 => a % b \in 0 .. b - 1
    BY SMT
  <2> QED
    BY <1>7, <2>1 DEF Result
<1> QED
  BY <1>3, <1>4, <1>5, <1>6, <1>7 DEF RegOps, ImmOps

\* Whatever an ALU holds in its last stage is still an instruction, or nothing,
\* after the ALU ran.
LEMMA ExecutedType ==
    ASSUME NEW instr \in Renamed \cup {EmptySlot}
    PROVE  Executed(instr) \in Renamed \cup {EmptySlot}
<1>1. CASE instr.type = "unknown"
  BY <1>1 DEF Executed
<1>2. CASE instr.type # "unknown"
  <2>1. instr \in Renamed
    BY <1>2 DEF EmptySlot
  <2>2. Result(instr.type, instr.valA, instr.valB) \in Word
    BY <2>1, ResultInWord DEF Renamed
  <2>3. RaisesException(instr.type, instr.valB) \in BOOLEAN
    BY DEF RaisesException
  <2> QED
    BY <1>2, <2>1, <2>2, <2>3 DEF Executed, Renamed
<1> QED
  BY <1>1, <1>2

\* An entry of the integer queue is made of a renamed instruction.
LEMMA WithReadinessType ==
    ASSUME NEW instr \in Renamed, NEW busy, NEW list,
           physical \in [PhyReg -> Word]
    PROVE  WithReadiness(instr, busy, list) \in IqEntry
<1>1. physical[instr.opA] \in Word /\ physical[instr.opB] \in Word
  BY DEF Renamed
<1>2. RegisterReady(instr.opA, busy, list) \in BOOLEAN
  BY DEF RegisterReady
<1>3. (instr.type \in ImmOps \/ RegisterReady(instr.opB, busy, list)) \in BOOLEAN
  BY DEF RegisterReady
<1> QED
  BY <1>1, <1>2, <1>3 DEF WithReadiness, IqEntry, Renamed

\* Renaming an instruction of the program gives a renamed instruction and a
\* well-formed active list entry.
LEMMA RenamingType ==
    ASSUME TypeOK, NEW addr \in 0 .. Len(program) - 1, NEW dest \in PhyReg
    PROVE  /\ NewActiveEntry(addr, dest) \in ActiveEntry
           /\ RenamedInstr(addr, dest) \in Renamed
           /\ NewActiveEntry(addr, dest).log_dest \in LogReg
<1>1. InstructionAt(addr) \in AnyInstruction
  BY DEF TypeOK, InstructionAt
<1>2. addr \in Nat /\ 0 \in PhyReg /\ 0 \in Word
  BY SizesAssumption, RegLogAssumption, WordSizeAssumption DEF PhyReg, Word
<1>3. logical \in [LogReg -> PhyReg]
  BY DEF TypeOK
<1> DEFINE i == InstructionAt(addr)
<1>4. i.dest \in LogReg /\ i.opA \in LogReg /\ i.type \in RegOps \cup ImmOps
  BY <1>1 DEF AnyInstruction, RegInstruction, ImmInstruction
<1>5. i.type \in ImmOps => i.opB \in Word
  BY <1>1 DEF AnyInstruction, RegInstruction, ImmInstruction, RegOps, ImmOps
<1>6. i.type \notin ImmOps => i.opB \in LogReg
  BY <1>1 DEF AnyInstruction, RegInstruction, ImmInstruction
<1>7. NewActiveEntry(addr, dest) \in ActiveEntry
  BY <1>2, <1>3, <1>4 DEF NewActiveEntry, ActiveEntry
<1>8. RenamedInstr(addr, dest) \in Renamed
  <2> DEFINE imm == i.type \in ImmOps
  <2>1. (IF imm THEN 0 ELSE logical[i.opB]) \in PhyReg
    BY <1>2, <1>3, <1>6
  <2>2. (IF imm THEN i.opB ELSE 0) \in Word
    BY <1>2, <1>5
  <2>3. logical[i.opA] \in PhyReg
    BY <1>3, <1>4
  <2> QED
    BY <1>2, <1>4, <2>1, <2>2, <2>3 DEF RenamedInstr, Renamed
<1>9. NewActiveEntry(addr, dest).log_dest \in LogReg
  BY <1>4 DEF NewActiveEntry
<1> QED
  BY <1>7, <1>8, <1>9

\* The fields of the oldest entry.
LEMMA OldestType ==
    ASSUME active_list \in Seq(ActiveEntry), active_list # << >>
    PROVE  /\ Oldest \in ActiveEntry
           /\ Oldest.old_phy_dest \in PhyReg /\ Oldest.pc \in Nat
<1>1. Oldest \in ActiveEntry
  BY DEF Oldest
<1> QED
  BY <1>1 DEF ActiveEntry

\* Marking an entry done changes neither the length nor the registers of the
\* active list.
LEMMA MarkDoneType ==
    ASSUME active_list \in Seq(ActiveEntry), NEW addr, NEW raised \in BOOLEAN,
           MarkDone(addr, raised)
    PROVE  /\ active_list' \in Seq(ActiveEntry)
           /\ Len(active_list') = Len(active_list)
           /\ \A i \in 1 .. Len(active_list) :
                 /\ active_list'[i].log_dest = active_list[i].log_dest
                 /\ active_list'[i].old_phy_dest = active_list[i].old_phy_dest
                 /\ active_list'[i].curr_phy_dest = active_list[i].curr_phy_dest
                 /\ active_list'[i].pc = active_list[i].pc
<1> DEFINE new(i) == IF IsFirstAt(i, addr)
                     THEN [active_list[i] EXCEPT !.is_done = TRUE, !.is_exception = @ \/ raised]
                     ELSE active_list[i]
<1>1. active_list' = [i \in 1 .. Len(active_list) |-> new(i)]
  BY DEF MarkDone
<1>2. ASSUME NEW i \in 1 .. Len(active_list)
      PROVE  /\ new(i) \in ActiveEntry
             /\ new(i).log_dest = active_list[i].log_dest
             /\ new(i).old_phy_dest = active_list[i].old_phy_dest
             /\ new(i).curr_phy_dest = active_list[i].curr_phy_dest
             /\ new(i).pc = active_list[i].pc
  <2>1. active_list[i] \in ActiveEntry
    OBVIOUS
  <2>2. (active_list[i].is_exception \/ raised) \in BOOLEAN
    OBVIOUS
  <2> QED
    BY <2>1, <2>2 DEF ActiveEntry
<1> HIDE DEF new
<1> QED
  BY <1>1, <1>2

-----------------------------------------------------------------------------
(***************************************************************************)
(* Type correctness.                                                       *)
(***************************************************************************)

LEMMA TypeInit == Init => TypeOK
<1> SUFFICES ASSUME Init PROVE TypeOK
  OBVIOUS
<1>1. program \in Seq(AnyInstruction)
  BY ProgramsAssumption DEF Init
<1>2. FREE_LIST_SIZE \in Nat /\ 0 \in Word /\ LogReg \subseteq PhyReg
  BY SizesAssumption, RegLogAssumption, WordSizeAssumption
  DEF FREE_LIST_SIZE, Word, LogReg, PhyReg
<1>3. free_list \in Seq(PhyReg) /\ Len(free_list) = FREE_LIST_SIZE
  <2>1. \A i \in 1 .. FREE_LIST_SIZE : REG_LOG_FILE_SIZE + i - 1 \in PhyReg
    BY SizesAssumption, RegLogAssumption DEF FREE_LIST_SIZE, PhyReg
  <2> QED
    BY <1>2, <2>1 DEF Init
<1>4. alus \in [1 .. NUM_ALUS -> [1 .. ALU_STAGES -> Renamed \cup {EmptySlot}]]
  BY DEF Init, EmptyAlus
<1>5. /\ active_list \in Seq(ActiveEntry) /\ Len(active_list) <= ACTIVE_LIST_SIZE
      /\ dir \in Seq(0 .. Len(program) - 1) /\ Len(dir) <= DIR_SIZE
      /\ iq \in Seq(IqEntry) /\ Len(iq) <= IQ_CAPACITY
      /\ entries \in Seq(IqEntry) /\ Len(entries) <= NUM_ALUS
  BY SizesAssumption, RegLogAssumption, EmptySeq DEF Init, ACTIVE_LIST_SIZE, DIR_SIZE
<1>6. /\ physical \in [PhyReg -> Word] /\ logical \in [LogReg -> PhyReg]
      /\ is_busy \in [PhyReg -> BOOLEAN]
  BY <1>2 DEF Init
<1>7. /\ pc \in Nat /\ exception_pc \in Nat /\ step \in Nat
      /\ is_exception \in BOOLEAN /\ exception_mode \in BOOLEAN
      /\ backpressure \in BOOLEAN
      /\ ready_to_finish \in BOOLEAN /\ finished \in BOOLEAN
      /\ stage = "commit" /\ error = "ERR_NONE"
  BY DEF Init
<1> QED
  BY <1>1, <1>2, <1>3, <1>4, <1>5, <1>6, <1>7 DEF TypeOK, ErrorCode

LEMMA TypeNext == TypeOK /\ Accounting /\ [Next]_vars => TypeOK'
<1> SUFFICES ASSUME TypeOK, Accounting, [Next]_vars PROVE TypeOK'
  OBVIOUS
<1> USE DEF archVars, renameVars, regVars, issueVars, endVars
<1>a. /\ FREE_LIST_SIZE \in Nat /\ ACTIVE_LIST_SIZE \in Nat /\ DIR_SIZE \in Nat
      /\ IQ_CAPACITY \in Nat /\ NUM_ALUS \in Nat
  BY SizesAssumption, RegLogAssumption DEF FREE_LIST_SIZE, ACTIVE_LIST_SIZE, DIR_SIZE
<1>b. \A reg : FreeListPushResult(reg) \in ErrorCode
  BY DEF FreeListPushResult, ErrorCode
<1>c. \A slot : FreeListPopResult(slot) \in ErrorCode
  BY DEF FreeListPopResult, ErrorCode
<1>1. CASE CommitInstr
  <2>1. FreedAtCommit(Oldest) \in PhyReg
    BY <1>1, OldestType DEF TypeOK, CommitInstr, FreedAtCommit
  <2>2. Tail(active_list) \in Seq(ActiveEntry) /\ Len(Tail(active_list)) <= ACTIVE_LIST_SIZE
    BY <1>1, <1>a DEF TypeOK, CommitInstr
  <2>3. CASE FreeListPushResult(FreedAtCommit(Oldest)) = "ERR_NONE"
    <3>1. /\ free_list' = Append(free_list, FreedAtCommit(Oldest))
          /\ Len(free_list) # FREE_LIST_SIZE
          /\ active_list' = Tail(active_list)
          /\ Iterate /\ UNCHANGED error
      BY <1>1, <2>3 DEF CommitInstr, FreeListPushResult
    <3>2. free_list' \in Seq(PhyReg) /\ Len(free_list') <= FREE_LIST_SIZE
      BY <1>a, <2>1, <3>1 DEF TypeOK
    <3> QED
      BY <1>1, <2>2, <3>1, <3>2 DEF TypeOK, CommitInstr, Iterate
  <2>4. CASE FreeListPushResult(FreedAtCommit(Oldest)) # "ERR_NONE"
    BY <1>1, <1>b, <2>4 DEF TypeOK, CommitInstr, Abort, GoTo
  <2> QED
    BY <2>3, <2>4
<1>2. CASE CommitDone
  BY <1>2 DEF TypeOK, CommitDone, GoTo
<1>3. CASE RaiseException
  <2>1. Oldest.pc \in Nat
    BY <1>3, OldestType DEF TypeOK, RaiseException
  <2>2. EmptyAlus \in [1 .. NUM_ALUS -> [1 .. ALU_STAGES -> Renamed \cup {EmptySlot}]]
    BY DEF EmptyAlus
  <2> QED
    BY SMTT(30), <1>3, <1>a, <2>1, <2>2, SizesAssumption DEF TypeOK, RaiseException, GoTo
<1>4. CASE LeaveException
  BY <1>4 DEF TypeOK, LeaveException, GoTo
<1>5. CASE RecoverInstr
  <2> DEFINE undone == active_list[RecoverIndex]
             current == logical[undone.log_dest]
             res == FreeListPushResult(current)
  <2>1. RecoverIndex \in 1 .. Len(active_list)
    BY <1>5 DEF TypeOK, RecoverInstr, RecoverIndex
  <2>2. undone \in ActiveEntry
    BY <2>1 DEF TypeOK
  <2>3. undone.log_dest \in LogReg /\ undone.old_phy_dest \in PhyReg /\ current \in PhyReg
    BY <2>2 DEF TypeOK, ActiveEntry
  <2>4. active_list' \in Seq(ActiveEntry) /\ Len(active_list') <= ACTIVE_LIST_SIZE
    BY SMTT(30), <1>5, <1>a, <2>1, RemoveAtProperties DEF TypeOK, RecoverInstr
  <2>5. logical' \in [LogReg -> PhyReg]
    BY <1>5, <2>3 DEF TypeOK, RecoverInstr
  <2>6. CASE res = "ERR_NONE"
    <3>1. /\ free_list' = Append(free_list, current) /\ Len(free_list) # FREE_LIST_SIZE
          /\ is_busy' = [is_busy EXCEPT ![current] = FALSE]
          /\ Iterate /\ error' = error
      BY <1>5, <2>6 DEF RecoverInstr, FreeListPushResult
    <3>2. free_list' \in Seq(PhyReg) /\ Len(free_list') <= FREE_LIST_SIZE
      BY <1>a, <2>3, <3>1 DEF TypeOK
    <3> QED
      BY <1>5, <2>4, <2>5, <3>1, <3>2 DEF TypeOK, RecoverInstr, Iterate
  <2>7. CASE res # "ERR_NONE"
    <3>1. UNCHANGED <<free_list, is_busy>> /\ Abort(res)
      BY <1>5, <2>7 DEF RecoverInstr
    <3> QED
      BY <1>5, <1>b, <2>4, <2>5, <3>1 DEF TypeOK, RecoverInstr, Abort, GoTo
  <2> QED
    BY <2>6, <2>7
<1>6. CASE RecoverDone
  BY <1>6 DEF TypeOK, RecoverDone, GoTo
<1>7. CASE AluCycles
  <2>1. ALU_STAGES \in 1 .. ALU_STAGES
    BY SizesAssumption
  <2>2. ASSUME NEW a \in 1 .. NUM_ALUS
        PROVE  [alus[a] EXCEPT ![ALU_STAGES] = Executed(@)]
                 \in [1 .. ALU_STAGES -> Renamed \cup {EmptySlot}]
    <3>1. alus[a] \in [1 .. ALU_STAGES -> Renamed \cup {EmptySlot}]
      BY DEF TypeOK
    <3>2. Executed(alus[a][ALU_STAGES]) \in Renamed \cup {EmptySlot}
      BY <2>1, <3>1, ExecutedType
    <3> QED
      BY <3>1, <3>2
  <2>3. alus' \in [1 .. NUM_ALUS -> [1 .. ALU_STAGES -> Renamed \cup {EmptySlot}]]
    BY <1>7, <2>2 DEF AluCycles
  <2> QED
    BY <1>7, <2>3 DEF TypeOK, AluCycles, GoTo
<1>8. CASE WriteBack
  <2> DEFINE instr == Forwarded(step + 1)
  <2>1. step + 1 \in 1 .. NUM_ALUS /\ ALU_STAGES \in 1 .. ALU_STAGES
    BY <1>8, SizesAssumption DEF TypeOK, Accounting, WriteBack
  <2>2. instr \in Renamed \cup {EmptySlot}
    BY <2>1 DEF TypeOK, Forwarded
  <2>3. (stage' = stage \/ stage' = "refresh") /\ step' \in Nat
    BY SMTT(30), <1>8, <1>a DEF TypeOK, WriteBack, IterateUpTo, Iterate, GoTo
  <2>4. CASE instr.type = "unknown"
    BY <1>8, <2>3, <2>4 DEF TypeOK, WriteBack
  <2>5. CASE instr.type # "unknown"
    <3>1. instr \in Renamed
      BY <2>2, <2>5 DEF EmptySlot
    <3>2. /\ physical' = [physical EXCEPT ![instr.dest] = instr.value]
          /\ is_busy' = [is_busy EXCEPT ![instr.dest] = BusyAfter(instr)]
          /\ MarkDone(instr.pc, instr.is_exception)
      BY <1>8, <2>5 DEF WriteBack
    <3>3. instr.value \in Word /\ instr.is_exception \in BOOLEAN
      BY <3>1 DEF Renamed
    <3>4. active_list' \in Seq(ActiveEntry) /\ Len(active_list') = Len(active_list)
      <4>1. active_list \in Seq(ActiveEntry)
        BY DEF TypeOK
      <4> HIDE DEF instr
      <4> QED
        BY <3>2, <3>3, <4>1, MarkDoneType
    <3>5. physical' \in [PhyReg -> Word] /\ is_busy' \in [PhyReg -> BOOLEAN]
      BY <3>2, <3>3 DEF TypeOK, BusyAfter
    <3> QED
      BY <1>8, <2>3, <3>4, <3>5 DEF TypeOK, WriteBack
  <2> QED
    BY <2>4, <2>5
<1>9. CASE RefreshReady
  <2>1. ASSUME NEW i \in 1 .. Len(iq)
        PROVE  WithReadiness(iq[i].instr, is_busy, active_list) \in IqEntry
    <3>1. iq[i] \in IqEntry
      BY DEF TypeOK
    <3>2. iq[i].instr \in Renamed
      BY <3>1 DEF IqEntry
    <3> QED
      BY <3>2, WithReadinessType DEF TypeOK
  <2>2. iq' \in Seq(IqEntry) /\ Len(iq') = Len(iq)
    <3>1. Len(iq) \in Nat
      BY DEF TypeOK
    <3> QED
      BY <1>9, <2>1, <3>1 DEF RefreshReady
  <2> QED
    BY <1>9, <2>2 DEF TypeOK, RefreshReady, GoTo
<1>10. CASE TakeReady
  <2>1. step + 1 \in 1 .. Len(iq)
    BY <1>10 DEF TypeOK, TakeReady, Scanning
  <2>2. iq' \in Seq(IqEntry) /\ Len(iq') <= IQ_CAPACITY
    BY SMTT(30), <1>10, <1>a, <2>1, RemoveAtProperties DEF TypeOK, TakeReady, Without
  <2>3. iq[step + 1] \in IqEntry
    BY <2>1 DEF TypeOK
  <2>4. entries' \in Seq(IqEntry) /\ Len(entries') <= NUM_ALUS
    BY <1>10, <1>a, <2>3 DEF TypeOK, TakeReady, Scanning
  <2> QED
    BY <1>10, <2>2, <2>4 DEF TypeOK, TakeReady, StayAtIndex
<1>11. CASE PassWaiting
  BY <1>11 DEF TypeOK, PassWaiting, Iterate
<1>12. CASE IssueToAlus
  <2>1. ASSUME NEW a \in 1 .. NUM_ALUS, NEW i \in Renamed \cup {EmptySlot}
        PROVE  Pushed(alus[a], i) \in [1 .. ALU_STAGES -> Renamed \cup {EmptySlot}]
    BY SizesAssumption DEF TypeOK, Pushed
  <2>2. ASSUME NEW a \in 1 .. NUM_ALUS
        PROVE  (IF a <= Len(entries) THEN entries[a].instr ELSE EmptySlot)
                  \in Renamed \cup {EmptySlot}
    <3>1. a <= Len(entries) => entries[a] \in IqEntry
      BY DEF TypeOK
    <3> QED
      BY <3>1 DEF IqEntry
  <2>3. alus' \in [1 .. NUM_ALUS -> [1 .. ALU_STAGES -> Renamed \cup {EmptySlot}]]
    BY <1>12, <2>1, <2>2 DEF IssueToAlus
  <2>4. entries' \in Seq(IqEntry) /\ Len(entries') <= NUM_ALUS
    BY <1>12, <1>a DEF IssueToAlus
  <2> QED
    BY <1>12, <2>3, <2>4 DEF TypeOK, IssueToAlus, GoTo
<1>13. CASE CheckResources
  <2>1. RoomForBundle \in BOOLEAN
    BY DEF RoomForBundle
  <2> QED
    BY <1>13, <2>1 DEF TypeOK, CheckResources, GoTo
<1>14. CASE RenameInstr
  <2>1. PICK slot \in UninitRegIdx : RenameHead(slot)
    BY <1>14 DEF RenameInstr
  <2>2. /\ dir' \in Seq(0 .. Len(program') - 1) /\ Len(dir') <= DIR_SIZE
        /\ Head(dir) \in 0 .. Len(program) - 1
    BY SMTT(30), <1>14, <1>a DEF TypeOK, RenameInstr
  <2>3. CASE FreeListPopResult(slot) # "ERR_NONE"
    <3>1. Abort(FreeListPopResult(slot)) /\ UNCHANGED <<renameVars, is_busy, iq>>
      BY <2>1, <2>3 DEF RenameHead
    <3> QED
      BY <1>14, <1>c, <2>2, <3>1 DEF TypeOK, RenameInstr, Abort, GoTo
  <2>4. CASE FreeListPopResult(slot) = "ERR_NONE"
    <3>1. free_list' = Tail(free_list) /\ free_list # << >>
      BY <2>1, <2>4 DEF RenameHead, FreeListPopResult
    <3>2. /\ free_list' \in Seq(PhyReg) /\ Len(free_list') <= FREE_LIST_SIZE
          /\ Head(free_list) \in PhyReg
      BY <1>a, <3>1 DEF TypeOK
    <3>3. CASE Len(active_list) = ACTIVE_LIST_SIZE
      <4>1. Abort("ERR_QUEUE_FULL") /\ UNCHANGED <<active_list, logical, is_busy, iq>>
        BY <2>1, <2>4, <3>3 DEF RenameHead
      <4> QED
        BY <1>14, <2>2, <3>2, <4>1 DEF TypeOK, RenameInstr, Abort, GoTo, ErrorCode
    <3>4. CASE Len(active_list) # ACTIVE_LIST_SIZE
      <4> DEFINE addr == Head(dir)
                 dest == Head(free_list)
                 entry == NewActiveEntry(addr, dest)
                 queued == WithReadiness(RenamedInstr(addr, dest), is_busy', active_list')
      <4>1. Dispatch(addr, dest)
        BY <2>1, <2>4, <3>4 DEF RenameHead
      <4>2. entry \in ActiveEntry /\ entry.log_dest \in LogReg /\ queued \in IqEntry
        BY <2>2, <3>2, RenamingType, WithReadinessType DEF TypeOK
      <4>3. active_list' \in Seq(ActiveEntry) /\ Len(active_list') <= ACTIVE_LIST_SIZE
        BY <1>a, <3>4, <4>1, <4>2 DEF TypeOK, Dispatch
      <4>4. logical' \in [LogReg -> PhyReg] /\ is_busy' \in [PhyReg -> BOOLEAN]
        BY <3>2, <4>1, <4>2 DEF TypeOK, Dispatch
      <4>5. CASE Len(iq) = IQ_CAPACITY
        <5>1. Abort("ERR_QUEUE_FULL") /\ UNCHANGED iq
          BY <4>1, <4>5 DEF Dispatch
        <5> QED
          BY <1>14, <2>2, <3>2, <4>3, <4>4, <5>1
          DEF TypeOK, RenameInstr, Abort, GoTo, ErrorCode
      <4>6. CASE Len(iq) # IQ_CAPACITY
        <5>1. iq' = Append(iq, queued) /\ UNCHANGED <<stage, step, error>>
          BY <4>1, <4>6 DEF Dispatch
        <5>2. iq' \in Seq(IqEntry) /\ Len(iq') <= IQ_CAPACITY
          <6> HIDE DEF queued
          <6> QED
            BY <1>a, <4>2, <4>6, <5>1 DEF TypeOK
        <5> QED
          BY <1>14, <2>2, <3>2, <4>3, <4>4, <5>1, <5>2 DEF TypeOK, RenameInstr
      <4> QED
        BY <4>5, <4>6
    <3> QED
      BY <3>3, <3>4
  <2> QED
    BY <2>3, <2>4
<1>15. CASE DispatchDone
  BY <1>15 DEF TypeOK, DispatchDone, GoTo
<1>16. CASE FetchDecodeCycle
  <2> DEFINE fetched == [k \in 1 .. FetchCount |-> pc + k - 1]
  <2>1. Len(program) \in Nat /\ Len(dir) \in Nat /\ Len(dir) <= DIR_SIZE /\ pc \in Nat
    BY DEF TypeOK
  <2>2. /\ FetchCount \in Nat /\ FetchCount <= DIR_SIZE - Len(dir)
        /\ FetchCount # 0 => pc + FetchCount <= Len(program)
    BY <1>a, <2>1, SizesAssumption DEF FetchCount, SmallerOf, DIR_SIZE
  <2>3. \A k \in 1 .. FetchCount : pc + k - 1 \in 0 .. Len(program) - 1
    BY <2>1, <2>2
  <2>4. fetched \in Seq(0 .. Len(program) - 1) /\ Len(fetched) = FetchCount
    BY <2>2, <2>3
  <2>5. dir' = dir \o fetched /\ program' = program
    BY <1>16 DEF FetchDecodeCycle
  <2>6. dir' \in Seq(0 .. Len(program) - 1) /\ Len(dir') <= DIR_SIZE
    <3>1. dir \in Seq(0 .. Len(program) - 1)
      BY DEF TypeOK
    <3> HIDE DEF fetched
    <3> QED
      BY <1>a, <2>1, <2>2, <2>4, <2>5, <3>1, ConcatProperties
  <2>7. pc' \in Nat /\ ready_to_finish' \in BOOLEAN /\ finished' \in BOOLEAN
    BY <1>16, <2>1, <2>2 DEF TypeOK, FetchDecodeCycle, NextPc, NothingLeft
  <2> QED
    BY <1>16, <2>5, <2>6, <2>7 DEF TypeOK, FetchDecodeCycle, GoTo
<1>17. CASE Terminated \/ UNCHANGED vars
  BY SMTT(30), <1>17 DEF TypeOK, Terminated, vars
<1> QED
  BY <1>1, <1>2, <1>3, <1>4, <1>5, <1>6, <1>7, <1>8, <1>9, <1>10, <1>11,
     <1>12, <1>13, <1>14, <1>15, <1>16, <1>17
  DEF Next, CommitCycle, IssueCycle, RenameDispatchCycle

-----------------------------------------------------------------------------
(***************************************************************************)
(* The steps that move registers, in the states that are reached: the     *)
(* error branches inside them are not taken.                               *)
(***************************************************************************)

LEMMA CommitEffect ==
    ASSUME TypeOK, Accounting, CommitInstr
    PROVE  /\ active_list # << >>
           /\ free_list' = Append(free_list, Oldest.old_phy_dest)
           /\ active_list' = Tail(active_list)
           /\ UNCHANGED <<logical, dir, iq, error>>
           /\ stage = "commit" /\ stage' = "commit"
<1>1. active_list \in Seq(ActiveEntry) /\ active_list # << >>
  BY DEF TypeOK, CommitInstr
<1>2. Oldest.old_phy_dest \in PhyReg
  BY <1>1, OldestType
<1>3. Len(free_list) # FREE_LIST_SIZE
  BY <1>1, SizesAssumption, RegLogAssumption DEF TypeOK, Accounting, FREE_LIST_SIZE
<1>4. FreeListPushResult(FreedAtCommit(Oldest)) = "ERR_NONE"
  BY <1>2, <1>3, SizesAssumption DEF FreeListPushResult, FreedAtCommit, PhyReg
<1> QED
  BY <1>1, <1>4 DEF CommitInstr, FreedAtCommit, Iterate, AtCommit, issueVars

LEMMA RecoverEffect ==
    ASSUME TypeOK, Accounting, RecoverInstr
    PROVE  LET n == Len(active_list)
               undone == active_list[n]
               current == logical[undone.log_dest]
           IN  /\ n \in Nat \ {0} /\ undone \in ActiveEntry
               /\ undone.log_dest \in LogReg /\ undone.old_phy_dest \in PhyReg
               /\ current \in PhyReg
               /\ free_list' = Append(free_list, current)
               /\ logical' = [logical EXCEPT ![undone.log_dest] = undone.old_phy_dest]
               /\ active_list' = RemoveAt(active_list, n)
               /\ UNCHANGED <<dir, iq, error>>
               /\ stage = "commit" /\ stage' = "commit"
<1> DEFINE n == Len(active_list)
           undone == active_list[n]
           current == logical[undone.log_dest]
<1>1. n \in Nat \ {0} /\ undone \in ActiveEntry
  BY DEF TypeOK, RecoverInstr
<1>2. undone.log_dest \in LogReg /\ undone.old_phy_dest \in PhyReg
  BY <1>1 DEF ActiveEntry
<1>3. current \in PhyReg
  BY <1>2 DEF TypeOK
<1>4. Len(free_list) # FREE_LIST_SIZE
  BY <1>1, SizesAssumption, RegLogAssumption DEF TypeOK, Accounting, FREE_LIST_SIZE
<1>5. FreeListPushResult(current) = "ERR_NONE"
  BY <1>3, <1>4, SizesAssumption DEF FreeListPushResult, PhyReg
<1>6. /\ free_list' = Append(free_list, current)
      /\ logical' = [logical EXCEPT ![undone.log_dest] = undone.old_phy_dest]
      /\ active_list' = RemoveAt(active_list, n)
      /\ UNCHANGED <<dir, iq, error>>
      /\ stage = "commit" /\ stage' = "commit"
  BY <1>5 DEF RecoverInstr, RecoverIndex, Iterate, AtCommit, issueVars
<1> QED
  BY <1>1, <1>2, <1>3, <1>6

\* An instruction is renamed and dispatched, or the check of free_list_pop on
\* its uninitialised output parameter loses it.
LEMMA RenameEffect ==
    ASSUME TypeOK, Accounting, RenameInstr
    PROVE  /\ stage = "dispatch" /\ dir # << >> /\ dir' = Tail(dir)
           /\ \/ /\ \E slot \in UninitRegIdx : slot >= REG_PHY_FILE_SIZE
                 /\ UNCHANGED <<renameVars, iq>>
                 /\ stage' = "commit"
              \/ /\ free_list # << >>
                 /\ free_list' = Tail(free_list)
                 /\ active_list' = Append(active_list,
                                          NewActiveEntry(Head(dir), Head(free_list)))
                 /\ logical' = [logical EXCEPT
                        ![NewActiveEntry(Head(dir), Head(free_list)).log_dest] = Head(free_list)]
                 /\ Len(iq') = Len(iq) + 1
                 /\ UNCHANGED <<stage, error>>
<1>1. stage = "dispatch" /\ dir # << >> /\ dir' = Tail(dir)
  BY DEF RenameInstr
<1>2. /\ Len(free_list) > 0 /\ Len(active_list) < ACTIVE_LIST_SIZE
      /\ Len(iq) < IQ_CAPACITY /\ free_list # << >>
  <2>1. Len(dir) \in Nat /\ Len(dir) > 0
    BY <1>1 DEF TypeOK
  <2> QED
    BY SMTT(30), <1>1, <2>1, SizesAssumption, RegLogAssumption
    DEF TypeOK, Accounting, ACTIVE_LIST_SIZE
<1>3. PICK slot \in UninitRegIdx : RenameHead(slot)
  BY DEF RenameInstr
<1>4. CASE slot >= REG_PHY_FILE_SIZE
  <2>1. FreeListPopResult(slot) = "ERR_INVALID_PHY_REG"
    BY <1>4 DEF FreeListPopResult
  <2> QED
    BY <1>1, <1>3, <1>4, <2>1 DEF RenameHead, Abort, GoTo
<1>5. CASE ~(slot >= REG_PHY_FILE_SIZE)
  <2>1. FreeListPopResult(slot) = "ERR_NONE"
    BY <1>2, <1>5 DEF FreeListPopResult
  <2>2. free_list' = Tail(free_list) /\ Dispatch(Head(dir), Head(free_list))
    BY <1>2, <1>3, <2>1, SizesAssumption, RegLogAssumption
    DEF RenameHead, TypeOK, ACTIVE_LIST_SIZE
  <2>3. /\ active_list' = Append(active_list, NewActiveEntry(Head(dir), Head(free_list)))
        /\ logical' = [logical EXCEPT
               ![NewActiveEntry(Head(dir), Head(free_list)).log_dest] = Head(free_list)]
    BY <2>2 DEF Dispatch
  <2>4. /\ \E e : iq' = Append(iq, e)
        /\ UNCHANGED <<stage, error>>
    <3>1. Len(iq) # IQ_CAPACITY
      BY <1>2, SizesAssumption DEF TypeOK
    <3> QED
      BY <2>2, <3>1, Zenon DEF Dispatch
  <2>5. Len(iq') = Len(iq) + 1
    BY <2>4 DEF TypeOK
  <2> QED
    BY <1>1, <1>2, <2>2, <2>3, <2>4, <2>5
<1> QED
  BY <1>4, <1>5

\* Every other step leaves the free list, the map and the registers named in the
\* active list alone.
LEMMA OtherSteps ==
    ASSUME TypeOK, Accounting, [Next]_vars,
           ~CommitInstr, ~RecoverInstr, ~RenameInstr
    PROVE  /\ UNCHANGED <<free_list, logical, error>>
           /\ Len(active_list') = Len(active_list)
           /\ \A i \in 1 .. Len(active_list) :
                 /\ active_list'[i].log_dest = active_list[i].log_dest
                 /\ active_list'[i].old_phy_dest = active_list[i].old_phy_dest
                 /\ active_list'[i].curr_phy_dest = active_list[i].curr_phy_dest
<1> USE DEF renameVars, vars
<1>1. CASE WriteBack
  <2> DEFINE instr == Forwarded(step + 1)
  <2>1. UNCHANGED <<free_list, logical, error>>
    BY <1>1 DEF WriteBack
  <2>2. step + 1 \in 1 .. NUM_ALUS /\ ALU_STAGES \in 1 .. ALU_STAGES
    BY <1>1, SizesAssumption DEF TypeOK, Accounting, WriteBack
  <2>3. instr \in Renamed \cup {EmptySlot}
    BY <2>2 DEF TypeOK, Forwarded
  <2>4. CASE instr.type = "unknown"
    BY <1>1, <2>1, <2>4 DEF WriteBack
  <2>5. CASE instr.type # "unknown"
    <3>1. instr.is_exception \in BOOLEAN
      BY <2>3, <2>5 DEF EmptySlot, Renamed
    <3>2. MarkDone(instr.pc, instr.is_exception) /\ active_list \in Seq(ActiveEntry)
      BY <1>1, <2>5 DEF WriteBack, TypeOK
    <3> HIDE DEF instr
    <3> QED
      BY <2>1, <3>1, <3>2, MarkDoneType
  <2> QED
    BY <2>4, <2>5
<1>2. CASE ~WriteBack
  <2>1. UNCHANGED <<renameVars, error>>
    BY <1>2 DEF Next, CommitCycle, CommitDone, RaiseException, LeaveException,
      RecoverDone, AluCycles, IssueCycle, RefreshReady, TakeReady, PassWaiting,
      IssueToAlus, RenameDispatchCycle, CheckResources, DispatchDone,
      FetchDecodeCycle, Terminated
  <2> QED
    BY <2>1
<1> QED
  BY <1>1, <1>2

-----------------------------------------------------------------------------
(***************************************************************************)
(* The resources of the machine suffice: no stage returns an error.        *)
(***************************************************************************)

LEMMA AccountingInit == Init => Accounting
<1> SUFFICES ASSUME Init PROVE Accounting
  OBVIOUS
<1>1. FREE_LIST_SIZE \in Nat
  BY SizesAssumption, RegLogAssumption DEF FREE_LIST_SIZE
<1>2. Len(free_list) = FREE_LIST_SIZE /\ Len(active_list) = 0 /\ stage = "commit"
  BY <1>1 DEF Init
<1> QED
  BY <1>1, <1>2 DEF Accounting

LEMMA AccountingNext == TypeOK /\ Accounting /\ [Next]_vars => Accounting'
<1> SUFFICES ASSUME TypeOK, Accounting, [Next]_vars PROVE Accounting'
  OBVIOUS
<1>a. /\ Len(free_list) \in Nat /\ Len(active_list) \in Nat /\ Len(dir) \in Nat
      /\ Len(iq) \in Nat /\ FREE_LIST_SIZE \in Nat /\ ACTIVE_LIST_SIZE \in Nat
      /\ DIR_SIZE = INSTRUCTIONS_PER_CYCLE /\ DIR_SIZE \in Nat /\ IQ_CAPACITY \in Nat
      /\ NUM_ALUS \in Nat \ {0}
  BY SizesAssumption, RegLogAssumption
  DEF TypeOK, FREE_LIST_SIZE, ACTIVE_LIST_SIZE, DIR_SIZE
<1>1. CASE CommitInstr
  <2>1. Len(free_list') = Len(free_list) + 1 /\ Len(active_list') = Len(active_list) - 1
    BY <1>1, CommitEffect DEF TypeOK
  <2>2. stage' = "commit"
    BY <1>1, CommitEffect
  <2> QED
    BY <1>a, <2>1, <2>2 DEF Accounting
<1>2. CASE RecoverInstr
  <2>1. Len(free_list') = Len(free_list) + 1
    BY <1>2, RecoverEffect DEF TypeOK
  <2>2. Len(active_list') = Len(active_list) - 1
    BY SMTT(30), <1>2, RecoverEffect, RemoveAtProperties DEF TypeOK
  <2> QED
    BY SMTT(30), <1>2, <1>a, <2>1, <2>2, RecoverEffect DEF Accounting
<1>3. CASE RenameInstr
  <2>1. dir # << >> /\ dir' = Tail(dir) /\ stage = "dispatch"
    BY <1>3, RenameEffect
  <2>2. Len(dir') = Len(dir) - 1
    BY <2>1 DEF TypeOK
  <2>3. CASE UNCHANGED <<renameVars, iq>> /\ stage' = "commit"
    BY <1>a, <2>2, <2>3 DEF Accounting, renameVars
  <2>4. CASE /\ free_list # << >>
             /\ free_list' = Tail(free_list)
             /\ active_list' = Append(active_list,
                                      NewActiveEntry(Head(dir), Head(free_list)))
             /\ Len(iq') = Len(iq) + 1
             /\ UNCHANGED <<stage, error>>
    <3>1. Len(free_list') = Len(free_list) - 1
      BY <2>4 DEF TypeOK
    <3>2. NewActiveEntry(Head(dir), Head(free_list)) \in ActiveEntry
      <4>1. Head(dir) \in 0 .. Len(program) - 1 /\ Head(free_list) \in PhyReg
        BY SMTT(30), <2>1, <2>4 DEF TypeOK
      <4> QED
        BY <4>1, RenamingType
    <3>3. Len(active_list') = Len(active_list) + 1
      BY <2>4, <3>2 DEF TypeOK
    <3>4. /\ Len(free_list) + Len(active_list) = FREE_LIST_SIZE
          /\ Len(dir) <= Len(free_list)
          /\ Len(dir) <= ACTIVE_LIST_SIZE - Len(active_list)
          /\ Len(dir) <= IQ_CAPACITY - Len(iq)
      BY <2>1 DEF Accounting
    <3>5. stage' = "dispatch" /\ Len(iq') = Len(iq) + 1
      BY <2>1, <2>4
    <3>6. ACTIVE_LIST_SIZE' = ACTIVE_LIST_SIZE /\ FREE_LIST_SIZE' = FREE_LIST_SIZE
      BY DEF ACTIVE_LIST_SIZE, FREE_LIST_SIZE
    <3>7. /\ Len(free_list') + Len(active_list') = FREE_LIST_SIZE
          /\ Len(dir') <= Len(free_list')
          /\ Len(dir') <= ACTIVE_LIST_SIZE - Len(active_list')
          /\ Len(dir') <= IQ_CAPACITY - Len(iq')
      <4>1. /\ Len(free_list) - 1 + (Len(active_list) + 1) = FREE_LIST_SIZE
            /\ Len(dir) - 1 <= Len(free_list) - 1
        BY <1>a, <3>4
      <4>2. Len(dir) - 1 <= ACTIVE_LIST_SIZE - (Len(active_list) + 1)
        BY <1>a, <3>4
      <4>3. Len(dir) - 1 <= IQ_CAPACITY - (Len(iq) + 1)
        BY <1>a, <3>4
      <4> QED
        BY <2>2, <3>1, <3>3, <3>5, <4>1, <4>2, <4>3, Zenon
    <3> QED
      BY <3>5, <3>6, <3>7 DEF Accounting
  <2> QED
    BY <1>3, <2>3, <2>4, RenameEffect
<1>4. CASE ~CommitInstr /\ ~RecoverInstr /\ ~RenameInstr
  <2>1. Len(free_list') + Len(active_list') = FREE_LIST_SIZE
    BY <1>4, OtherSteps DEF Accounting
  <2>2. CASE CheckResources
    <3>1. RoomForBundle => /\ Len(dir) <= Len(free_list)
                           /\ Len(dir) <= ACTIVE_LIST_SIZE - Len(active_list)
                           /\ Len(dir) <= IQ_CAPACITY - Len(iq)
      BY <1>a DEF RoomForBundle, TypeOK
    <3>2. UNCHANGED <<dir, free_list, active_list, iq>>
      BY <2>2 DEF CheckResources, renameVars, issueVars
    <3>3. stage' = "dispatch" => RoomForBundle
      BY <2>2 DEF CheckResources, GoTo
    <3>4. stage' # "writeback"
      BY <2>2 DEF CheckResources, GoTo
    <3> QED
      BY <2>1, <3>1, <3>2, <3>3, <3>4 DEF Accounting
  <2>3. CASE AluCycles \/ WriteBack
    <3>1. stage' = "writeback" => step' < NUM_ALUS
      BY <1>a, <2>3 DEF AluCycles, WriteBack, GoTo, IterateUpTo, Iterate, TypeOK
    <3>2. stage' # "dispatch"
      BY <2>3 DEF AluCycles, WriteBack, GoTo, IterateUpTo, Iterate
    <3> QED
      BY <2>1, <3>1, <3>2 DEF Accounting
  <2>4. CASE UNCHANGED vars \/ Terminated
    BY <2>1, <2>4 DEF Accounting, vars, renameVars, issueVars, Terminated
  <2>5. CASE ~CheckResources /\ ~AluCycles /\ ~WriteBack /\ ~UNCHANGED vars /\ ~Terminated
    <3>1. stage' # "dispatch" /\ stage' # "writeback"
      BY <1>4, <2>5 DEF Next, CommitCycle, CommitDone, RaiseException, LeaveException,
        RecoverDone, IssueCycle, RefreshReady, TakeReady, PassWaiting, IssueToAlus,
        RenameDispatchCycle, DispatchDone, FetchDecodeCycle, GoTo, Iterate,
        StayAtIndex, Scanning, AtCommit
    <3> QED
      BY <2>1, <3>1 DEF Accounting
  <2> QED
    BY <2>2, <2>3, <2>4, <2>5
<1> QED
  BY <1>1, <1>2, <1>3, <1>4

LEMMA NoStageErrorNext ==
    ASSUME UninitRegIdx \subseteq PhyReg,
           TypeOK, Accounting, NoStageError, [Next]_vars
    PROVE  NoStageError'
<1>1. ~ \E slot \in UninitRegIdx : slot >= REG_PHY_FILE_SIZE
  BY SizesAssumption DEF PhyReg
<1>2. error' = error
  BY <1>1, CommitEffect, RecoverEffect, RenameEffect, OtherSteps
<1> QED
  BY <1>2 DEF NoStageError

-----------------------------------------------------------------------------
\* Every variable keeps the type of its C declaration and no queue is ever longer
\* than its array, in every instance of the machine.
THEOREM TypeCorrect == Spec => [](TypeOK /\ Accounting)
<1>1. Init => TypeOK /\ Accounting
  BY TypeInit, AccountingInit
<1>2. TypeOK /\ Accounting /\ [Next]_vars => TypeOK' /\ Accounting'
  BY TypeNext, AccountingNext
<1> QED
  BY <1>1, <1>2, PTL DEF Spec

\* If the uninitialised variable of rename_dispatch_cycle always holds the number
\* of a register, no stage ever reports an error.
THEOREM NoStageErrorHolds ==
    ASSUME UninitRegIdx \subseteq PhyReg
    PROVE  Spec => []NoStageError
<1>1. Init => NoStageError
  BY DEF Init, NoStageError
<1>2. TypeOK /\ Accounting /\ NoStageError /\ [Next]_vars => NoStageError'
  BY NoStageErrorNext
<1> QED
  BY <1>1, <1>2, TypeCorrect, PTL DEF Spec

-----------------------------------------------------------------------------
(***************************************************************************)
(* Every physical register is in exactly one place.                        *)
(***************************************************************************)

\* What an added last element does to a sequence without repetition.
LEMMA Extended ==
    ASSUME NEW n \in Nat, NEW s, NEW t,
           DOMAIN s = 1 .. n, DOMAIN t = 1 .. n + 1,
           \A i \in 1 .. n : t[i] = s[i],
           Injective(s), t[n + 1] \notin Range(s)
    PROVE  Injective(t) /\ Range(t) = Range(s) \cup {t[n + 1]}
<1>1. 1 .. n + 1 = (1 .. n) \cup {n + 1}
  OBVIOUS
<1>2. Range(t) = Range(s) \cup {t[n + 1]}
  BY <1>1 DEF Range
<1>3. \A a \in 1 .. n : t[a] \in Range(s)
  BY DEF Range
<1>4. \A a, b \in 1 .. n : t[a] = t[b] => a = b
  BY DEF Injective
<1>5. Injective(t)
  BY <1>1, <1>3, <1>4 DEF Injective
<1> QED
  BY <1>2, <1>5

\* What the removal of the last element does to one.
LEMMA WithoutLast ==
    ASSUME NEW n \in Nat, NEW s, NEW t,
           DOMAIN s = 1 .. n + 1, DOMAIN t = 1 .. n,
           \A i \in 1 .. n : t[i] = s[i],
           Injective(s)
    PROVE  Injective(t) /\ Range(t) = Range(s) \ {s[n + 1]} /\ s[n + 1] \in Range(s)
<1>1. 1 .. n + 1 = (1 .. n) \cup {n + 1} /\ n + 1 \notin 1 .. n
  OBVIOUS
<1>2. s[n + 1] \in Range(s)
  BY <1>1 DEF Range
<1>3. Injective(t)
  BY <1>1 DEF Injective
<1>4. \A a \in 1 .. n : s[a] # s[n + 1]
  BY <1>1 DEF Injective
<1>5. Range(t) = Range(s) \ {s[n + 1]}
  BY <1>1, <1>4 DEF Range
<1> QED
  BY <1>2, <1>3, <1>5

\* What the removal of the first element does to one.
LEMMA WithoutFirst ==
    ASSUME NEW n \in Nat, NEW s, NEW t,
           DOMAIN s = 1 .. n + 1, DOMAIN t = 1 .. n,
           \A i \in 1 .. n : t[i] = s[i + 1],
           Injective(s)
    PROVE  Injective(t) /\ Range(t) = Range(s) \ {s[1]} /\ s[1] \in Range(s)
<1>1. /\ 1 \in 1 .. n + 1
      /\ \A i \in 1 .. n : i + 1 \in 1 .. n + 1 /\ i + 1 # 1
      /\ \A j \in 1 .. n + 1 : j = 1 \/ (j - 1 \in 1 .. n /\ j = (j - 1) + 1)
  OBVIOUS
<1>2. s[1] \in Range(s)
  BY <1>1 DEF Range
<1>3. Injective(t)
  <2> SUFFICES ASSUME NEW a \in 1 .. n, NEW b \in 1 .. n, t[a] = t[b] PROVE a = b
    BY DEF Injective
  <2>1. a + 1 = b + 1
    BY SMTT(30), <1>1 DEF Injective
  <2> QED
    BY <2>1
<1>4. \A a \in 1 .. n : s[a + 1] # s[1]
  BY <1>1 DEF Injective
<1>5. Range(t) = Range(s) \ {s[1]}
  <2>1. ASSUME NEW x \in Range(t) PROVE x \in Range(s) \ {s[1]}
    BY <1>1, <1>4 DEF Range
  <2>2. ASSUME NEW x \in Range(s) \ {s[1]} PROVE x \in Range(t)
    <3>1. PICK j \in 1 .. n + 1 : x = s[j]
      BY DEF Range
    <3>2. j - 1 \in 1 .. n /\ x = t[j - 1]
      BY <1>1, <3>1
    <3> QED
      BY <3>2 DEF Range
  <2> QED
    BY <2>1, <2>2
<1> QED
  BY <1>2, <1>3, <1>5

\* What the change of one value does to an injective function.
LEMMA Updated ==
    ASSUME NEW D, NEW f, NEW g, NEW d \in D, NEW x,
           DOMAIN f = D, DOMAIN g = D,
           g[d] = x, \A e \in D : e # d => g[e] = f[e],
           Injective(f), x \notin Range(f)
    PROVE  Injective(g) /\ Range(g) = (Range(f) \ {f[d]}) \cup {x} /\ f[d] \in Range(f)
<1>1. DOMAIN g = D /\ g[d] = x /\ \A e \in D : e # d => g[e] = f[e]
  OBVIOUS
<1>2. DOMAIN f = D /\ \A e \in D : f[e] \in Range(f)
  BY DEF Range
<1>3. Injective(g)
  BY <1>1, <1>2 DEF Injective
<1>4. Range(g) = (Range(f) \ {f[d]}) \cup {x}
  <2>1. ASSUME NEW y \in Range(g) PROVE y \in (Range(f) \ {f[d]}) \cup {x}
    <3>1. PICK e \in D : y = g[e]
      BY <1>1 DEF Range
    <3> QED
      BY <1>1, <1>2, <3>1 DEF Injective
  <2>2. ASSUME NEW y \in (Range(f) \ {f[d]}) \cup {x} PROVE y \in Range(g)
    <3>1. CASE y = x
      BY <1>1, <3>1 DEF Range
    <3>2. CASE y # x
      <4>1. PICK e \in D : y = f[e]
        BY <1>2, <3>2 DEF Range
      <4>2. e # d
        BY <3>2, <4>1
      <4> QED
        BY <1>1, <4>1, <4>2 DEF Range
    <3> QED
      BY <3>1, <3>2
  <2> QED
    BY <2>1, <2>2
<1> QED
  BY <1>2, <1>3, <1>4

LEMMA PartitionInit == Init => RegisterPartition
<1> SUFFICES ASSUME Init PROVE RegisterPartition
  OBVIOUS
<1>1. /\ FREE_LIST_SIZE \in Nat
      /\ FREE_LIST_SIZE = REG_PHY_FILE_SIZE - REG_LOG_FILE_SIZE
      /\ REG_LOG_FILE_SIZE \in Nat /\ REG_PHY_FILE_SIZE \in Nat
  BY SizesAssumption, RegLogAssumption DEF FREE_LIST_SIZE
<1>2. /\ free_list = [i \in 1 .. FREE_LIST_SIZE |-> REG_LOG_FILE_SIZE + i - 1]
      /\ logical = [l \in LogReg |-> l]
      /\ OldDests = << >>
  BY DEF Init, OldDests
<1>3. Range(free_list) = REG_LOG_FILE_SIZE .. REG_PHY_FILE_SIZE - 1
  <2>1. Range(free_list) \subseteq REG_LOG_FILE_SIZE .. REG_PHY_FILE_SIZE - 1
    BY <1>1, <1>2 DEF Range
  <2>2. ASSUME NEW r \in REG_LOG_FILE_SIZE .. REG_PHY_FILE_SIZE - 1
        PROVE  r \in Range(free_list)
    <3>1. r - REG_LOG_FILE_SIZE + 1 \in 1 .. FREE_LIST_SIZE
      BY <1>1
    <3>2. free_list[r - REG_LOG_FILE_SIZE + 1] = r
      BY <1>1, <1>2, <3>1
    <3>3. DOMAIN free_list = 1 .. FREE_LIST_SIZE
      BY <1>2
    <3> QED
      BY <3>1, <3>2, <3>3 DEF Range
  <2> QED
    BY <2>1, <2>2
<1>4. Range(logical) = LogReg
  BY <1>2 DEF Range
<1>5. Range(OldDests) = {}
  BY <1>2 DEF Range
<1>6. Injective(free_list) /\ Injective(logical) /\ Injective(OldDests)
  BY <1>1, <1>2 DEF Injective
<1> QED
  BY <1>1, <1>3, <1>4, <1>5, <1>6 DEF RegisterPartition, LogReg, PhyReg

\* Commit moves the register its instruction replaced to the free list.
LEMMA PartitionCommit ==
    ASSUME TypeOK, Accounting, RegisterPartition, CommitInstr
    PROVE  RegisterPartition'
<1> DEFINE freed == OldDests[1]
           n == Len(active_list) - 1
<1>1. /\ free_list' = Append(free_list, Oldest.old_phy_dest)
      /\ active_list' = Tail(active_list) /\ active_list # << >>
      /\ logical' = logical
  BY CommitEffect
<1>2. /\ n \in Nat
      /\ DOMAIN OldDests = 1 .. n + 1
      /\ Oldest.old_phy_dest = freed
      /\ active_list \in Seq(ActiveEntry)
  BY <1>1 DEF TypeOK, OldDests, Oldest
<1>3. Len(active_list') = n /\ \A i \in 1 .. n : active_list'[i] = active_list[i + 1]
  BY <1>1, <1>2
<1>4. DOMAIN OldDests' = 1 .. n /\ \A i \in 1 .. n : OldDests'[i] = OldDests[i + 1]
  BY <1>2, <1>3 DEF OldDests
<1>5. /\ Injective(OldDests') /\ Range(OldDests') = Range(OldDests) \ {freed}
      /\ freed \in Range(OldDests)
  <2>1. Injective(OldDests)
    BY DEF RegisterPartition
  <2> HIDE DEF n
  <2> QED
    BY <1>2, <1>4, <2>1, WithoutFirst
<1>6. /\ Len(free_list) \in Nat
      /\ DOMAIN free_list = 1 .. Len(free_list)
      /\ freed \in PhyReg
      /\ free_list \in Seq(PhyReg)
  BY <1>1, <1>2, OldestType DEF TypeOK
<1>7. /\ DOMAIN free_list' = 1 .. Len(free_list) + 1
      /\ \A i \in 1 .. Len(free_list) : free_list'[i] = free_list[i]
      /\ free_list'[Len(free_list) + 1] = freed
  <2> HIDE DEF freed
  <2> QED
    BY <1>1, <1>2, <1>6
<1>8. Injective(free_list') /\ Range(free_list') = Range(free_list) \cup {freed}
  <2>1. Injective(free_list) /\ freed \notin Range(free_list)
    BY <1>5 DEF RegisterPartition
  <2> HIDE DEF freed
  <2> QED
    BY <1>6, <1>7, <2>1, Extended
<1> HIDE DEF freed, n
<1> QED
  BY <1>1, <1>5, <1>8 DEF RegisterPartition, PhyReg

\* Recovery moves the mapped register to the free list and the replaced one back
\* to the map.
LEMMA PartitionRecover ==
    ASSUME TypeOK, Accounting, RegisterPartition, RecoverInstr
    PROVE  RegisterPartition'
<1> DEFINE n == Len(active_list) - 1
           undone == active_list[n + 1]
           current == logical[undone.log_dest]
           old == undone.old_phy_dest
<1>1. /\ n \in Nat /\ n + 1 = Len(active_list) /\ undone \in ActiveEntry
      /\ undone.log_dest \in LogReg /\ old \in PhyReg /\ current \in PhyReg
      /\ free_list' = Append(free_list, current)
      /\ logical' = [logical EXCEPT ![undone.log_dest] = old]
      /\ active_list' = RemoveAt(active_list, n + 1)
  BY RecoverEffect
<1>2. active_list \in Seq(ActiveEntry) /\ logical \in [LogReg -> PhyReg]
      /\ free_list \in Seq(PhyReg)
  BY DEF TypeOK
<1>3. Len(active_list') = n /\ \A i \in 1 .. n : active_list'[i] = active_list[i]
  <2>1. Len(active_list) \in 1 .. Len(active_list)
    BY <1>1
  <2>2. /\ Len(RemoveAt(active_list, Len(active_list))) = Len(active_list) - 1
        /\ \A j \in 1 .. Len(active_list) - 1 :
              RemoveAt(active_list, Len(active_list))[j] =
                  IF j < Len(active_list) THEN active_list[j] ELSE active_list[j + 1]
    BY <1>2, <2>1, RemoveAtProperties
  <2>3. active_list' = RemoveAt(active_list, Len(active_list))
    BY <1>1
  <2>4. \A j \in 1 .. n : j < Len(active_list)
    BY <1>1
  <2> QED
    BY <2>2, <2>3, <2>4
<1>4. /\ DOMAIN OldDests = 1 .. n + 1 /\ OldDests[n + 1] = old
      /\ DOMAIN OldDests' = 1 .. n
      /\ \A i \in 1 .. n : OldDests'[i] = OldDests[i]
  <2>1. n + 1 \in 1 .. n + 1 /\ \A i \in 1 .. n : i \in 1 .. n + 1
    BY <1>1
  <2>2. DOMAIN OldDests = 1 .. n + 1 /\ OldDests[n + 1] = old
    BY <1>1, <2>1 DEF OldDests
  <2>3. DOMAIN OldDests' = 1 .. n
    BY <1>3 DEF OldDests
  <2>4. ASSUME NEW i \in 1 .. n PROVE OldDests'[i] = OldDests[i]
    <3> HIDE DEF n
    <3> QED
      BY <1>1, <1>3, <2>1 DEF OldDests
  <2> QED
    BY <2>2, <2>3, <2>4
<1>5. /\ Injective(OldDests') /\ Range(OldDests') = Range(OldDests) \ {old}
      /\ old \in Range(OldDests)
  <2>1. Injective(OldDests)
    BY DEF RegisterPartition
  <2> HIDE DEF n, old
  <2> QED
    BY <1>1, <1>4, <2>1, WithoutLast
<1>6. /\ Injective(logical') /\ Range(logical') = (Range(logical) \ {current}) \cup {old}
      /\ current \in Range(logical)
  <2>1. Injective(logical) /\ old \notin Range(logical)
    BY <1>5 DEF RegisterPartition
  <2> DEFINE d == undone.log_dest
  <2>2. /\ d \in LogReg
        /\ DOMAIN logical = LogReg /\ DOMAIN logical' = LogReg
        /\ logical'[d] = old
        /\ \A e \in LogReg : e # d => logical'[e] = logical[e]
    BY <1>1, <1>2
  <2>3. current = logical[d]
    OBVIOUS
  <2> HIDE DEF d, old, current
  <2> QED
    BY <2>1, <2>2, <2>3, Updated
<1>7. Injective(free_list') /\ Range(free_list') = Range(free_list) \cup {current}
  <2>1. Injective(free_list) /\ current \notin Range(free_list)
    BY <1>6 DEF RegisterPartition
  <2> HIDE DEF current
  <2>2. /\ Len(free_list) \in Nat
        /\ DOMAIN free_list = 1 .. Len(free_list)
        /\ DOMAIN free_list' = 1 .. Len(free_list) + 1
        /\ \A i \in 1 .. Len(free_list) : free_list'[i] = free_list[i]
        /\ free_list'[Len(free_list) + 1] = current
    BY <1>1, <1>2
  <2> QED
    BY <2>1, <2>2, Extended
<1> HIDE DEF n, undone, current, old
<1> QED
  BY <1>5, <1>6, <1>7 DEF RegisterPartition, PhyReg

\* Renaming moves the first free register to the map and the register the map named
\* to the active list.
LEMMA PartitionRename ==
    ASSUME TypeOK, Accounting, RegisterPartition, RenameInstr
    PROVE  RegisterPartition'
<1> DEFINE given == free_list[1]
           n == Len(free_list) - 1
           entry == NewActiveEntry(Head(dir), Head(free_list))
           old == logical[entry.log_dest]
           m == Len(active_list)
<1>1. CASE UNCHANGED <<renameVars, iq>>
  BY <1>1 DEF RegisterPartition, renameVars, OldDests
<1>2. CASE /\ free_list # << >>
           /\ free_list' = Tail(free_list)
           /\ active_list' = Append(active_list, entry)
           /\ logical' = [logical EXCEPT ![entry.log_dest] = Head(free_list)]
  <2>1. /\ free_list \in Seq(PhyReg) /\ active_list \in Seq(ActiveEntry)
        /\ logical \in [LogReg -> PhyReg]
    BY DEF TypeOK
  <2>2. /\ n \in Nat /\ DOMAIN free_list = 1 .. n + 1
        /\ DOMAIN free_list' = 1 .. n
        /\ \A i \in 1 .. n : free_list'[i] = free_list[i + 1]
        /\ Head(free_list) = given /\ given \in PhyReg
    BY <1>2, <2>1
  <2>3. entry \in ActiveEntry /\ entry.log_dest \in LogReg /\ entry.old_phy_dest = old
    <3>1. Head(dir) \in 0 .. Len(program) - 1
      BY RenameEffect DEF TypeOK
    <3>2. Head(free_list) \in PhyReg
      BY <2>2
    <3>3. entry \in ActiveEntry /\ entry.log_dest \in LogReg
      BY <3>1, <3>2, RenamingType
    <3>4. entry.old_phy_dest = old
      BY DEF NewActiveEntry
    <3> QED
      BY <3>3, <3>4
  <2>4. /\ Injective(free_list') /\ Range(free_list') = Range(free_list) \ {given}
        /\ given \in Range(free_list)
    <3>1. Injective(free_list)
      BY DEF RegisterPartition
    <3> HIDE DEF n
    <3> QED
      BY <2>2, <3>1, WithoutFirst
  <2>5. /\ Injective(logical') /\ Range(logical') = (Range(logical) \ {old}) \cup {given}
        /\ old \in Range(logical)
    <3>1. Injective(logical) /\ given \notin Range(logical)
      BY <2>4 DEF RegisterPartition
    <3> DEFINE d == entry.log_dest
    <3>2. /\ d \in LogReg
          /\ DOMAIN logical = LogReg /\ DOMAIN logical' = LogReg
          /\ logical'[d] = given
          /\ \A e \in LogReg : e # d => logical'[e] = logical[e]
      BY <1>2, <2>1, <2>2, <2>3
    <3>3. old = logical[d]
      OBVIOUS
    <3> HIDE DEF d, given, old
    <3> QED
      BY <3>1, <3>2, <3>3, Updated
  <2> HIDE DEF given, n, old
  <2>6. /\ m \in Nat /\ DOMAIN OldDests = 1 .. m
        /\ DOMAIN OldDests' = 1 .. m + 1
        /\ \A i \in 1 .. m : OldDests'[i] = OldDests[i]
        /\ OldDests'[m + 1] = old
    <3> HIDE DEF entry
    <3>1. m \in Nat /\ Len(active_list') = m + 1
      BY <1>2, <2>1, <2>3
    <3>2. /\ \A i \in 1 .. m : active_list'[i] = active_list[i]
          /\ active_list'[m + 1] = entry
      BY <1>2, <2>1, <2>3
    <3> QED
      BY <2>3, <3>1, <3>2 DEF OldDests
  <2>7. Injective(OldDests') /\ Range(OldDests') = Range(OldDests) \cup {old}
    <3>1. Injective(OldDests) /\ old \notin Range(OldDests)
      BY <2>5 DEF RegisterPartition
    <3> HIDE DEF m
    <3> QED
      BY <2>6, <3>1, Extended
  <2> HIDE DEF m, entry
  <2> QED
    BY <2>4, <2>5, <2>7 DEF RegisterPartition, PhyReg
<1> QED
  BY <1>1, <1>2, RenameEffect

LEMMA PartitionNext ==
    TypeOK /\ Accounting /\ RegisterPartition /\ [Next]_vars => RegisterPartition'
<1> SUFFICES ASSUME TypeOK, Accounting, RegisterPartition, [Next]_vars
             PROVE  RegisterPartition'
  OBVIOUS
<1>1. CASE ~CommitInstr /\ ~RecoverInstr /\ ~RenameInstr
  <2>1. UNCHANGED <<free_list, logical>>
    BY <1>1, OtherSteps
  <2>2. OldDests' = OldDests
    BY <1>1, OtherSteps DEF OldDests
  <2> QED
    BY <2>1, <2>2 DEF RegisterPartition, PhyReg
<1> QED
  BY <1>1, PartitionCommit, PartitionRecover, PartitionRename

\* No register is ever lost or owned twice, in every instance of the machine,
\* whatever the uninitialised variable of rename_dispatch_cycle holds.
THEOREM RegistersPartitioned == Spec => []RegisterPartition
<1>1. Init => RegisterPartition
  BY PartitionInit
<1>2. TypeOK /\ Accounting /\ RegisterPartition /\ [Next]_vars => RegisterPartition'
  BY PartitionNext
<1> QED
  BY <1>1, <1>2, TypeCorrect, PTL DEF Spec

-----------------------------------------------------------------------------
(***************************************************************************)
(* The writers of a register in flight form a chain.                       *)
(***************************************************************************)

LEMMA ChainCommit ==
    ASSUME TypeOK, Accounting, RenameChain, CommitInstr
    PROVE  RenameChain'
<1> DEFINE n == Len(active_list)
           m == Len(active_list')
<1>1. /\ active_list \in Seq(ActiveEntry) /\ active_list # << >>
      /\ active_list' = Tail(active_list)
      /\ logical' = logical
  BY CommitEffect DEF TypeOK
<1>2. n \in Nat \ {0} /\ m = n - 1
      /\ \A i \in 1 .. m : active_list'[i] = active_list[i + 1]
  BY <1>1
<1>3. SUFFICES ASSUME NEW i \in 1 .. m
               PROVE  /\ LaterWriters(i)' = {} =>
                            active_list'[i].curr_phy_dest = logical'[active_list'[i].log_dest]
                      /\ \A j \in LaterWriters(i)' : (\A k \in LaterWriters(i)' : j <= k) =>
                            active_list'[i].curr_phy_dest = active_list'[j].old_phy_dest
  BY DEF RenameChain
<1>4. i \in Nat /\ i + 1 \in 1 .. n /\ active_list'[i] = active_list[i + 1]
  BY <1>2
<1>5. \A j \in Int : j \in LaterWriters(i)' <=> j + 1 \in LaterWriters(i + 1)
  <2> SUFFICES ASSUME NEW j \in Int
               PROVE  j \in LaterWriters(i)' <=> j + 1 \in LaterWriters(i + 1)
    OBVIOUS
  <2>1. j \in i + 1 .. m <=> j + 1 \in i + 2 .. n
    BY <1>2, <1>4
  <2>2. j \in i + 1 .. m => active_list'[j] = active_list[j + 1]
    BY <1>2, <1>4
  <2>3. (i + 1) + 1 = i + 2
    BY <1>4
  <2> HIDE DEF n, m
  <2> QED
    BY <1>4, <2>1, <2>2, <2>3 DEF LaterWriters, n, m
<1>6. LaterWriters(i)' \subseteq i + 1 .. m /\ LaterWriters(i + 1) \subseteq i + 2 .. n
  BY <1>4 DEF LaterWriters
<1> HIDE DEF n, m
<1>7. \A j \in LaterWriters(i + 1) : j - 1 \in LaterWriters(i)'
  <2> SUFFICES ASSUME NEW j \in LaterWriters(i + 1) PROVE j - 1 \in LaterWriters(i)'
    OBVIOUS
  <2>1. j \in Int /\ j - 1 \in Int /\ (j - 1) + 1 = j
    BY <1>2, <1>4, <1>6
  <2> QED
    BY <1>5, <2>1
<1>8. CASE LaterWriters(i)' = {}
  <2>1. LaterWriters(i + 1) = {}
    BY <1>7, <1>8
  <2>2. active_list[i + 1].curr_phy_dest = logical[active_list[i + 1].log_dest]
    BY <1>4, <2>1 DEF RenameChain, n
  <2> QED
    BY <1>1, <1>4, <1>8, <2>2
<1>9. ASSUME NEW j \in LaterWriters(i)', \A k \in LaterWriters(i)' : j <= k
      PROVE  active_list'[i].curr_phy_dest = active_list'[j].old_phy_dest
  <2>1. j \in Int /\ j \in 1 .. m
    BY <1>2, <1>4, <1>6
  <2>2. j + 1 \in LaterWriters(i + 1)
    BY <1>5, <2>1
  <2>3. ASSUME NEW k \in LaterWriters(i + 1) PROVE j + 1 <= k
    <3>1. k \in Int /\ j <= k - 1
      BY <1>2, <1>4, <1>6, <1>7, <1>9
    <3> QED
      BY <2>1, <3>1
  <2>4. active_list[i + 1].curr_phy_dest = active_list[j + 1].old_phy_dest
    BY <1>4, <2>2, <2>3 DEF RenameChain, n
  <2> QED
    BY <1>2, <1>4, <2>1, <2>4
<1> QED
  BY <1>8, <1>9

LEMMA ChainRecover ==
    ASSUME TypeOK, Accounting, RenameChain, RecoverInstr
    PROVE  RenameChain'
<1> DEFINE n == Len(active_list)
           m == Len(active_list')
           log == active_list[n].log_dest
<1>1. /\ active_list \in Seq(ActiveEntry) /\ n \in Nat \ {0}
      /\ logical \in [LogReg -> PhyReg] /\ log \in LogReg
      /\ active_list' = RemoveAt(active_list, n)
      /\ logical' = [logical EXCEPT ![log] = active_list[n].old_phy_dest]
  BY RecoverEffect DEF TypeOK
<1>2. /\ m = n - 1
      /\ \A j \in 1 .. m : active_list'[j] = active_list[j] /\ active_list[j].log_dest \in LogReg
  <2>1. n \in 1 .. Len(active_list)
    BY <1>1
  <2>2. /\ m = n - 1
        /\ \A j \in 1 .. n - 1 :
              active_list'[j] = IF j < n THEN active_list[j] ELSE active_list[j + 1]
    BY <1>1, <2>1, RemoveAtProperties
  <2>3. \A j \in 1 .. m : j < n /\ active_list[j] \in ActiveEntry
    BY <1>1, <2>2
  <2> HIDE DEF n, m
  <2> QED
    BY <2>2, <2>3 DEF ActiveEntry
<1>3. SUFFICES ASSUME NEW i \in 1 .. m
               PROVE  /\ LaterWriters(i)' = {} =>
                            active_list'[i].curr_phy_dest = logical'[active_list'[i].log_dest]
                      /\ \A j \in LaterWriters(i)' : (\A k \in LaterWriters(i)' : j <= k) =>
                            active_list'[i].curr_phy_dest = active_list'[j].old_phy_dest
  BY DEF RenameChain
<1>4. i \in 1 .. n /\ active_list'[i] = active_list[i]
  BY <1>1, <1>2
<1>5. /\ i + 1 .. n = (i + 1 .. m) \cup {n}
      /\ \A j \in i + 1 .. m : j \in 1 .. m /\ j <= n
  BY <1>1, <1>2
<1>6. LaterWriters(i) = LaterWriters(i)' \cup (IF active_list[i].log_dest = log THEN {n} ELSE {})
  <2>1. LaterWriters(i)' = {j \in i + 1 .. m : active_list[j].log_dest = active_list[i].log_dest}
    BY <1>2, <1>4, <1>5 DEF LaterWriters
  <2>2. LaterWriters(i) = {j \in (i + 1 .. m) \cup {n} :
                               active_list[j].log_dest = active_list[i].log_dest}
    BY <1>5 DEF LaterWriters
  <2> HIDE DEF n, m
  <2> QED
    BY <2>1, <2>2
<1>7. LaterWriters(i)' \subseteq i + 1 .. m
  BY DEF LaterWriters
<1>8. CASE LaterWriters(i)' = {}
  <2>1. CASE active_list[i].log_dest = log
    <3>1. LaterWriters(i) = {n}
      BY <1>6, <1>8, <2>1
    <3>2. active_list[i].curr_phy_dest = active_list[n].old_phy_dest
      BY <1>1, <1>4, <3>1 DEF RenameChain
    <3> QED
      BY <1>1, <1>4, <1>8, <2>1, <3>2
  <2>2. CASE active_list[i].log_dest # log
    <3>1. LaterWriters(i) = {}
      BY <1>6, <1>8, <2>2
    <3>2. active_list[i].curr_phy_dest = logical[active_list[i].log_dest]
      BY <1>4, <3>1 DEF RenameChain
    <3>3. logical'[active_list[i].log_dest] = logical[active_list[i].log_dest]
      BY <1>1, <1>2, <2>2
    <3> QED
      BY <1>4, <1>8, <3>2, <3>3
  <2> QED
    BY <2>1, <2>2
<1>9. ASSUME NEW j \in LaterWriters(i)', \A k \in LaterWriters(i)' : j <= k
      PROVE  active_list'[i].curr_phy_dest = active_list'[j].old_phy_dest
  <2>1. j \in LaterWriters(i) /\ j \in 1 .. m /\ j <= n
    BY <1>5, <1>6, <1>7
  <2>2. \A k \in LaterWriters(i) : j <= k
    BY <1>6, <1>9, <2>1
  <2>3. active_list[i].curr_phy_dest = active_list[j].old_phy_dest
    BY <1>4, <2>1, <2>2 DEF RenameChain
  <2> QED
    BY <1>2, <1>4, <2>1, <2>3
<1> HIDE DEF n, m, log
<1> QED
  BY <1>8, <1>9

LEMMA ChainRename ==
    ASSUME TypeOK, Accounting, RenameChain, RenameInstr
    PROVE  RenameChain'
<1> DEFINE n == Len(active_list)
           m == Len(active_list')
           entry == NewActiveEntry(Head(dir), Head(free_list))
           log == entry.log_dest
<1>1. CASE UNCHANGED <<renameVars, iq>>
  BY <1>1 DEF RenameChain, LaterWriters, renameVars
<1>2. CASE /\ free_list # << >>
           /\ active_list' = Append(active_list, entry)
           /\ logical' = [logical EXCEPT ![log] = Head(free_list)]
  <2>1. /\ active_list \in Seq(ActiveEntry) /\ n \in Nat
        /\ logical \in [LogReg -> PhyReg]
    BY DEF TypeOK
  <2>2. entry \in ActiveEntry /\ log \in LogReg
    <3>1. Head(dir) \in 0 .. Len(program) - 1 /\ Head(free_list) \in PhyReg
      BY <1>2, RenameEffect DEF TypeOK
    <3> QED
      BY <3>1, RenamingType
  <2>3. entry.old_phy_dest = logical[log] /\ entry.curr_phy_dest = Head(free_list)
    BY DEF NewActiveEntry
  <2> HIDE DEF entry
  <2>4. /\ m = n + 1 /\ active_list'[m] = entry
        /\ \A j \in 1 .. n : active_list'[j] = active_list[j] /\ active_list[j].log_dest \in LogReg
    <3>1. m = n + 1 /\ active_list'[n + 1] = entry
      BY <1>2, <2>1, <2>2
    <3>2. \A j \in 1 .. n : active_list'[j] = active_list[j] /\ active_list[j] \in ActiveEntry
      BY <1>2, <2>1, <2>2
    <3> QED
      BY <3>1, <3>2 DEF ActiveEntry
  <2>5. logical'[log] = Head(free_list)
        /\ \A l \in LogReg : l # log => logical'[l] = logical[l]
    BY <1>2, <2>1, <2>2
  <2>6. SUFFICES ASSUME NEW i \in 1 .. m
                 PROVE  /\ LaterWriters(i)' = {} =>
                              active_list'[i].curr_phy_dest = logical'[active_list'[i].log_dest]
                        /\ \A j \in LaterWriters(i)' : (\A k \in LaterWriters(i)' : j <= k) =>
                              active_list'[i].curr_phy_dest = active_list'[j].old_phy_dest
    BY DEF RenameChain
  <2>7. CASE i = m
    <3>1. LaterWriters(i)' = {}
      BY <2>1, <2>4, <2>7 DEF LaterWriters
    <3>2. active_list'[i] = entry
      BY <2>4, <2>7
    <3> QED
      BY <2>3, <2>5, <3>1, <3>2
  <2>8. CASE i # m
    <3>1. /\ i \in 1 .. n /\ active_list'[i] = active_list[i]
          /\ active_list[i].log_dest \in LogReg
          /\ i + 1 .. m = (i + 1 .. n) \cup {m}
          /\ \A j \in i + 1 .. n : j \in 1 .. n /\ j <= m
      BY <2>1, <2>4, <2>8
    <3>2. LaterWriters(i)' = LaterWriters(i) \cup
                               (IF active_list[i].log_dest = log THEN {m} ELSE {})
      <4>1. LaterWriters(i)' = {j \in (i + 1 .. n) \cup {m} :
                                    active_list'[j].log_dest = active_list[i].log_dest}
        BY <3>1 DEF LaterWriters
      <4>2. LaterWriters(i) = {j \in i + 1 .. n :
                                   active_list[j].log_dest = active_list[i].log_dest}
        BY DEF LaterWriters
      <4> HIDE DEF n, m
      <4> QED
        BY <2>4, <3>1, <4>1, <4>2
    <3>3. LaterWriters(i) \subseteq i + 1 .. n
      BY DEF LaterWriters
    <3>4. CASE LaterWriters(i)' = {}
      <4>1. LaterWriters(i) = {} /\ active_list[i].log_dest # log
        BY <3>2, <3>4
      <4>2. active_list[i].curr_phy_dest = logical[active_list[i].log_dest]
        BY <3>1, <4>1 DEF RenameChain
      <4> QED
        BY <2>5, <3>1, <3>4, <4>1, <4>2
    <3>5. ASSUME NEW j \in LaterWriters(i)', \A k \in LaterWriters(i)' : j <= k
          PROVE  active_list'[i].curr_phy_dest = active_list'[j].old_phy_dest
      <4>1. CASE j \in LaterWriters(i)
        <5>1. \A k \in LaterWriters(i) : j <= k
          BY <3>2, <3>5
        <5>2. active_list[i].curr_phy_dest = active_list[j].old_phy_dest
          BY <3>1, <4>1, <5>1 DEF RenameChain
        <5>3. j \in 1 .. n
          BY <3>1, <3>3, <4>1
        <5> QED
          BY <2>4, <3>1, <5>2, <5>3
      <4>2. CASE j \notin LaterWriters(i)
        <5>1. j = m /\ active_list[i].log_dest = log
          BY <3>2, <3>5, <4>2
        <5>2. LaterWriters(i) = {}
          <6>1. ASSUME NEW k \in LaterWriters(i) PROVE FALSE
            <7>1. k \in i + 1 .. n /\ m <= k
              BY <3>2, <3>3, <3>5, <5>1
            <7> QED
              BY <2>1, <2>4, <7>1
          <6> QED
            BY <6>1
        <5>3. active_list[i].curr_phy_dest = logical[log]
          BY <3>1, <5>1, <5>2 DEF RenameChain
        <5> QED
          BY <2>3, <2>4, <3>1, <5>1, <5>3
      <4> QED
        BY <4>1, <4>2
    <3> QED
      BY <3>4, <3>5
  <2> QED
    BY <2>7, <2>8
<1> QED
  BY <1>1, <1>2, RenameEffect

LEMMA ChainNext ==
    TypeOK /\ Accounting /\ RenameChain /\ [Next]_vars => RenameChain'
<1> SUFFICES ASSUME TypeOK, Accounting, RenameChain, [Next]_vars
             PROVE  RenameChain'
  OBVIOUS
<1>1. CASE ~CommitInstr /\ ~RecoverInstr /\ ~RenameInstr
  <2>1. /\ logical' = logical
        /\ Len(active_list') = Len(active_list) /\ Len(active_list) \in Nat
        /\ \A i \in 1 .. Len(active_list) :
              /\ active_list'[i].log_dest = active_list[i].log_dest
              /\ active_list'[i].old_phy_dest = active_list[i].old_phy_dest
              /\ active_list'[i].curr_phy_dest = active_list[i].curr_phy_dest
    BY <1>1, OtherSteps DEF TypeOK
  <2>2. ASSUME NEW i \in 1 .. Len(active_list)
        PROVE  LaterWriters(i)' = LaterWriters(i)
               /\ LaterWriters(i) \subseteq 1 .. Len(active_list)
    <3>1. \A j \in i + 1 .. Len(active_list) : j \in 1 .. Len(active_list)
      BY <2>1
    <3> QED
      BY <2>1, <3>1 DEF LaterWriters
  <2> QED
    BY <2>1, <2>2 DEF RenameChain
<1> QED
  BY <1>1, ChainCommit, ChainRecover, ChainRename

\* The register given to an instruction is the one the next writer in flight of the
\* same architectural register replaced, or the one the map names, in every instance
\* of the machine: what recovery restores, youngest first, is the map each
\* undone instruction was renamed with.
THEOREM RenameChainHolds == Spec => []RenameChain
<1>1. Init => RenameChain
  BY DEF Init, RenameChain
<1>2. TypeOK /\ Accounting /\ RenameChain /\ [Next]_vars => RenameChain'
  BY ChainNext
<1> QED
  BY <1>1, <1>2, TypeCorrect, PTL DEF Spec
-----------------------------------------------------------------------------
(***************************************************************************)
(* What a step does to the queues.                                         *)
(***************************************************************************)

\* What the elements of the typed queues are.
LEMMA QueueTypes ==
    ASSUME TypeOK
    PROVE  /\ Len(iq) \in Nat /\ Len(entries) \in Nat /\ Len(dir) \in Nat
           /\ Len(active_list) \in Nat /\ Len(program) \in Nat
           /\ pc \in Nat /\ step \in Nat
           /\ \A i \in 1 .. Len(iq) :
                 iq[i] \in IqEntry /\ iq[i].instr \in Renamed /\ iq[i].instr.pc \in Nat
           /\ \A i \in 1 .. Len(entries) :
                 /\ entries[i] \in IqEntry /\ entries[i].instr \in Renamed
                 /\ entries[i].instr.pc \in Nat
           /\ \A i \in 1 .. Len(dir) : dir[i] \in 0 .. Len(program) - 1
           /\ \A i \in 1 .. Len(active_list) :
                 /\ active_list[i] \in ActiveEntry /\ active_list[i].pc \in Nat
                 /\ active_list[i].log_dest \in LogReg
                 /\ active_list[i].old_phy_dest \in PhyReg
                 /\ active_list[i].curr_phy_dest \in PhyReg
<1>1. /\ Len(iq) \in Nat /\ Len(entries) \in Nat /\ Len(dir) \in Nat
      /\ Len(active_list) \in Nat /\ Len(program) \in Nat
      /\ pc \in Nat /\ step \in Nat
  BY DEF TypeOK
<1>2. ASSUME NEW i \in 1 .. Len(iq)
      PROVE  iq[i] \in IqEntry /\ iq[i].instr \in Renamed /\ iq[i].instr.pc \in Nat
  <2>1. iq[i] \in IqEntry
    BY DEF TypeOK
  <2>2. iq[i].instr \in Renamed
    BY <2>1 DEF IqEntry
  <2> QED
    BY <2>1, <2>2 DEF Renamed
<1>3. ASSUME NEW i \in 1 .. Len(entries)
      PROVE  entries[i] \in IqEntry /\ entries[i].instr \in Renamed /\ entries[i].instr.pc \in Nat
  <2>1. entries[i] \in IqEntry
    BY DEF TypeOK
  <2>2. entries[i].instr \in Renamed
    BY <2>1 DEF IqEntry
  <2> QED
    BY <2>1, <2>2 DEF Renamed
<1>4. \A i \in 1 .. Len(dir) : dir[i] \in 0 .. Len(program) - 1
  BY DEF TypeOK
<1>5. ASSUME NEW i \in 1 .. Len(active_list)
      PROVE  /\ active_list[i] \in ActiveEntry /\ active_list[i].pc \in Nat
             /\ active_list[i].log_dest \in LogReg
             /\ active_list[i].old_phy_dest \in PhyReg
             /\ active_list[i].curr_phy_dest \in PhyReg
  <2>1. active_list[i] \in ActiveEntry
    BY DEF TypeOK
  <2> QED
    BY <2>1 DEF ActiveEntry
<1> QED
  BY <1>1, <1>2, <1>3, <1>4, <1>5

\* Reading the operands changes only their values.
LEMMA ReadinessKeeps ==
    ASSUME NEW instr \in Renamed, NEW busy, NEW list
    PROVE  LET read == WithReadiness(instr, busy, list)
           IN  /\ read.instr.type = instr.type /\ read.instr.pc = instr.pc
               /\ read.instr.dest = instr.dest /\ read.instr.is_exception = instr.is_exception
               /\ read.instr.opA = instr.opA /\ read.instr.opB = instr.opB
               /\ read.is_opA_ready = RegisterReady(instr.opA, busy, list)
               /\ read.is_opB_ready = (instr.type \in ImmOps
                                       \/ RegisterReady(instr.opB, busy, list))
               /\ read.is_opA_ready => read.instr.valA = physical[instr.opA]
               /\ (read.is_opB_ready /\ instr.type \notin ImmOps) =>
                      read.instr.valB = physical[instr.opB]
               /\ instr.type \in ImmOps => read.instr.valB = instr.valB
  BY DEF WithReadiness, Renamed

\* Renaming the first instruction of the DIR, in full: it is lost, or it enters the
\* active list and the integer queue and takes the first free register.
LEMMA DispatchEffect ==
    ASSUME TypeOK, Accounting, RenameInstr
    PROVE  LET addr == Head(dir)
               dest == Head(free_list)
               entry == NewActiveEntry(addr, dest)
           IN  /\ addr \in 0 .. Len(program) - 1
               /\ dir # << >> /\ dir' = Tail(dir) /\ stage = "dispatch"
               /\ \/ /\ \E slot \in UninitRegIdx : slot >= REG_PHY_FILE_SIZE
                     /\ UNCHANGED <<renameVars, is_busy, iq>>
                     /\ stage' = "commit" /\ step' = 0
                  \/ /\ free_list # << >> /\ dest \in PhyReg
                     /\ entry \in ActiveEntry /\ RenamedInstr(addr, dest) \in Renamed
                     /\ free_list' = Tail(free_list)
                     /\ active_list' = Append(active_list, entry)
                     /\ logical' = [logical EXCEPT ![entry.log_dest] = dest]
                     /\ is_busy' = [is_busy EXCEPT ![dest] = TRUE]
                     /\ iq' = Append(iq, WithReadiness(RenamedInstr(addr, dest),
                                                       is_busy', active_list'))
                     /\ UNCHANGED <<stage, step>>
               /\ UNCHANGED <<archVars, physical, entries, endVars, alus, backpressure,
                              exception_mode>>
<1> DEFINE addr == Head(dir)
           dest == Head(free_list)
           entry == NewActiveEntry(addr, dest)
<1>1. /\ dir # << >> /\ dir' = Tail(dir) /\ stage = "dispatch"
      /\ UNCHANGED <<archVars, physical, entries, endVars, alus, backpressure, exception_mode>>
  BY DEF RenameInstr
<1>2. addr \in 0 .. Len(program) - 1
  BY <1>1 DEF TypeOK
<1>3. /\ Len(free_list) > 0 /\ Len(active_list) < ACTIVE_LIST_SIZE
      /\ Len(iq) < IQ_CAPACITY /\ free_list # << >>
  <2>1. Len(dir) \in Nat /\ Len(dir) > 0
    BY <1>1 DEF TypeOK
  <2> QED
    BY SMTT(30), <1>1, <2>1, SizesAssumption, RegLogAssumption
    DEF TypeOK, Accounting, ACTIVE_LIST_SIZE
<1>4. dest \in PhyReg
  BY <1>3 DEF TypeOK
<1>5. entry \in ActiveEntry /\ RenamedInstr(addr, dest) \in Renamed
  BY <1>2, <1>4, RenamingType
<1>6. PICK slot \in UninitRegIdx : RenameHead(slot)
  BY DEF RenameInstr
<1>7. CASE slot >= REG_PHY_FILE_SIZE
  <2>1. FreeListPopResult(slot) = "ERR_INVALID_PHY_REG"
    BY <1>7 DEF FreeListPopResult
  <2>2. UNCHANGED <<renameVars, is_busy, iq>> /\ stage' = "commit" /\ step' = 0
    BY <1>6, <2>1 DEF RenameHead, Abort, GoTo
  <2> QED
    BY <1>1, <1>2, <1>7, <2>2
<1>8. CASE ~(slot >= REG_PHY_FILE_SIZE)
  <2>1. FreeListPopResult(slot) = "ERR_NONE"
    BY <1>3, <1>8 DEF FreeListPopResult
  <2>2. free_list' = Tail(free_list) /\ Dispatch(addr, dest)
    BY <1>3, <1>6, <2>1, SizesAssumption, RegLogAssumption
    DEF RenameHead, TypeOK, ACTIVE_LIST_SIZE
  <2>3. /\ active_list' = Append(active_list, entry)
        /\ logical' = [logical EXCEPT ![entry.log_dest] = dest]
        /\ is_busy' = [is_busy EXCEPT ![dest] = TRUE]
    BY <2>2 DEF Dispatch
  <2>4. Len(iq) # IQ_CAPACITY
    BY <1>3, SizesAssumption DEF TypeOK
  <2>5. /\ iq' = Append(iq, WithReadiness(RenamedInstr(addr, dest), is_busy', active_list'))
        /\ UNCHANGED <<stage, step>>
    BY <2>2, <2>4, Zenon DEF Dispatch
  <2> QED
    BY <1>1, <1>2, <1>3, <1>4, <1>5, <2>2, <2>3, <2>5
<1> QED
  BY <1>7, <1>8

-----------------------------------------------------------------------------
(***************************************************************************)
(* The order of the instructions between fetch and issue.                  *)
(***************************************************************************)

\* The instructions of the DIR are the ones before pc.
DirInOrder == \A i \in 1 .. Len(dir) : dir[i] = pc - Len(dir) + i - 1

\* The integer queue is in program order, before the DIR.
QueueInOrder ==
    /\ \A i, j \in 1 .. Len(iq) : i < j => iq[i].instr.pc < iq[j].instr.pc
    /\ \A i \in 1 .. Len(iq) : iq[i].instr.pc < pc - Len(dir)

\* What iq_get_first_n_ready took is older than what it has not looked at yet.
TakenInOrder ==
    \A k \in 1 .. Len(entries), j \in 1 .. Len(iq) :
        step < j => entries[k].instr.pc < iq[j].instr.pc

\* The scan of the integer queue: it passes over the entries that wait, and takes
\* the others; an instruction in the queue has raised no exception yet.
ScanInv ==
    /\ stage # "select" => entries = << >>
    /\ stage = "select" => \A j \in 1 .. Len(iq) : j <= step => ~EntryReady(iq[j])
    /\ \A k \in 1 .. Len(entries) : EntryReady(entries[k])
    /\ \A i \in 1 .. Len(iq) : ~iq[i].instr.is_exception

FetchOrder ==
    /\ ScanInv
    /\ ~exception_mode => DirInOrder /\ QueueInOrder /\ TakenInOrder /\ pc <= Len(program)

\* The steps that leave the DIR, the queue and the array of ready entries alone.
LEMMA QueuesKept ==
    ASSUME [Next]_vars, ~RaiseException, ~RefreshReady, ~TakeReady, ~PassWaiting,
           ~IssueToAlus, ~RenameInstr, ~FetchDecodeCycle
    PROVE  /\ UNCHANGED <<pc, dir, iq, entries, exception_mode, program>>
           /\ UNCHANGED vars \/ (stage # "select" /\ stage' # "select")
<1> USE DEF archVars, issueVars, endVars, vars
<1>1. CASE UNCHANGED vars \/ Terminated
  BY <1>1 DEF Terminated
<1>2. CASE CommitInstr \/ CommitDone \/ LeaveException \/ RecoverInstr \/ RecoverDone
  <2>1. UNCHANGED <<pc, dir, iq, entries, exception_mode, program>>
    BY <1>2 DEF CommitInstr, CommitDone, LeaveException, RecoverInstr, RecoverDone
  <2>2. stage = "commit" /\ stage' \in {"commit", "execute"}
    BY <1>2 DEF CommitInstr, CommitDone, LeaveException, RecoverInstr, RecoverDone,
                AtCommit, GoTo, Iterate, Abort
  <2> QED
    BY <2>1, <2>2
<1>3. CASE AluCycles \/ WriteBack
  <2>1. UNCHANGED <<pc, dir, iq, entries, exception_mode, program>>
    BY <1>3 DEF AluCycles, WriteBack
  <2>2. stage \in {"execute", "writeback"} /\ stage' \in {"writeback", "refresh"}
    BY <1>3 DEF AluCycles, WriteBack, GoTo, Iterate, IterateUpTo
  <2> QED
    BY <2>1, <2>2
<1>4. CASE CheckResources \/ DispatchDone
  <2>1. UNCHANGED <<pc, dir, iq, entries, exception_mode, program>>
    BY <1>4 DEF CheckResources, DispatchDone
  <2>2. stage \in {"rename", "dispatch"} /\ stage' \in {"dispatch", "fetch"}
    BY <1>4 DEF CheckResources, DispatchDone, GoTo
  <2> QED
    BY <2>1, <2>2
<1> QED
  BY <1>1, <1>2, <1>3, <1>4 DEF Next, CommitCycle, IssueCycle, RenameDispatchCycle

\* A queue without one of its positions, which the order of the scan uses.
LEMMA TakeEffect ==
    ASSUME TypeOK, TakeReady
    PROVE  /\ step + 1 \in 1 .. Len(iq) /\ EntryReady(iq[step + 1])
           /\ Len(iq') = Len(iq) - 1
           /\ \A j \in 1 .. Len(iq') :
                 iq'[j] = IF j <= step THEN iq[j] ELSE iq[j + 1]
           /\ Len(entries') = Len(entries) + 1 /\ Len(entries) < NUM_ALUS
           /\ \A k \in 1 .. Len(entries) : entries'[k] = entries[k]
           /\ entries'[Len(entries) + 1] = iq[step + 1]
           /\ stage = "select" /\ UNCHANGED <<stage, step>>
<1>1. step + 1 \in 1 .. Len(iq) /\ EntryReady(iq[step + 1])
      /\ stage = "select" /\ UNCHANGED <<stage, step>> /\ Len(entries) < NUM_ALUS
  BY DEF TypeOK, TakeReady, Scanning, StayAtIndex
<1>2. /\ iq' = RemoveAt(iq, step + 1) /\ iq \in Seq(IqEntry)
      /\ entries' = Append(entries, iq[step + 1]) /\ entries \in Seq(IqEntry)
  BY DEF TypeOK, TakeReady, Without
<1>3. /\ Len(iq') = Len(iq) - 1
      /\ \A j \in 1 .. Len(iq) - 1 : iq'[j] = IF j < step + 1 THEN iq[j] ELSE iq[j + 1]
  BY <1>1, <1>2, RemoveAtProperties
<1>4. step \in Nat /\ Len(iq) \in Nat
  BY DEF TypeOK
<1>5. \A j \in 1 .. Len(iq') : iq'[j] = IF j <= step THEN iq[j] ELSE iq[j + 1]
  BY <1>3, <1>4
<1>6. /\ Len(entries') = Len(entries) + 1
      /\ \A k \in 1 .. Len(entries) : entries'[k] = entries[k]
      /\ entries'[Len(entries) + 1] = iq[step + 1]
  BY <1>1, <1>2
<1> QED
  BY <1>1, <1>3, <1>5, <1>6

\* An empty pipeline is in program order.
LEMMA FetchOrderInit == Init => FetchOrder
<1> SUFFICES ASSUME Init PROVE FetchOrder
  OBVIOUS
<1>1. /\ dir = << >> /\ iq = << >> /\ entries = << >> /\ stage = "commit" /\ pc = 0
      /\ program \in Seq(AnyInstruction)
  BY ProgramsAssumption DEF Init
<1> QED
  BY <1>1 DEF FetchOrder, ScanInv, DirInOrder, QueueInOrder, TakenInOrder

\* Every step keeps the positions and the count of the issue stage's scan in range.
LEMMA ScanNext ==
    ASSUME TypeOK, Accounting, ScanInv, [Next]_vars
    PROVE  ScanInv'
<1>a. /\ Len(iq) \in Nat /\ Len(entries) \in Nat /\ step \in Nat
      /\ \A i \in 1 .. Len(iq) : iq[i] \in IqEntry /\ iq[i].instr \in Renamed
  BY QueueTypes
<1>1. CASE RaiseException
  BY <1>1 DEF ScanInv, RaiseException, AtCommit, GoTo
<1>2. CASE RefreshReady
  <2>1. /\ entries' = entries /\ entries = << >> /\ stage' = "select" /\ step' = 0
        /\ Len(iq') = Len(iq)
        /\ \A i \in 1 .. Len(iq) :
              iq'[i] = WithReadiness(iq[i].instr, is_busy, active_list)
    BY <1>2, <1>a DEF RefreshReady, ScanInv, GoTo
  <2>2. \A i \in 1 .. Len(iq) : ~iq'[i].instr.is_exception
    BY <1>a, <2>1, ReadinessKeeps DEF ScanInv
  <2> QED
    BY <1>a, <2>1, <2>2 DEF ScanInv
<1>3. CASE TakeReady
  <2>1. \A j \in 1 .. Len(iq') :
           \/ iq'[j] = iq[j] /\ j \in 1 .. Len(iq)
           \/ iq'[j] = iq[j + 1] /\ ~(j <= step) /\ j + 1 \in 1 .. Len(iq)
    <3>1. Len(iq') = Len(iq) - 1
          /\ \A j \in 1 .. Len(iq') : iq'[j] = IF j <= step THEN iq[j] ELSE iq[j + 1]
      BY <1>3, TakeEffect
    <3> QED
      BY <1>a, <3>1
  <2>2. stage' = "select" /\ step' = step /\ stage = "select"
    BY <1>3, TakeEffect
  <2>3. \A k \in 1 .. Len(entries') : EntryReady(entries'[k])
    <3>1. \A k \in 1 .. Len(entries) : entries'[k] = entries[k]
      BY <1>3, TakeEffect
    <3>2. entries'[Len(entries) + 1] = iq[step + 1] /\ EntryReady(iq[step + 1])
          /\ Len(entries') = Len(entries) + 1
      BY <1>3, TakeEffect
    <3> QED
      BY <1>a, <3>1, <3>2 DEF ScanInv
  <2> QED
    BY <1>a, <2>1, <2>2, <2>3 DEF ScanInv, EntryReady
<1>4. CASE PassWaiting
  <2>1. UNCHANGED <<iq, entries, stage>> /\ step' = step + 1 /\ stage = "select"
        /\ ~EntryReady(iq[step + 1])
    BY <1>4 DEF PassWaiting, Scanning, Iterate, issueVars
  <2>2. \A j \in 1 .. Len(iq) : j <= step + 1 => j <= step \/ j = step + 1
    BY <1>a
  <2> QED
    BY <2>1, <2>2 DEF ScanInv
<1>5. CASE IssueToAlus
  BY <1>5 DEF ScanInv, IssueToAlus, GoTo
<1>6. CASE RenameInstr
  <2>1. stage = "dispatch" /\ stage' \in {"commit", "dispatch"} /\ entries' = entries
        /\ entries = << >>
    BY <1>6, DispatchEffect DEF ScanInv
  <2>2. \A i \in 1 .. Len(iq') : ~iq'[i].instr.is_exception
    <3>1. CASE iq' = iq
      BY <3>1 DEF ScanInv
    <3>2. CASE /\ RenamedInstr(Head(dir), Head(free_list)) \in Renamed
               /\ iq' = Append(iq, WithReadiness(RenamedInstr(Head(dir), Head(free_list)),
                                                 is_busy', active_list'))
      <4> DEFINE instr == RenamedInstr(Head(dir), Head(free_list))
                 read == WithReadiness(instr, is_busy', active_list')
      <4>1. ~read.instr.is_exception
        <5>1. read.instr.is_exception = instr.is_exception
          BY <3>2, ReadinessKeeps
        <5>2. instr.is_exception = FALSE
          BY DEF RenamedInstr
        <5> QED
          BY <5>1, <5>2
      <4>2. iq \in Seq(IqEntry)
        BY DEF TypeOK
      <4> HIDE DEF read
      <4>3. /\ Len(iq') = Len(iq) + 1 /\ iq'[Len(iq) + 1] = read
            /\ \A i \in 1 .. Len(iq) : iq'[i] = iq[i]
        BY <3>2, <4>2 DEF read
      <4> QED
        BY <1>a, <4>1, <4>3 DEF ScanInv
    <3> QED
      BY <1>6, <3>1, <3>2, DispatchEffect
  <2> QED
    BY <2>1, <2>2 DEF ScanInv
<1>7. CASE FetchDecodeCycle
  BY <1>7 DEF ScanInv, FetchDecodeCycle, GoTo, issueVars
<1>8. CASE /\ ~RaiseException /\ ~RefreshReady /\ ~TakeReady /\ ~PassWaiting
           /\ ~IssueToAlus /\ ~RenameInstr /\ ~FetchDecodeCycle
  <2>1. UNCHANGED <<iq, entries>> /\ (UNCHANGED vars \/ (stage # "select" /\ stage' # "select"))
    BY <1>8, QueuesKept
  <2> QED
    BY <2>1 DEF ScanInv, vars
<1> QED
  BY <1>1, <1>2, <1>3, <1>4, <1>5, <1>6, <1>7, <1>8

\* Every step keeps the DIR, the queue and the array taken from it in program order.
LEMMA FetchOrderNext == TypeOK /\ Accounting /\ FetchOrder /\ [Next]_vars => FetchOrder'
<1> SUFFICES ASSUME TypeOK, Accounting, FetchOrder, [Next]_vars PROVE FetchOrder'
  OBVIOUS
<1>a. ScanInv'
  BY ScanNext DEF FetchOrder
<1>b. SUFFICES ASSUME ~exception_mode'
               PROVE  (DirInOrder /\ QueueInOrder /\ TakenInOrder /\ pc <= Len(program))'
  BY <1>a DEF FetchOrder
<1>c. /\ Len(iq) \in Nat /\ Len(entries) \in Nat /\ step \in Nat /\ Len(dir) \in Nat
      /\ pc \in Nat /\ Len(program) \in Nat
      /\ \A i \in 1 .. Len(iq) : iq[i] \in IqEntry /\ iq[i].instr \in Renamed
                                 /\ iq[i].instr.pc \in Nat
      /\ \A i \in 1 .. Len(entries) : entries[i].instr.pc \in Nat
      /\ \A i \in 1 .. Len(dir) : dir[i] \in 0 .. Len(program) - 1
  BY QueueTypes
<1>d. exception_mode = FALSE /\ ~RaiseException
  <2>1. ~RaiseException
    BY <1>b DEF RaiseException
  <2>2. exception_mode' = exception_mode
    <3>1. CASE RefreshReady \/ TakeReady \/ PassWaiting \/ IssueToAlus \/ FetchDecodeCycle
      BY <3>1 DEF RefreshReady, TakeReady, PassWaiting, IssueToAlus, FetchDecodeCycle
    <3>2. CASE RenameInstr
      BY <3>2 DEF RenameInstr
    <3> QED
      BY <2>1, <3>1, <3>2, QueuesKept
  <2> QED
    BY <1>b, <2>1, <2>2 DEF TypeOK
<1>e. DirInOrder /\ QueueInOrder /\ TakenInOrder /\ pc <= Len(program) /\ ScanInv
  BY <1>d DEF FetchOrder
<1>2. CASE RefreshReady
  <2>1. /\ entries' = entries /\ entries = << >>
        /\ Len(iq') = Len(iq)
        /\ \A i \in 1 .. Len(iq) :
              iq'[i] = WithReadiness(iq[i].instr, is_busy, active_list)
        /\ UNCHANGED <<pc, dir, program>>
    BY <1>2, <1>c, <1>e DEF RefreshReady, ScanInv, archVars, endVars
  <2>2. \A i \in 1 .. Len(iq) : iq'[i].instr.pc = iq[i].instr.pc
    BY <1>c, <2>1, ReadinessKeeps
  <2>3. QueueInOrder'
    BY <1>e, <2>1, <2>2 DEF QueueInOrder
  <2> QED
    BY <1>e, <2>1, <2>3 DEF DirInOrder, TakenInOrder
<1>3. CASE TakeReady
  <2>1. /\ step + 1 \in 1 .. Len(iq) /\ Len(iq') = Len(iq) - 1
        /\ \A j \in 1 .. Len(iq') : iq'[j] = IF j <= step THEN iq[j] ELSE iq[j + 1]
        /\ Len(entries') = Len(entries) + 1
        /\ \A k \in 1 .. Len(entries) : entries'[k] = entries[k]
        /\ entries'[Len(entries) + 1] = iq[step + 1]
        /\ step' = step
    BY <1>3, TakeEffect
  <2>2. UNCHANGED <<pc, dir, program>>
    BY <1>3 DEF TakeReady, archVars, endVars
  <2>3. QueueInOrder'
    <3>1. ASSUME NEW i \in 1 .. Len(iq'), NEW j \in 1 .. Len(iq'), i < j
          PROVE  iq'[i].instr.pc < iq'[j].instr.pc
      <4>1. CASE j <= step
        <5>1. iq'[j] = iq[j] /\ iq'[i] = iq[i] /\ i \in 1 .. Len(iq) /\ j \in 1 .. Len(iq)
          BY <1>c, <2>1, <3>1, <4>1
        <5> QED
          BY <1>e, <3>1, <5>1 DEF QueueInOrder
      <4>2. CASE ~(j <= step) /\ i <= step
        <5>1. iq'[j] = iq[j + 1] /\ iq'[i] = iq[i] /\ i \in 1 .. Len(iq)
              /\ j + 1 \in 1 .. Len(iq) /\ i < j + 1
          BY <1>c, <2>1, <3>1, <4>2
        <5> QED
          BY <1>e, <5>1 DEF QueueInOrder
      <4>3. CASE ~(j <= step) /\ ~(i <= step)
        <5>1. iq'[j] = iq[j + 1] /\ iq'[i] = iq[i + 1] /\ i + 1 \in 1 .. Len(iq)
              /\ j + 1 \in 1 .. Len(iq) /\ i + 1 < j + 1
          BY <1>c, <2>1, <3>1, <4>3
        <5> QED
          BY <1>e, <5>1 DEF QueueInOrder
      <4> QED
        BY <4>1, <4>2, <4>3
    <3>2. ASSUME NEW i \in 1 .. Len(iq')
          PROVE  iq'[i].instr.pc < pc' - Len(dir')
      <4>1. i \in 1 .. Len(iq) /\ i + 1 \in 1 .. Len(iq)
        BY <1>c, <2>1
      <4> QED
        BY <1>e, <2>1, <2>2, <4>1 DEF QueueInOrder
    <3> QED
      BY <3>1, <3>2 DEF QueueInOrder
  <2>4. TakenInOrder'
    <3> SUFFICES ASSUME NEW k \in 1 .. Len(entries'), NEW j \in 1 .. Len(iq'), step < j
                 PROVE  entries'[k].instr.pc < iq'[j].instr.pc
      BY <2>1 DEF TakenInOrder
    <3>1. iq'[j] = iq[j + 1] /\ j + 1 \in 1 .. Len(iq) /\ step < j + 1 /\ step + 1 < j + 1
      BY SMTT(30), <1>c, <2>1
    <3>2. CASE k \in 1 .. Len(entries)
      BY <1>e, <2>1, <3>1, <3>2 DEF TakenInOrder
    <3>3. CASE k = Len(entries) + 1
      BY <1>e, <2>1, <3>1, <3>3 DEF QueueInOrder
    <3> QED
      BY <1>c, <2>1, <3>2, <3>3
  <2>5. DirInOrder' /\ (pc <= Len(program))'
    BY <1>e, <2>2 DEF DirInOrder
  <2> QED
    BY <2>3, <2>4, <2>5
<1>4. CASE PassWaiting
  <2>1. UNCHANGED <<pc, dir, program, iq, entries>> /\ step' = step + 1
    BY <1>4 DEF PassWaiting, Iterate, archVars, endVars, issueVars
  <2> QED
    BY <1>c, <1>e, <2>1 DEF DirInOrder, QueueInOrder, TakenInOrder
<1>5. CASE IssueToAlus
  <2>1. UNCHANGED <<pc, dir, program, iq>> /\ entries' = << >>
    BY <1>5 DEF IssueToAlus, archVars, endVars
  <2> QED
    BY <1>e, <2>1 DEF DirInOrder, QueueInOrder, TakenInOrder
<1>6. CASE RenameInstr
  <2> DEFINE instr == RenamedInstr(Head(dir), Head(free_list))
             read == WithReadiness(instr, is_busy', active_list')
  <2>1. /\ dir # << >> /\ dir' = Tail(dir) /\ entries' = entries /\ entries = << >>
        /\ UNCHANGED <<pc, program>>
    BY <1>6, <1>e, DispatchEffect DEF ScanInv, archVars, endVars
  <2>2. /\ Len(dir') = Len(dir) - 1 /\ Len(dir) > 0 /\ Head(dir) = dir[1]
        /\ \A i \in 1 .. Len(dir') : dir'[i] = dir[i + 1] /\ i + 1 \in 1 .. Len(dir)
    BY <1>c, <2>1 DEF TypeOK
  <2>3. DirInOrder'
    BY <1>c, <1>e, <2>1, <2>2 DEF DirInOrder
  <2>4. QueueInOrder'
    <3>0. pc' - Len(dir') = pc - Len(dir) + 1
      BY <1>c, <2>1, <2>2
    <3>1. CASE iq' = iq
      <4>1. \A i \in 1 .. Len(iq) : iq[i].instr.pc < pc - Len(dir) + 1
        <5>1. ASSUME NEW i \in 1 .. Len(iq) PROVE iq[i].instr.pc < pc - Len(dir) + 1
          <6>1. iq[i].instr.pc < pc - Len(dir) /\ iq[i].instr.pc \in Nat
            BY <1>c, <1>e DEF QueueInOrder
          <6> QED
            BY <1>c, <6>1
        <5> QED
          BY <5>1
      <4> QED
        BY <1>e, <3>0, <3>1, <4>1 DEF QueueInOrder
    <3>2. CASE instr \in Renamed /\ iq' = Append(iq, read)
      <4>1. read.instr.pc = pc - Len(dir)
        <5>1. read.instr.pc = instr.pc
          BY <3>2, ReadinessKeeps
        <5>2. instr.pc = dir[1]
          BY <2>2 DEF RenamedInstr
        <5> QED
          BY <1>c, <1>e, <2>2, <5>1, <5>2 DEF DirInOrder
      <4>2. iq \in Seq(IqEntry)
        BY DEF TypeOK
      <4> HIDE DEF read
      <4>3. /\ Len(iq') = Len(iq) + 1 /\ iq'[Len(iq) + 1] = read
            /\ \A i \in 1 .. Len(iq) : iq'[i] = iq[i]
        BY <3>2, <4>2
      <4>4. \A i \in 1 .. Len(iq') : i \in 1 .. Len(iq) \/ i = Len(iq) + 1
        BY <1>c, <4>3
      <4>5. ASSUME NEW i \in 1 .. Len(iq') PROVE iq'[i].instr.pc < pc' - Len(dir')
        <5>1. CASE i \in 1 .. Len(iq)
          <6>1. iq[i].instr.pc < pc - Len(dir) /\ iq[i].instr.pc \in Nat
            BY <1>c, <1>e, <5>1 DEF QueueInOrder
          <6>2. iq[i].instr.pc < pc - Len(dir) + 1 /\ iq'[i] = iq[i]
            BY <1>c, <4>3, <5>1, <6>1
          <6> QED
            BY <3>0, <6>2
        <5>2. CASE i = Len(iq) + 1
          BY <1>c, <3>0, <4>1, <4>3, <5>2
        <5> QED
          BY <4>4, <5>1, <5>2
      <4>6. ASSUME NEW i \in 1 .. Len(iq'), NEW j \in 1 .. Len(iq'), i < j
            PROVE  iq'[i].instr.pc < iq'[j].instr.pc
        <5>1. i \in 1 .. Len(iq)
          BY <1>c, <4>3, <4>4, <4>6
        <5>2. iq'[i] = iq[i] /\ iq[i].instr.pc < pc - Len(dir)
          BY <1>e, <4>3, <5>1 DEF QueueInOrder
        <5>3. CASE j \in 1 .. Len(iq)
          BY <1>e, <4>3, <4>6, <5>1, <5>3 DEF QueueInOrder
        <5>4. CASE j = Len(iq) + 1
          BY <4>1, <4>3, <5>2, <5>4
        <5> QED
          BY <4>4, <5>3, <5>4
      <4> QED
        BY <4>5, <4>6 DEF QueueInOrder
    <3> QED
      BY <1>6, <3>1, <3>2, DispatchEffect
  <2>5. TakenInOrder' /\ (pc <= Len(program))'
    BY <1>e, <2>1 DEF TakenInOrder
  <2> QED
    BY <2>3, <2>4, <2>5
<1>7. CASE FetchDecodeCycle
  <2> DEFINE fetched == [k \in 1 .. FetchCount |-> pc + k - 1]
  <2>1. /\ dir' = dir \o fetched /\ pc' = pc + FetchCount /\ program' = program
        /\ UNCHANGED <<iq, entries>> /\ entries = << >>
    BY <1>7, <1>e DEF FetchDecodeCycle, NextPc, issueVars, ScanInv
  <2>2. FetchCount \in Nat /\ pc + FetchCount <= Len(program)
    BY SMTT(30), <1>c, <1>e, SizesAssumption DEF FetchCount, SmallerOf, DIR_SIZE, TypeOK
  <2>3. /\ Len(dir') = Len(dir) + FetchCount
        /\ \A i \in 1 .. Len(dir') :
              dir'[i] = IF i <= Len(dir) THEN dir[i] ELSE pc + (i - Len(dir)) - 1
    <3>1. fetched \in Seq(Int) /\ dir \in Seq(Int) /\ Len(fetched) = FetchCount
          /\ \A k \in 1 .. FetchCount : fetched[k] = pc + k - 1
      BY <1>c, <2>2 DEF TypeOK
    <3> HIDE DEF fetched
    <3>2. /\ Len(dir \o fetched) = Len(dir) + Len(fetched)
          /\ \A i \in 1 .. Len(dir) + Len(fetched) :
                (dir \o fetched)[i] = IF i <= Len(dir) THEN dir[i] ELSE fetched[i - Len(dir)]
      BY <3>1, ConcatProperties
    <3>3. ASSUME NEW i \in 1 .. Len(dir'), ~(i <= Len(dir)) PROVE i - Len(dir) \in 1 .. FetchCount
      BY <1>c, <2>1, <2>2, <3>1, <3>2, <3>3
    <3> QED
      BY <1>c, <2>1, <2>2, <3>1, <3>2, <3>3
  <2>4. DirInOrder'
    <3> SUFFICES ASSUME NEW i \in 1 .. Len(dir')
                 PROVE  dir'[i] = pc' - Len(dir') + i - 1
      BY DEF DirInOrder
    <3>1. CASE i <= Len(dir)
      <4>1. dir'[i] = pc - Len(dir) + i - 1
        BY <1>c, <1>e, <2>3, <3>1 DEF DirInOrder
      <4> QED
        BY <1>c, <2>1, <2>2, <2>3, <4>1
    <3>2. CASE ~(i <= Len(dir))
      BY <1>c, <2>1, <2>2, <2>3, <3>2
    <3> QED
      BY <3>1, <3>2
  <2>5. QueueInOrder'
    <3>1. pc' - Len(dir') = pc - Len(dir)
      BY <1>c, <2>1, <2>2, <2>3
    <3> QED
      BY <1>e, <2>1, <3>1 DEF QueueInOrder
  <2>6. TakenInOrder' /\ (pc <= Len(program))'
    BY <2>1, <2>2 DEF TakenInOrder
  <2> QED
    BY <2>4, <2>5, <2>6
<1>8. CASE /\ ~RefreshReady /\ ~TakeReady /\ ~PassWaiting
           /\ ~IssueToAlus /\ ~RenameInstr /\ ~FetchDecodeCycle
  <2>1. /\ UNCHANGED <<pc, dir, iq, entries, program>>
        /\ UNCHANGED vars \/ (stage # "select" /\ stage' # "select")
    BY <1>8, <1>d, QueuesKept
  <2> QED
    BY <1>e, <2>1 DEF DirInOrder, QueueInOrder, TakenInOrder, ScanInv, vars
<1> QED
  BY <1>2, <1>3, <1>4, <1>5, <1>6, <1>7, <1>8

\* The DIR and the integer queue are in program order, the DIR behind the queue, and
\* the scan of the issue stage takes older entries before younger ones, whatever the
\* uninitialised variable of rename_dispatch_cycle holds.
THEOREM FetchOrderHolds == Spec => []FetchOrder
<1>1. TypeOK /\ Accounting /\ FetchOrder /\ [Next]_vars => FetchOrder'
  BY FetchOrderNext
<1> QED
  BY <1>1, FetchOrderInit, TypeCorrect, PTL DEF Spec

\* issue_cycle hands the ALUs the oldest ready instructions of the integer queue, as
\* many as there are ALUs, at every size of the queue and of the ALUs.
THEOREM OldestReadyIssued == Spec => OldestReadyIssue
<1>1. ASSUME TypeOK, FetchOrder, IssueToAlus, NEW i \in 1 .. Len(iq), EntryReady(iq[i])
      PROVE  /\ Len(entries) = NUM_ALUS
             /\ \A k \in 1 .. NUM_ALUS :
                   ~exception_mode => entries[k].instr.pc < iq[i].instr.pc
  <2>1. stage = "select" /\ ~Scanning
    BY <1>1 DEF IssueToAlus
  <2>2. step < i /\ step \in Nat /\ Len(iq) \in Nat /\ Len(entries) \in Nat
    BY <1>1, <2>1, QueueTypes DEF FetchOrder, ScanInv
  <2>3. step + 1 \in 1 .. Len(iq)
    BY <2>2
  <2>4. ~(Len(entries) < NUM_ALUS)
    BY <1>1, <2>1, <2>2, <2>3 DEF Scanning, FetchOrder, ScanInv
  <2>5. Len(entries) = NUM_ALUS
    BY <1>1, <2>2, <2>4, SizesAssumption DEF TypeOK
  <2> QED
    BY <1>1, <2>2, <2>5 DEF FetchOrder, TakenInOrder
<1>2. TypeOK /\ FetchOrder /\ [Next]_vars =>
        [IssueToAlus => \A i \in 1 .. Len(iq) : EntryReady(iq[i]) =>
              /\ Len(entries) = NUM_ALUS
              /\ \A k \in 1 .. NUM_ALUS :
                    ~exception_mode => entries[k].instr.pc < iq[i].instr.pc]_vars
  BY <1>1
<1> QED
  BY <1>2, TypeCorrect, FetchOrderHolds, PTL DEF Spec, OldestReadyIssue

-----------------------------------------------------------------------------
(***************************************************************************)
(* The registers given to the instructions in flight.                      *)
(***************************************************************************)

\* No two instructions in flight were given the same register, and none of theirs is
\* free; the map names such a register, or an instruction replaced it in the map,
\* only for the architectural register it was given for, the latter later.
RegistersGiven ==
    /\ \A i, j \in 1 .. Len(active_list) :
          active_list[i].curr_phy_dest = active_list[j].curr_phy_dest => i = j
    /\ \A i \in 1 .. Len(active_list) : active_list[i].curr_phy_dest \notin Range(free_list)
    /\ \A i \in 1 .. Len(active_list), l \in LogReg :
          active_list[i].curr_phy_dest = logical[l] => active_list[i].log_dest = l
    /\ \A i, j \in 1 .. Len(active_list) :
          active_list[i].curr_phy_dest = active_list[j].old_phy_dest =>
              i < j /\ active_list[i].log_dest = active_list[j].log_dest

\* The partition of the registers, element by element.
LEMMA PartitionFacts ==
    ASSUME TypeOK, RegisterPartition
    PROVE  /\ \A i \in 1 .. Len(active_list) :
                 active_list[i].old_phy_dest \notin Range(free_list)
           /\ \A l \in LogReg : logical[l] \notin Range(free_list)
           /\ \A i \in 1 .. Len(active_list), l \in LogReg :
                 active_list[i].old_phy_dest # logical[l]
           /\ \A i, j \in 1 .. Len(active_list) :
                 active_list[i].old_phy_dest = active_list[j].old_phy_dest => i = j
           /\ \A l, m \in LogReg : logical[l] = logical[m] => l = m
<1>1. DOMAIN OldDests = 1 .. Len(active_list) /\ DOMAIN logical = LogReg
  BY DEF OldDests, TypeOK
<1>2. \A i \in 1 .. Len(active_list) :
         OldDests[i] = active_list[i].old_phy_dest /\ OldDests[i] \in Range(OldDests)
  BY <1>1 DEF OldDests, Range
<1>3. \A l \in LogReg : logical[l] \in Range(logical)
  BY <1>1 DEF Range
<1>4. \A i, j \in 1 .. Len(active_list) : OldDests[i] = OldDests[j] => i = j
  BY <1>1 DEF RegisterPartition, Injective
<1>5. \A l, m \in LogReg : logical[l] = logical[m] => l = m
  BY <1>1 DEF RegisterPartition, Injective
<1>6. /\ Range(free_list) \cap Range(logical) = {}
      /\ Range(free_list) \cap Range(OldDests) = {}
      /\ Range(logical) \cap Range(OldDests) = {}
  BY DEF RegisterPartition
<1> QED
  BY <1>2, <1>3, <1>4, <1>5, <1>6

\* The steps that move registers, element by element.
LEMMA CommitMoves ==
    ASSUME TypeOK, Accounting, CommitInstr
    PROVE  /\ Len(active_list) \in Nat \ {0} /\ Len(active_list') = Len(active_list) - 1
           /\ \A i \in 1 .. Len(active_list') :
                 active_list'[i] = active_list[i + 1] /\ i + 1 \in 1 .. Len(active_list)
           /\ Range(free_list') = Range(free_list) \cup {active_list[1].old_phy_dest}
           /\ logical' = logical
<1>1. /\ active_list \in Seq(ActiveEntry) /\ active_list # << >> /\ active_list' = Tail(active_list)
      /\ free_list' = Append(free_list, Oldest.old_phy_dest) /\ free_list \in Seq(PhyReg)
      /\ logical' = logical
  BY CommitEffect DEF TypeOK
<1>2. /\ Len(active_list) \in Nat \ {0} /\ Len(active_list') = Len(active_list) - 1
      /\ \A i \in 1 .. Len(active_list') :
            active_list'[i] = active_list[i + 1] /\ i + 1 \in 1 .. Len(active_list)
  BY <1>1
<1>3. Oldest = active_list[1] /\ Oldest.old_phy_dest \in PhyReg
  BY <1>1, OldestType DEF Oldest
<1>4. /\ Len(free_list) \in Nat /\ DOMAIN free_list = 1 .. Len(free_list)
      /\ DOMAIN free_list' = 1 .. Len(free_list) + 1
      /\ \A i \in 1 .. Len(free_list) : free_list'[i] = free_list[i]
      /\ free_list'[Len(free_list) + 1] = Oldest.old_phy_dest
  BY <1>1, <1>3
<1>5. 1 .. Len(free_list) + 1 = (1 .. Len(free_list)) \cup {Len(free_list) + 1}
  BY <1>4
<1>6. Range(free_list') = Range(free_list) \cup {Oldest.old_phy_dest}
  BY <1>4, <1>5 DEF Range
<1> QED
  BY <1>1, <1>2, <1>3, <1>6

\* What taking one entry back off the active list does to the registers.
LEMMA RecoverMoves ==
    ASSUME TypeOK, Accounting, RecoverInstr
    PROVE  LET n == Len(active_list)
               undone == active_list[n]
           IN  /\ n \in Nat \ {0} /\ Len(active_list') = n - 1
               /\ \A i \in 1 .. n - 1 : active_list'[i] = active_list[i] /\ i \in 1 .. n
               /\ undone.log_dest \in LogReg
               /\ logical' = [logical EXCEPT ![undone.log_dest] = undone.old_phy_dest]
               /\ Range(free_list') = Range(free_list) \cup {logical[undone.log_dest]}
               /\ is_busy' = [is_busy EXCEPT ![logical[undone.log_dest]] = FALSE]
<1> DEFINE n == Len(active_list)
           undone == active_list[n]
           current == logical[undone.log_dest]
<1>1. /\ n \in Nat \ {0} /\ undone.log_dest \in LogReg /\ current \in PhyReg
      /\ free_list' = Append(free_list, current)
      /\ logical' = [logical EXCEPT ![undone.log_dest] = undone.old_phy_dest]
      /\ active_list' = RemoveAt(active_list, n)
  BY RecoverEffect
<1>2. active_list \in Seq(ActiveEntry) /\ free_list \in Seq(PhyReg) /\ n \in 1 .. n
  BY <1>1 DEF TypeOK
<1>3. /\ Len(active_list') = n - 1
      /\ \A i \in 1 .. n - 1 :
            active_list'[i] = IF i < n THEN active_list[i] ELSE active_list[i + 1]
  BY <1>1, <1>2, RemoveAtProperties
<1>4. \A i \in 1 .. n - 1 : i < n /\ i \in 1 .. n
  BY <1>1
<1>5. /\ Len(free_list) \in Nat /\ DOMAIN free_list = 1 .. Len(free_list)
      /\ DOMAIN free_list' = 1 .. Len(free_list) + 1
      /\ \A i \in 1 .. Len(free_list) : free_list'[i] = free_list[i]
      /\ free_list'[Len(free_list) + 1] = current
  <2> HIDE DEF current
  <2> QED
    BY <1>1, <1>2
<1>6. 1 .. Len(free_list) + 1 = (1 .. Len(free_list)) \cup {Len(free_list) + 1}
  BY <1>5
<1>7. Range(free_list') = Range(free_list) \cup {current}
  <2> HIDE DEF current
  <2> QED
    BY <1>5, <1>6 DEF Range
<1>8. is_busy' = [is_busy EXCEPT ![current] = FALSE]
  <2>1. Len(free_list) # FREE_LIST_SIZE
    BY <1>1, SizesAssumption, RegLogAssumption DEF TypeOK, Accounting, FREE_LIST_SIZE
  <2>2. FreeListPushResult(current) = "ERR_NONE"
    BY <1>1, <2>1, SizesAssumption DEF FreeListPushResult, PhyReg
  <2> QED
    BY <2>2 DEF RecoverInstr, RecoverIndex
<1> QED
  BY <1>1, <1>3, <1>4, <1>7, <1>8

\* What renaming one instruction does to the registers and the active list.
LEMMA DispatchMoves ==
    ASSUME TypeOK, Accounting, RenameInstr
    PROVE  LET n == Len(active_list)
               dest == Head(free_list)
               entry == NewActiveEntry(Head(dir), dest)
           IN  \/ UNCHANGED <<active_list, logical, free_list, is_busy>>
               \/ /\ n \in Nat /\ Len(active_list') = n + 1 /\ active_list'[n + 1] = entry
                  /\ \A i \in 1 .. n : active_list'[i] = active_list[i] /\ i \in 1 .. n + 1
                  /\ entry.log_dest \in LogReg /\ entry.curr_phy_dest = dest
                  /\ entry.old_phy_dest = logical[entry.log_dest]
                  /\ ~entry.is_done /\ ~entry.is_exception /\ entry.pc = Head(dir)
                  /\ logical' = [logical EXCEPT ![entry.log_dest] = dest]
                  /\ dest \in Range(free_list) /\ dest \in PhyReg
                  /\ Range(free_list') \subseteq Range(free_list)
                  /\ RegisterPartition => Range(free_list') = Range(free_list) \ {dest}
                  /\ is_busy' = [is_busy EXCEPT ![dest] = TRUE]
<1> DEFINE n == Len(active_list)
           dest == Head(free_list)
           entry == NewActiveEntry(Head(dir), dest)
           m == Len(free_list) - 1
<1>1. CASE UNCHANGED <<renameVars, is_busy, iq>>
  BY <1>1 DEF renameVars
<1>2. CASE /\ free_list # << >> /\ dest \in PhyReg
           /\ entry \in ActiveEntry
           /\ free_list' = Tail(free_list)
           /\ active_list' = Append(active_list, entry)
           /\ logical' = [logical EXCEPT ![entry.log_dest] = dest]
           /\ is_busy' = [is_busy EXCEPT ![dest] = TRUE]
  <2>1. /\ entry.curr_phy_dest = dest /\ entry.old_phy_dest = logical[entry.log_dest]
        /\ ~entry.is_done /\ ~entry.is_exception /\ entry.pc = Head(dir)
    BY DEF NewActiveEntry
  <2>2. entry.log_dest \in LogReg
    <3> HIDE DEF entry
    <3> QED
      BY <1>2 DEF ActiveEntry
  <2>3. /\ n \in Nat /\ Len(active_list') = n + 1 /\ active_list'[n + 1] = entry
        /\ \A i \in 1 .. n : active_list'[i] = active_list[i] /\ i \in 1 .. n + 1
    <3> HIDE DEF entry
    <3> QED
      BY <1>2 DEF TypeOK
  <2>4. /\ m \in Nat /\ DOMAIN free_list = 1 .. m + 1 /\ DOMAIN free_list' = 1 .. m
        /\ \A i \in 1 .. m : free_list'[i] = free_list[i + 1] /\ i + 1 \in 1 .. m + 1
        /\ dest = free_list[1] /\ 1 \in 1 .. m + 1
    BY <1>2 DEF TypeOK
  <2>5. dest \in Range(free_list) /\ Range(free_list') \subseteq Range(free_list)
    <3> HIDE DEF m, dest
    <3> QED
      BY <2>4 DEF Range
  <2>6. ASSUME RegisterPartition PROVE Range(free_list') = Range(free_list) \ {dest}
    <3>1. Injective(free_list)
      BY <2>6 DEF RegisterPartition
    <3> HIDE DEF m, dest
    <3> QED
      BY <2>4, <3>1, WithoutFirst
  <2> QED
    BY <1>2, <2>1, <2>2, <2>3, <2>5, <2>6
<1> QED
  BY <1>1, <1>2, DispatchEffect

\* Every step keeps what RegistersGiven says of the registers in flight.
LEMMA RegistersGivenNext ==
    TypeOK /\ Accounting /\ RegisterPartition /\ RenameChain /\ RegistersGiven /\ [Next]_vars
        => RegistersGiven'
<1> SUFFICES ASSUME TypeOK, Accounting, RegisterPartition, RenameChain, RegistersGiven,
                    [Next]_vars
             PROVE  RegistersGiven'
  OBVIOUS
<1> DEFINE n == Len(active_list)
<1>a. n \in Nat /\ logical \in [LogReg -> PhyReg]
  BY DEF TypeOK
<1>1. CASE CommitInstr
  <2>1. /\ n \in Nat \ {0} /\ Len(active_list') = n - 1
        /\ \A i \in 1 .. Len(active_list') :
              active_list'[i] = active_list[i + 1] /\ i + 1 \in 1 .. n
        /\ Range(free_list') = Range(free_list) \cup {active_list[1].old_phy_dest}
        /\ logical' = logical
    BY <1>1, CommitMoves
  <2>2. \A i \in 1 .. Len(active_list') : i \in Int /\ ~(i + 1 < 1)
    BY <2>1
  <2>3. \A i, j \in 1 .. Len(active_list') : (i + 1 = j + 1 => i = j) /\ (i + 1 < j + 1 => i < j)
    BY <2>1
  <2>4. 1 \in 1 .. n
    BY <2>1
  <2>5. \A i \in 1 .. Len(active_list') : active_list'[i].curr_phy_dest \notin Range(free_list')
    BY <2>1, <2>2, <2>4 DEF RegistersGiven
  <2>6. \A i, j \in 1 .. Len(active_list') :
           active_list'[i].curr_phy_dest = active_list'[j].curr_phy_dest => i = j
    BY <2>1, <2>3 DEF RegistersGiven
  <2>7. \A i \in 1 .. Len(active_list'), l \in LogReg :
           active_list'[i].curr_phy_dest = logical'[l] => active_list'[i].log_dest = l
    BY <2>1 DEF RegistersGiven
  <2>8. \A i, j \in 1 .. Len(active_list') :
           active_list'[i].curr_phy_dest = active_list'[j].old_phy_dest =>
              i < j /\ active_list'[i].log_dest = active_list'[j].log_dest
    BY <2>1, <2>3 DEF RegistersGiven
  <2> QED
    BY <2>5, <2>6, <2>7, <2>8 DEF RegistersGiven
<1>2. CASE RecoverInstr
  <2> DEFINE undone == active_list[n]
             current == logical[undone.log_dest]
  <2>1. /\ n \in Nat \ {0} /\ Len(active_list') = n - 1
        /\ \A i \in 1 .. n - 1 : active_list'[i] = active_list[i] /\ i \in 1 .. n
        /\ undone.log_dest \in LogReg
        /\ logical' = [logical EXCEPT ![undone.log_dest] = undone.old_phy_dest]
        /\ Range(free_list') = Range(free_list) \cup {current}
    BY <1>2, RecoverMoves
  <2>2. current = undone.curr_phy_dest
    <3>1. LaterWriters(n) = {}
      BY <2>1 DEF LaterWriters
    <3>2. n \in 1 .. n
      BY <2>1
    <3> QED
      BY <3>1, <3>2 DEF RenameChain
  <2>3. n \in 1 .. n /\ \A i \in 1 .. n - 1 : i # n
    BY <2>1
  <2>4. \A l \in LogReg : logical'[l] = IF l = undone.log_dest THEN undone.old_phy_dest ELSE logical[l]
    BY <1>a, <2>1
  <2> HIDE DEF n
  <2>5. \A i \in 1 .. n - 1 : active_list'[i].curr_phy_dest \notin Range(free_list')
    BY <2>1, <2>2, <2>3 DEF RegistersGiven, n
  <2>6. ASSUME NEW i \in 1 .. n - 1, NEW l \in LogReg, active_list'[i].curr_phy_dest = logical'[l]
        PROVE  active_list'[i].log_dest = l
    <3>1. CASE l = undone.log_dest
      <4>1. active_list[i].curr_phy_dest = undone.old_phy_dest
        BY <2>1, <2>4, <2>6, <3>1
      <4> QED
        BY <2>1, <2>3, <3>1, <4>1 DEF RegistersGiven, n
    <3>2. CASE l # undone.log_dest
      BY <2>1, <2>4, <2>6, <3>2 DEF RegistersGiven, n
    <3> QED
      BY <3>1, <3>2
  <2> QED
    BY SMTT(30), <2>1, <2>5, <2>6 DEF RegistersGiven, n
<1>3. CASE RenameInstr
  <2> DEFINE dest == Head(free_list)
             entry == NewActiveEntry(Head(dir), dest)
  <2>1. CASE UNCHANGED <<active_list, logical, free_list, is_busy>>
    BY <2>1 DEF RegistersGiven
  <2>2. CASE /\ n \in Nat /\ Len(active_list') = n + 1 /\ active_list'[n + 1] = entry
             /\ \A i \in 1 .. n : active_list'[i] = active_list[i] /\ i \in 1 .. n + 1
             /\ entry.log_dest \in LogReg /\ entry.curr_phy_dest = dest
             /\ entry.old_phy_dest = logical[entry.log_dest]
             /\ logical' = [logical EXCEPT ![entry.log_dest] = dest]
             /\ dest \in Range(free_list)
             /\ Range(free_list') = Range(free_list) \ {dest}
    <3>1. \A i \in 1 .. n + 1 : i \in 1 .. n \/ i = n + 1
      BY <2>2
    <3>2. /\ \A i \in 1 .. n : active_list[i].curr_phy_dest # dest
          /\ \A i \in 1 .. n : active_list[i].old_phy_dest # dest
          /\ \A l \in LogReg : logical[l] # dest
      BY <2>2, PartitionFacts DEF RegistersGiven
    <3>3. \A l \in LogReg : logical'[l] = IF l = entry.log_dest THEN dest ELSE logical[l]
      BY <1>a, <2>2
    <3>4. \A i \in 1 .. n : i < n + 1 /\ i # n + 1
      BY <2>2
    <3> HIDE DEF n, dest, entry
    <3>5. \A i, j \in 1 .. n + 1 :
             active_list'[i].curr_phy_dest = active_list'[j].curr_phy_dest => i = j
      BY <2>2, <3>1, <3>2 DEF RegistersGiven, n
    <3>6. \A i \in 1 .. n + 1 : active_list'[i].curr_phy_dest \notin Range(free_list')
      BY <2>2, <3>1, <3>2 DEF RegistersGiven, n
    <3>7. \A i \in 1 .. n + 1, l \in LogReg :
             active_list'[i].curr_phy_dest = logical'[l] => active_list'[i].log_dest = l
      BY <2>2, <3>1, <3>2, <3>3 DEF RegistersGiven, n
    <3>8. \A i, j \in 1 .. n + 1 :
             active_list'[i].curr_phy_dest = active_list'[j].old_phy_dest =>
                i < j /\ active_list'[i].log_dest = active_list'[j].log_dest
      <4> SUFFICES ASSUME NEW i \in 1 .. n + 1, NEW j \in 1 .. n + 1,
                          active_list'[i].curr_phy_dest = active_list'[j].old_phy_dest
                   PROVE  i < j /\ active_list'[i].log_dest = active_list'[j].log_dest
        OBVIOUS
      <4>1. CASE i \in 1 .. n /\ j \in 1 .. n
        BY <2>2, <4>1 DEF RegistersGiven, n
      <4>2. CASE i \in 1 .. n /\ j = n + 1
        BY <2>2, <3>4, <4>2 DEF RegistersGiven, n
      <4>3. CASE i = n + 1
        BY <2>2, <3>1, <3>2, <4>3
      <4> QED
        BY <3>1, <4>1, <4>2, <4>3
    <3> QED
      BY <2>2, <3>5, <3>6, <3>7, <3>8 DEF RegistersGiven
  <2> QED
    BY <1>3, <2>1, <2>2, DispatchMoves
<1>4. CASE ~CommitInstr /\ ~RecoverInstr /\ ~RenameInstr
  BY <1>4, OtherSteps DEF RegistersGiven
<1> QED
  BY <1>1, <1>2, <1>3, <1>4

\* What was given to an instruction in flight stays its own until it commits or is
\* undone, in every instance of the machine.
THEOREM RegistersGivenHolds == Spec => []RegistersGiven
<1>1. Init => RegistersGiven
  BY DEF Init, RegistersGiven
<1>2. TypeOK /\ Accounting /\ RegisterPartition /\ RenameChain /\ RegistersGiven /\ [Next]_vars
        => RegistersGiven'
  BY RegistersGivenNext
<1> QED
  BY <1>1, <1>2, TypeCorrect, RegistersPartitioned, RenameChainHolds, PTL DEF Spec

-----------------------------------------------------------------------------
(***************************************************************************)
(* The map with which an instruction in flight was renamed.                *)
(***************************************************************************)

\* A set of natural numbers has a least element: what Min chooses.
LEMMA MinExists ==
    ASSUME NEW S, S \subseteq Nat, S # {}
    PROVE  Min(S) \in S /\ \A y \in S : Min(S) <= y
<1> DEFINE Less == {ss \in Nat \X Nat : ss[1] < ss[2]}
<1>1. IsWellFoundedOn(Less, Nat)
  BY NatLessThanWellFounded DEF OpToRel
<1> HIDE DEF Less
<1>2. PICK x \in S : \A y \in S : ~(<<y, x>> \in Less)
  BY <1>1, WFMin, Zenon
<1>3. ASSUME NEW y \in S PROVE x <= y
  <2>1. x \in Nat /\ y \in Nat /\ <<y, x>> \notin Less
    BY <1>2
  <2>2. ~(y < x)
    BY <2>1 DEF Less
  <2> QED
    BY <2>1, <2>2
<1> QED
  BY <1>3 DEF Min

\* The register an architectural register was mapped to before position i of an
\* active list: the one its first writer from there on replaced, or the mapped one.
WritersFrom(list, i, l) == {j \in i .. Len(list) : list[j].log_dest = l}
MapOf(list, map, i, l) ==
    IF WritersFrom(list, i, l) = {} THEN map[l]
    ELSE list[Min(WritersFrom(list, i, l))].old_phy_dest
MapAt(i, l) == MapOf(active_list, logical, i, l)

\* Position j is the first writer of l from i on; there is none.
FirstWriter(list, i, l, j) ==
    /\ j \in i .. Len(list) /\ list[j].log_dest = l
    /\ \A k \in i .. Len(list) : k < j => list[k].log_dest # l
NoWriter(list, i, l) == \A k \in i .. Len(list) : list[k].log_dest # l

\* The first writer from i on replaced the register that the map named before it.
LEMMA MapOfFirst ==
    ASSUME NEW list, NEW map, NEW i \in Nat, NEW l, NEW j, Len(list) \in Nat,
           FirstWriter(list, i, l, j)
    PROVE  MapOf(list, map, i, l) = list[j].old_phy_dest
<1> DEFINE W == WritersFrom(list, i, l)
<1>1. W \subseteq Nat /\ j \in W /\ W # {} /\ j \in Nat
  BY DEF WritersFrom, FirstWriter
<1>2. Min(W) \in W /\ \A y \in W : Min(W) <= y
  <2> HIDE DEF W
  <2> QED
    BY <1>1, MinExists
<1>3. Min(W) \in i .. Len(list) /\ list[Min(W)].log_dest = l /\ Min(W) <= j
  BY <1>1, <1>2 DEF WritersFrom
<1> HIDE DEF W
<1>4. Min(W) = j
  BY <1>1, <1>3 DEF FirstWriter
<1> QED
  BY <1>1, <1>4 DEF MapOf, W

\* Without a writer the map still names that register.
LEMMA MapOfNone ==
    ASSUME NEW list, NEW map, NEW i, NEW l, NoWriter(list, i, l)
    PROVE  MapOf(list, map, i, l) = map[l]
  BY DEF MapOf, WritersFrom, NoWriter

\* One of the two cases holds.
LEMMA MapOfCases ==
    ASSUME NEW list, NEW i \in Nat, NEW l, Len(list) \in Nat
    PROVE  NoWriter(list, i, l) \/ \E j \in i .. Len(list) : FirstWriter(list, i, l, j)
<1> DEFINE W == WritersFrom(list, i, l)
<1>1. CASE W = {}
  BY <1>1 DEF WritersFrom, NoWriter
<1>2. CASE W # {}
  <2>1. W \subseteq Nat
    BY DEF WritersFrom
  <2>2. Min(W) \in W /\ \A y \in W : Min(W) <= y
    <3> HIDE DEF W
    <3> QED
      BY <1>2, <2>1, MinExists
  <2>3. Min(W) \in i .. Len(list) /\ list[Min(W)].log_dest = l
    BY <2>2 DEF WritersFrom
  <2>4. ASSUME NEW k \in i .. Len(list), k < Min(W) PROVE list[k].log_dest # l
    <3>1. k \notin W
      <4> HIDE DEF W
      <4> QED
        BY <2>2, <2>3, <2>4
    <3> QED
      BY <3>1 DEF WritersFrom
  <2> HIDE DEF W
  <2> QED
    BY <2>3, <2>4 DEF FirstWriter
<1> QED
  BY <1>1, <1>2

\* Two lists name the same registers from i on, the other one d positions later.
SameWriters(list, other, i, d) ==
    \A k \in i .. Len(list) : /\ list[k].log_dest = other[k + d].log_dest
                              /\ list[k].old_phy_dest = other[k + d].old_phy_dest

\* Such lists give the same register.
LEMMA MapOfShifted ==
    ASSUME NEW list, NEW map, NEW other, NEW mapped, NEW i \in Nat, NEW d \in Nat, NEW l,
           Len(list) \in Nat, Len(other) = Len(list) + d,
           SameWriters(list, other, i, d), map[l] = mapped[l]
    PROVE  MapOf(list, map, i, l) = MapOf(other, mapped, i + d, l)
<1> USE DEF SameWriters
<1>1. \A k \in i + d .. Len(other) : k - d \in i .. Len(list) /\ (k - d) + d = k
  OBVIOUS
<1>2. \A k \in i .. Len(list) : k + d \in i + d .. Len(other) /\ k \in Int
  OBVIOUS
<1>3. i + d \in Nat /\ Len(other) \in Nat
  OBVIOUS
<1>4. CASE NoWriter(list, i, l)
  <2>1. ASSUME NEW k \in i + d .. Len(other) PROVE other[k].log_dest # l
    <3>1. k - d \in i .. Len(list) /\ (k - d) + d = k
      BY <1>1
    <3>2. list[k - d].log_dest = other[(k - d) + d].log_dest
      BY <3>1
    <3> QED
      BY <1>4, <3>1, <3>2 DEF NoWriter
  <2>2. NoWriter(other, i + d, l)
    BY <2>1 DEF NoWriter
  <2> QED
    BY <1>4, <2>2, MapOfNone
<1>5. ASSUME NEW j \in i .. Len(list), FirstWriter(list, i, l, j)
      PROVE  MapOf(list, map, i, l) = MapOf(other, mapped, i + d, l)
  <2>1. MapOf(list, map, i, l) = list[j].old_phy_dest
    BY <1>5, MapOfFirst
  <2>2. j + d \in i + d .. Len(other) /\ other[j + d].log_dest = l
    BY <1>2, <1>5 DEF FirstWriter
  <2>3. ASSUME NEW k \in i + d .. Len(other), k < j + d PROVE other[k].log_dest # l
    <3>1. k - d \in i .. Len(list) /\ (k - d) + d = k /\ k - d < j
      BY <1>1, <2>3
    <3>2. list[k - d].log_dest = other[(k - d) + d].log_dest
      BY <3>1
    <3> QED
      BY <1>5, <3>1, <3>2 DEF FirstWriter
  <2>4. FirstWriter(other, i + d, l, j + d)
    BY <2>2, <2>3 DEF FirstWriter
  <2>5. MapOf(other, mapped, i + d, l) = other[j + d].old_phy_dest
    BY <1>3, <2>4, MapOfFirst
  <2> QED
    BY <2>1, <2>5
<1> QED
  BY <1>4, <1>5, MapOfCases

\* The youngest writer replaced the register that map names, in the map that followed.
Replaces(longer, mapped, map, l) ==
    LET youngest == longer[Len(longer)]
    IN  /\ youngest.log_dest = l => youngest.old_phy_dest = map[l]
        /\ youngest.log_dest # l => mapped[l] = map[l]

\* An instruction that is added, with the register the map named before, changes the
\* map of no older instruction; undoing it changes none either.
LEMMA MapOfExtended ==
    ASSUME NEW list, NEW map, NEW longer, NEW mapped, NEW i \in Nat, NEW l,
           Len(list) \in Nat, Len(longer) = Len(list) + 1, i <= Len(list) + 1,
           SameWriters(list, longer, i, 0),
           Replaces(longer, mapped, map, l)
    PROVE  MapOf(list, map, i, l) = MapOf(longer, mapped, i, l)
<1> DEFINE n == Len(list)
<1>0. /\ \A k \in i .. n : /\ list[k].log_dest = longer[k].log_dest
                           /\ list[k].old_phy_dest = longer[k].old_phy_dest
      /\ longer[n + 1].log_dest = l => longer[n + 1].old_phy_dest = map[l]
      /\ longer[n + 1].log_dest # l => mapped[l] = map[l]
  BY DEF SameWriters, Replaces
<1>1. \A k \in i .. n + 1 : k \in i .. n \/ k = n + 1
  OBVIOUS
<1>2. \A k \in i .. n : k \in i .. n + 1 /\ k < n + 1 /\ k \in Int
  OBVIOUS
<1>3. n + 1 \in i .. n + 1 /\ n + 1 \in Nat /\ Len(longer) \in Nat
  OBVIOUS
<1>4. CASE NoWriter(list, i, l)
  <2>1. MapOf(list, map, i, l) = map[l]
    BY <1>4, MapOfNone
  <2>2. CASE longer[n + 1].log_dest = l
    <3>1. FirstWriter(longer, i, l, n + 1)
      BY <1>0, <1>1, <1>3, <1>4, <2>2 DEF FirstWriter, NoWriter
    <3>2. MapOf(longer, mapped, i, l) = longer[n + 1].old_phy_dest
      BY <1>3, <3>1, MapOfFirst
    <3> QED
      BY <1>0, <2>1, <2>2, <3>2
  <2>3. CASE longer[n + 1].log_dest # l
    <3>1. NoWriter(longer, i, l)
      BY <1>0, <1>1, <1>4, <2>3 DEF NoWriter
    <3>2. MapOf(longer, mapped, i, l) = mapped[l]
      BY <3>1, MapOfNone
    <3> QED
      BY <1>0, <2>1, <2>3, <3>2
  <2> QED
    BY <2>2, <2>3
<1>5. ASSUME NEW j \in i .. Len(list), FirstWriter(list, i, l, j)
      PROVE  MapOf(list, map, i, l) = MapOf(longer, mapped, i, l)
  <2>1. MapOf(list, map, i, l) = list[j].old_phy_dest
    BY <1>5, MapOfFirst
  <2>2. j \in i .. Len(longer) /\ longer[j].log_dest = l
    BY <1>0, <1>2, <1>5 DEF FirstWriter
  <2>3. \A k \in i .. Len(longer) : k < j => longer[k].log_dest # l
    BY <1>0, <1>1, <1>2, <1>5 DEF FirstWriter
  <2>4. FirstWriter(longer, i, l, j)
    BY <2>2, <2>3 DEF FirstWriter
  <2>5. MapOf(longer, mapped, i, l) = longer[j].old_phy_dest
    BY <1>3, <2>4, MapOfFirst
  <2> QED
    BY <1>0, <1>5, <2>1, <2>2, <2>5
<1> QED
  BY <1>4, <1>5, MapOfCases
-----------------------------------------------------------------------------
(***************************************************************************)
(* The places that hold the instructions between rename and write-back.    *)
(***************************************************************************)

\* The ALUs whose last stage was written back in this cycle.
WrittenBack == IF stage = "writeback" THEN 1 .. step
               ELSE IF stage \in {"refresh", "select"} THEN 1 .. NUM_ALUS ELSE {}

\* The occupied places of a queue, an array of ready entries and the ALUs, named as
\* Places names them, and the instruction in one of them.
PlacesOf(queue, array, units, written) ==
    ({"iq"} \X (1 .. Len(queue)) \X {0})
    \cup ({"entries"} \X (1 .. Len(array)) \X {0})
    \cup {p \in {"alu"} \X (1 .. NUM_ALUS) \X (1 .. ALU_STAGES) :
             /\ units[p[2]][p[3]].type # "unknown"
             /\ ~(p[3] = ALU_STAGES /\ p[2] \in written)}
InstrOf(queue, array, units, p) ==
    IF p[1] = "iq" THEN queue[p[2]].instr
    ELSE IF p[1] = "entries" THEN array[p[2]].instr ELSE units[p[2]][p[3]]

Live == PlacesOf(iq, entries, alus, WrittenBack)
At(p) == InstrOf(iq, entries, alus, p)

\* The places, one kind after the other.
LEMMA PlaceCases ==
    ASSUME NEW queue, NEW array, NEW units, NEW written,
           NEW p \in PlacesOf(queue, array, units, written)
    PROVE  \/ \E i \in 1 .. Len(queue) :
                 /\ p = <<"iq", i, 0>> /\ InstrOf(queue, array, units, p) = queue[i].instr
           \/ \E i \in 1 .. Len(array) :
                 /\ p = <<"entries", i, 0>> /\ InstrOf(queue, array, units, p) = array[i].instr
           \/ \E a \in 1 .. NUM_ALUS, s \in 1 .. ALU_STAGES :
                 /\ p = <<"alu", a, s>> /\ InstrOf(queue, array, units, p) = units[a][s]
                 /\ units[a][s].type # "unknown" /\ ~(s = ALU_STAGES /\ a \in written)
  BY DEF PlacesOf, InstrOf

\* An index of a queue or of an ALU stage is a place, and names what it holds.
LEMMA PlaceIntro ==
    ASSUME NEW queue, NEW array, NEW units, NEW written
    PROVE  /\ \A i \in 1 .. Len(queue) :
                 /\ <<"iq", i, 0>> \in PlacesOf(queue, array, units, written)
                 /\ InstrOf(queue, array, units, <<"iq", i, 0>>) = queue[i].instr
           /\ \A i \in 1 .. Len(array) :
                 /\ <<"entries", i, 0>> \in PlacesOf(queue, array, units, written)
                 /\ InstrOf(queue, array, units, <<"entries", i, 0>>) = array[i].instr
           /\ \A a \in 1 .. NUM_ALUS, s \in 1 .. ALU_STAGES :
                 /\ InstrOf(queue, array, units, <<"alu", a, s>>) = units[a][s]
                 /\ (units[a][s].type # "unknown" /\ ~(s = ALU_STAGES /\ a \in written)) =>
                       <<"alu", a, s>> \in PlacesOf(queue, array, units, written)
  BY DEF PlacesOf, InstrOf

\* What stays of a renamed instruction on its way: all but the values it reads.
SameInstr(a, b) ==
    /\ a.type = b.type /\ a.pc = b.pc /\ a.dest = b.dest /\ a.opA = b.opA /\ a.opB = b.opB
    /\ a.type \in ImmOps => a.valB = b.valB

\* Every instruction in place after a step was in one place before it, each in
\* another one, and none of them is lost.
Carried ==
    \E from \in [Live' -> Live] :
        /\ \A p \in Live' : SameInstr(At(p)', At(from[p]))
        /\ \A p, q \in Live' : from[p] = from[q] => p = q
        /\ \A q \in Live : \E p \in Live' : from[p] = q
\* A step that touches none of the places.
LEMMA UnmovedCarried ==
    ASSUME UNCHANGED <<iq, entries, alus>>, WrittenBack' = WrittenBack
    PROVE  Carried
<1>1. Live' = Live /\ \A p \in Live : At(p)' = At(p)
  BY DEF Live, At
<1>2. [p \in Live |-> p] \in [Live' -> Live]
  BY <1>1
<1> QED
  BY <1>1, <1>2 DEF Carried, SameInstr

\* The refreshed entries stay where they are.
LEMMA RefreshCarries ==
    ASSUME TypeOK, RefreshReady
    PROVE  Carried
<1>1. /\ Len(iq') = Len(iq) /\ entries' = entries /\ alus' = alus
      /\ \A i \in 1 .. Len(iq) : iq'[i] = WithReadiness(iq[i].instr, is_busy, active_list)
      /\ WrittenBack' = WrittenBack
  BY QueueTypes DEF RefreshReady, GoTo, WrittenBack
<1>2. \A i \in 1 .. Len(iq) : SameInstr(iq'[i].instr, iq[i].instr)
  BY <1>1, QueueTypes, ReadinessKeeps DEF SameInstr
<1>3. Live' = Live
  BY <1>1 DEF Live, PlacesOf
<1>4. \A p \in Live : SameInstr(At(p)', At(p))
  <2> SUFFICES ASSUME NEW p \in Live PROVE SameInstr(At(p)', At(p))
    OBVIOUS
  <2>1. CASE \E i \in 1 .. Len(iq) : p = <<"iq", i, 0>> /\ At(p) = iq[i].instr
    BY <1>2, <2>1 DEF At, InstrOf
  <2>2. CASE \E i \in 1 .. Len(entries) : p = <<"entries", i, 0>>
    BY <1>1, <2>2 DEF At, InstrOf, SameInstr
  <2>3. CASE \E a \in 1 .. NUM_ALUS, s \in 1 .. ALU_STAGES : p = <<"alu", a, s>>
    BY <1>1, <2>3 DEF At, InstrOf, SameInstr
  <2> QED
    BY <2>1, <2>2, <2>3, PlaceCases DEF Live, At
<1>5. [p \in Live |-> p] \in [Live' -> Live]
  BY <1>3
<1> QED
  BY <1>3, <1>4, <1>5 DEF Carried

\* The ALUs compute in place.
LEMMA ExecuteCarries ==
    ASSUME TypeOK, AluCycles
    PROVE  Carried
<1>1. /\ iq' = iq /\ entries' = entries /\ WrittenBack = {} /\ WrittenBack' = {}
      /\ alus' = [a \in 1 .. NUM_ALUS |-> [alus[a] EXCEPT ![ALU_STAGES] = Executed(@)]]
  BY DEF AluCycles, GoTo, WrittenBack, issueVars
<1>2. \A a \in 1 .. NUM_ALUS, s \in 1 .. ALU_STAGES :
         /\ SameInstr(alus'[a][s], alus[a][s])
         /\ alus'[a][s].type = alus[a][s].type
  <2> SUFFICES ASSUME NEW a \in 1 .. NUM_ALUS, NEW s \in 1 .. ALU_STAGES
               PROVE  SameInstr(alus'[a][s], alus[a][s])
    BY DEF SameInstr
  <2>1. alus[a][s] \in Renamed \cup {EmptySlot} /\ DOMAIN alus[a] = 1 .. ALU_STAGES
    BY DEF TypeOK
  <2>2. alus'[a][s] = IF s = ALU_STAGES THEN Executed(alus[a][s]) ELSE alus[a][s]
    BY <1>1, <2>1
  <2>3. SameInstr(Executed(alus[a][s]), alus[a][s])
    BY <2>1 DEF Executed, SameInstr, Renamed, EmptySlot
  <2> QED
    BY <2>2, <2>3 DEF SameInstr
<1>3. Live' = Live
  BY <1>1, <1>2 DEF Live, PlacesOf
<1>4. \A p \in Live : SameInstr(At(p)', At(p))
  <2> SUFFICES ASSUME NEW p \in Live PROVE SameInstr(At(p)', At(p))
    OBVIOUS
  <2>1. CASE \E i \in 1 .. Len(iq) : p = <<"iq", i, 0>>
    BY <1>1, <2>1 DEF At, InstrOf, SameInstr
  <2>2. CASE \E i \in 1 .. Len(entries) : p = <<"entries", i, 0>>
    BY <1>1, <2>2 DEF At, InstrOf, SameInstr
  <2>3. CASE \E a \in 1 .. NUM_ALUS, s \in 1 .. ALU_STAGES : p = <<"alu", a, s>>
    BY <1>2, <2>3 DEF At, InstrOf
  <2> QED
    BY <2>1, <2>2, <2>3, PlaceCases DEF Live, At
<1>5. [p \in Live |-> p] \in [Live' -> Live]
  BY <1>3
<1> QED
  BY <1>3, <1>4, <1>5 DEF Carried
\* A ready instruction goes from the queue to the array; the ones behind it move up.
LEMMA TakeCarries ==
    ASSUME TypeOK, TakeReady
    PROVE  Carried
<1>0. Len(entries) \in Nat /\ Len(entries) + 1 \in Nat /\ step + 1 \in Nat
  BY QueueTypes
<1>a. PICK n \in Nat, last \in Nat, taken \in Nat :
         n = Len(entries) /\ last = n + 1 /\ taken = step + 1
  BY <1>0
<1> DEFINE Old(i) == IF i <= step THEN i ELSE i + 1
           From(p) == IF p[1] = "iq" THEN <<"iq", Old(p[2]), 0>>
                      ELSE IF p = <<"entries", last, 0>> THEN <<"iq", taken, 0>> ELSE p
<1>1. /\ n \in Nat /\ Len(iq) \in Nat /\ step \in Nat /\ taken \in 1 .. Len(iq)
      /\ Len(iq') = Len(iq) - 1 /\ Len(entries') = last /\ last \in 1 .. last
      /\ \A j \in 1 .. Len(iq') : iq'[j] = iq[Old(j)]
      /\ \A k \in 1 .. n : entries'[k] = entries[k]
      /\ entries'[last] = iq[taken]
      /\ stage = "select" /\ UNCHANGED <<stage, step>>
  BY SMTT(30), <1>a, QueueTypes, TakeEffect
<1>2. alus' = alus /\ WrittenBack' = WrittenBack
  BY <1>1 DEF TakeReady, WrittenBack
<1>3. /\ \A i \in 1 .. Len(iq') : Old(i) \in 1 .. Len(iq) /\ Old(i) # taken
      /\ \A i, j \in 1 .. Len(iq') : Old(i) = Old(j) => i = j
      /\ \A j \in 1 .. Len(iq) : j = taken \/ \E i \in 1 .. Len(iq') : Old(i) = j
  <2>1. ASSUME NEW j \in 1 .. Len(iq), j # taken PROVE \E i \in 1 .. Len(iq') : Old(i) = j
    <3>1. CASE j <= step
      BY SMTT(30), <1>a, <1>1, <3>1
    <3>2. CASE ~(j <= step)
      <4>1. j - 1 \in 1 .. Len(iq') /\ Old(j - 1) = j
        BY <1>a, <1>1, <2>1, <3>2
      <4> QED
        BY <4>1
    <3> QED
      BY <3>1, <3>2
  <2>2. \A i \in 1 .. Len(iq') : Old(i) \in 1 .. Len(iq) /\ Old(i) # taken
    BY <1>a, <1>1
  <2>3. \A i, j \in 1 .. Len(iq') : Old(i) = Old(j) => i = j
    BY <1>1
  <2> HIDE DEF Old
  <2> QED
    BY <2>1, <2>2, <2>3
<1>4. /\ \A k \in 1 .. n : k \in 1 .. last /\ k # last
      /\ \A k \in 1 .. last : k \in 1 .. n \/ k = last
  BY <1>a, <1>1
<1> HIDE DEF Old
<1>5. \A i \in 1 .. Len(iq') :
         /\ <<"iq", i, 0>> \in Live' /\ From(<<"iq", i, 0>>) = <<"iq", Old(i), 0>>
         /\ <<"iq", Old(i), 0>> \in Live
         /\ At(<<"iq", i, 0>>)' = At(<<"iq", Old(i), 0>>)
  BY <1>1, <1>3 DEF Live, At, PlacesOf, InstrOf
<1>6. \A k \in 1 .. n :
         /\ <<"entries", k, 0>> \in Live' /\ From(<<"entries", k, 0>>) = <<"entries", k, 0>>
         /\ <<"entries", k, 0>> \in Live
         /\ At(<<"entries", k, 0>>)' = At(<<"entries", k, 0>>)
  BY <1>a, <1>1, <1>4 DEF Live, At, PlacesOf, InstrOf
<1>7. /\ <<"entries", last, 0>> \in Live' /\ From(<<"entries", last, 0>>) = <<"iq", taken, 0>>
      /\ <<"iq", taken, 0>> \in Live
      /\ At(<<"entries", last, 0>>)' = At(<<"iq", taken, 0>>)
  <2>1. <<"entries", last, 0>> \in Live' /\ <<"iq", taken, 0>> \in Live
    BY <1>1 DEF Live, PlacesOf
  <2>2. At(<<"entries", last, 0>>)' = entries'[last].instr
    BY DEF At, InstrOf
  <2>3. At(<<"iq", taken, 0>>) = iq[taken].instr
    BY DEF At, InstrOf
  <2>4. From(<<"entries", last, 0>>) = <<"iq", taken, 0>>
    OBVIOUS
  <2> QED
    BY <1>1, <2>1, <2>2, <2>3, <2>4
<1>8. \A a \in 1 .. NUM_ALUS, s \in 1 .. ALU_STAGES :
         /\ From(<<"alu", a, s>>) = <<"alu", a, s>>
         /\ <<"alu", a, s>> \in Live' <=> <<"alu", a, s>> \in Live
         /\ At(<<"alu", a, s>>)' = At(<<"alu", a, s>>)
  BY <1>2 DEF Live, At, PlacesOf, InstrOf
<1>9. \A p \in Live' :
         \/ \E i \in 1 .. Len(iq') : p = <<"iq", i, 0>>
         \/ \E k \in 1 .. n : p = <<"entries", k, 0>>
         \/ p = <<"entries", last, 0>>
         \/ \E a \in 1 .. NUM_ALUS, s \in 1 .. ALU_STAGES : p = <<"alu", a, s>>
  <2> SUFFICES ASSUME NEW p \in Live'
               PROVE  \/ \E i \in 1 .. Len(iq') : p = <<"iq", i, 0>>
                      \/ \E k \in 1 .. n : p = <<"entries", k, 0>>
                      \/ p = <<"entries", last, 0>>
                      \/ \E a \in 1 .. NUM_ALUS, s \in 1 .. ALU_STAGES : p = <<"alu", a, s>>
    OBVIOUS
  <2>1. \/ \E i \in 1 .. Len(iq') : p = <<"iq", i, 0>>
        \/ \E i \in 1 .. Len(entries') : p = <<"entries", i, 0>>
        \/ \E a \in 1 .. NUM_ALUS, s \in 1 .. ALU_STAGES : p = <<"alu", a, s>>
    BY PlaceCases DEF Live
  <2> QED
    BY <1>1, <1>4, <2>1
<1> HIDE DEF From
<1>10. ASSUME NEW p \in Live' PROVE From(p) \in Live /\ At(p)' = At(From(p))
  <2>1. CASE \E i \in 1 .. Len(iq') : p = <<"iq", i, 0>>
    BY <1>5, <2>1
  <2>2. CASE \E k \in 1 .. n : p = <<"entries", k, 0>>
    BY <1>6, <2>2
  <2>3. CASE p = <<"entries", last, 0>>
    BY <1>7, <2>3
  <2>4. CASE \E a \in 1 .. NUM_ALUS, s \in 1 .. ALU_STAGES : p = <<"alu", a, s>>
    BY <1>8, <2>4
  <2> QED
    BY <1>9, <2>1, <2>2, <2>3, <2>4
<1>11. ASSUME NEW p \in Live', NEW q \in Live', From(p) = From(q) PROVE p = q
  <2> DEFINE Table(r) ==
                \/ \E i \in 1 .. Len(iq') : r = <<"iq", i, 0>> /\ From(r) = <<"iq", Old(i), 0>>
                \/ \E k \in 1 .. n : r = <<"entries", k, 0>> /\ From(r) = r
                \/ r = <<"entries", last, 0>> /\ From(r) = <<"iq", taken, 0>>
                \/ \E a \in 1 .. NUM_ALUS, s \in 1 .. ALU_STAGES :
                      r = <<"alu", a, s>> /\ From(r) = r
  <2>1. ASSUME NEW r \in Live' PROVE Table(r)
    <3>1. CASE \E i \in 1 .. Len(iq') : r = <<"iq", i, 0>>
      BY <1>5, <3>1
    <3>2. CASE \E k \in 1 .. n : r = <<"entries", k, 0>>
      BY <1>6, <3>2
    <3>3. CASE r = <<"entries", last, 0>>
      BY <1>7, <3>3
    <3>4. CASE \E a \in 1 .. NUM_ALUS, s \in 1 .. ALU_STAGES : r = <<"alu", a, s>>
      BY <1>8, <3>4
    <3> HIDE DEF Table
    <3> QED
      BY <1>9, <3>1, <3>2, <3>3, <3>4
  <2>2. Table(p) /\ Table(q)
    BY <2>1
  <2> QED
    BY <1>3, <1>11, <2>2
<1>12. ASSUME NEW q \in Live PROVE \E p \in Live' : From(p) = q
  <2>1. CASE \E i \in 1 .. Len(iq) : q = <<"iq", i, 0>>
    BY <1>3, <1>5, <1>7, <2>1
  <2>2. CASE \E k \in 1 .. n : q = <<"entries", k, 0>>
    BY <1>6, <2>2
  <2>3. CASE \E a \in 1 .. NUM_ALUS, s \in 1 .. ALU_STAGES : q = <<"alu", a, s>>
    BY <1>8, <2>3
  <2> QED
    BY <1>a, <2>1, <2>2, <2>3, PlaceCases DEF Live
<1> DEFINE from == [p \in Live' |-> From(p)]
<1>13. from \in [Live' -> Live] /\ \A p \in Live' : from[p] = From(p)
  BY <1>10
<1> HIDE DEF from
<1>14. \A p \in Live' : SameInstr(At(p)', At(from[p]))
  BY <1>10, <1>13 DEF SameInstr
<1> QED
  BY <1>11, <1>12, <1>13, <1>14 DEF Carried

\* The ALUs shift: the array enters their first stages, what was written back leaves.
LEMMA IssueCarries ==
    ASSUME TypeOK, IssueToAlus
    PROVE  Carried
<1> DEFINE From(p) == IF p[1] = "alu"
                      THEN IF p[3] = 1 THEN <<"entries", p[2], 0>>
                           ELSE <<"alu", p[2], p[3] - 1>>
                      ELSE p
<1>1. /\ Len(entries) \in Nat /\ Len(entries) <= NUM_ALUS /\ NUM_ALUS \in Nat
      /\ ALU_STAGES \in Nat \ {0} /\ Len(entries') = 0
      /\ \A k \in 1 .. Len(entries) : entries[k].instr \in Renamed
      /\ iq' = iq /\ stage = "select" /\ stage' = "rename"
      /\ alus' = [a \in 1 .. NUM_ALUS |->
                   Pushed(alus[a], IF a <= Len(entries) THEN entries[a].instr ELSE EmptySlot)]
  BY QueueTypes, SizesAssumption DEF TypeOK, IssueToAlus, GoTo
<1>2. WrittenBack = 1 .. NUM_ALUS /\ WrittenBack' = {}
  BY <1>1 DEF WrittenBack
<1>3. \A k \in 1 .. Len(entries) : entries[k].instr.type # "unknown"
  BY <1>1 DEF Renamed, RegOps, ImmOps
<1>4. \A a \in 1 .. NUM_ALUS :
         /\ a \in 1 .. Len(entries) => alus'[a][1] = entries[a].instr
         /\ a \notin 1 .. Len(entries) => alus'[a][1] = EmptySlot
         /\ \A s \in 1 .. ALU_STAGES :
               s # 1 => alus'[a][s] = alus[a][s - 1] /\ s - 1 \in 1 .. ALU_STAGES
                        /\ s - 1 # ALU_STAGES
  BY <1>1 DEF Pushed
<1>5. \A i \in 1 .. Len(iq) :
         /\ <<"iq", i, 0>> \in Live' /\ From(<<"iq", i, 0>>) = <<"iq", i, 0>>
         /\ <<"iq", i, 0>> \in Live /\ At(<<"iq", i, 0>>)' = At(<<"iq", i, 0>>)
  BY <1>1 DEF Live, At, PlacesOf, InstrOf
<1>6. \A a \in 1 .. Len(entries) :
         /\ <<"alu", a, 1>> \in Live' /\ From(<<"alu", a, 1>>) = <<"entries", a, 0>>
         /\ <<"entries", a, 0>> \in Live
         /\ At(<<"alu", a, 1>>)' = At(<<"entries", a, 0>>)
  <2> SUFFICES ASSUME NEW a \in 1 .. Len(entries)
               PROVE  /\ <<"alu", a, 1>> \in Live' /\ From(<<"alu", a, 1>>) = <<"entries", a, 0>>
                      /\ <<"entries", a, 0>> \in Live
                      /\ At(<<"alu", a, 1>>)' = At(<<"entries", a, 0>>)
    OBVIOUS
  <2>1. a \in 1 .. NUM_ALUS /\ 1 \in 1 .. ALU_STAGES
    BY <1>1
  <2>2. alus'[a][1] = entries[a].instr /\ alus'[a][1].type # "unknown" /\ a \notin WrittenBack'
    BY <1>2, <1>3, <1>4, <2>1
  <2> QED
    BY <2>1, <2>2 DEF Live, At, PlacesOf, InstrOf
<1>7. \A a \in 1 .. NUM_ALUS, s \in 1 .. ALU_STAGES : s # 1 =>
         /\ From(<<"alu", a, s>>) = <<"alu", a, s - 1>>
         /\ <<"alu", a, s>> \in Live' => <<"alu", a, s - 1>> \in Live
         /\ At(<<"alu", a, s>>)' = At(<<"alu", a, s - 1>>)
  <2> SUFFICES ASSUME NEW a \in 1 .. NUM_ALUS, NEW s \in 1 .. ALU_STAGES, s # 1
               PROVE  /\ From(<<"alu", a, s>>) = <<"alu", a, s - 1>>
                      /\ <<"alu", a, s>> \in Live' => <<"alu", a, s - 1>> \in Live
                      /\ At(<<"alu", a, s>>)' = At(<<"alu", a, s - 1>>)
    OBVIOUS
  <2>1. alus'[a][s] = alus[a][s - 1] /\ s - 1 \in 1 .. ALU_STAGES /\ s - 1 # ALU_STAGES
    BY <1>4
  <2>2. <<"alu", a, s>> \in Live' => alus'[a][s].type # "unknown"
    BY DEF Live, PlacesOf
  <2> QED
    BY <2>1, <2>2 DEF Live, At, PlacesOf, InstrOf
<1>8. \A p \in Live' :
         \/ \E i \in 1 .. Len(iq) : p = <<"iq", i, 0>>
         \/ \E a \in 1 .. Len(entries) : p = <<"alu", a, 1>>
         \/ \E a \in 1 .. NUM_ALUS, s \in 1 .. ALU_STAGES : p = <<"alu", a, s>> /\ s # 1
  <2> SUFFICES ASSUME NEW p \in Live'
               PROVE  \/ \E i \in 1 .. Len(iq) : p = <<"iq", i, 0>>
                      \/ \E a \in 1 .. Len(entries) : p = <<"alu", a, 1>>
                      \/ \E a \in 1 .. NUM_ALUS, s \in 1 .. ALU_STAGES :
                            p = <<"alu", a, s>> /\ s # 1
    OBVIOUS
  <2>1. \/ \E i \in 1 .. Len(iq') : p = <<"iq", i, 0>>
        \/ \E i \in 1 .. Len(entries') : p = <<"entries", i, 0>>
        \/ \E a \in 1 .. NUM_ALUS, s \in 1 .. ALU_STAGES :
              p = <<"alu", a, s>> /\ alus'[a][s].type # "unknown"
    BY PlaceCases DEF Live
  <2>2. ~\E i \in 1 .. Len(entries') : p = <<"entries", i, 0>>
    BY <1>1
  <2>3. \A a \in 1 .. NUM_ALUS : alus'[a][1].type # "unknown" => a \in 1 .. Len(entries)
    BY <1>4 DEF EmptySlot
  <2> QED
    BY <1>1, <2>1, <2>2, <2>3
<1>9. \A p \in Live' : From(p) \in Live /\ At(p)' = At(From(p))
  <2> HIDE DEF From
  <2> QED
    BY <1>5, <1>6, <1>7, <1>8
<1>10. ASSUME NEW p \in Live', NEW q \in Live', From(p) = From(q) PROVE p = q
  <2>1. \A s, r \in 1 .. ALU_STAGES : s - 1 = r - 1 => s = r
    BY <1>1
  <2> HIDE DEF From
  <2>2. ASSUME NEW r \in Live'
        PROVE  \/ \E i \in 1 .. Len(iq) : r = <<"iq", i, 0>> /\ From(r) = <<"iq", i, 0>>
               \/ \E a \in 1 .. Len(entries) :
                     r = <<"alu", a, 1>> /\ From(r) = <<"entries", a, 0>>
               \/ \E a \in 1 .. NUM_ALUS, s \in 1 .. ALU_STAGES :
                     r = <<"alu", a, s>> /\ From(r) = <<"alu", a, s - 1>>
    <3>1. CASE \E i \in 1 .. Len(iq) : r = <<"iq", i, 0>>
      BY <1>5, <3>1
    <3>2. CASE \E a \in 1 .. Len(entries) : r = <<"alu", a, 1>>
      BY <1>6, <3>2
    <3>3. CASE \E a \in 1 .. NUM_ALUS, s \in 1 .. ALU_STAGES : r = <<"alu", a, s>> /\ s # 1
      BY <1>7, <3>3
    <3> QED
      BY <1>8, <3>1, <3>2, <3>3
  <2>3. CASE \E i \in 1 .. Len(iq) : p = <<"iq", i, 0>> /\ From(p) = <<"iq", i, 0>>
    BY <1>10, <2>2, <2>3
  <2>4. CASE \E a \in 1 .. Len(entries) :
                p = <<"alu", a, 1>> /\ From(p) = <<"entries", a, 0>>
    BY <1>10, <2>2, <2>4
  <2>5. CASE \E a \in 1 .. NUM_ALUS, s \in 1 .. ALU_STAGES :
                p = <<"alu", a, s>> /\ From(p) = <<"alu", a, s - 1>>
    BY <1>10, <2>1, <2>2, <2>5
  <2> QED
    BY <2>2, <2>3, <2>4, <2>5
<1>11. ASSUME NEW q \in Live PROVE \E p \in Live' : From(p) = q
  <2>1. CASE \E i \in 1 .. Len(iq) : q = <<"iq", i, 0>>
    BY <1>5, <2>1
  <2>2. CASE \E a \in 1 .. Len(entries) : q = <<"entries", a, 0>>
    BY <1>6, <2>2
  <2>3. CASE \E a \in 1 .. NUM_ALUS, s \in 1 .. ALU_STAGES :
                /\ q = <<"alu", a, s>> /\ alus[a][s].type # "unknown"
                /\ ~(s = ALU_STAGES /\ a \in WrittenBack)
    <3>1. PICK a \in 1 .. NUM_ALUS, s \in 1 .. ALU_STAGES :
                /\ q = <<"alu", a, s>> /\ alus[a][s].type # "unknown"
                /\ ~(s = ALU_STAGES /\ a \in WrittenBack)
      BY <2>3
    <3>2. s + 1 \in 1 .. ALU_STAGES /\ s + 1 # 1 /\ (s + 1) - 1 = s
      BY <1>1, <1>2, <3>1
    <3>3. alus'[a][s + 1] = alus[a][s] /\ a \notin WrittenBack'
      BY <1>2, <1>4, <3>2
    <3>4. <<"alu", a, s + 1>> \in Live'
      BY <3>1, <3>2, <3>3 DEF Live, PlacesOf
    <3> QED
      BY <1>7, <3>1, <3>2, <3>4
  <2> QED
    BY <2>1, <2>2, <2>3, PlaceCases DEF Live
<1> HIDE DEF From
<1> DEFINE from == [p \in Live' |-> From(p)]
<1>12. from \in [Live' -> Live] /\ \A p \in Live' : from[p] = From(p)
  BY <1>9
<1> HIDE DEF from
<1>13. \A p \in Live' : SameInstr(At(p)', At(from[p]))
  BY <1>9, <1>12 DEF SameInstr
<1> QED
  BY <1>10, <1>11, <1>12, <1>13 DEF Carried
\* Every step but these three only carries instructions on.
LEMMA OthersCarry ==
    ASSUME TypeOK, [Next]_vars, ~RaiseException, ~RenameInstr, ~WriteBack
    PROVE  Carried
<1> USE DEF archVars, issueVars, endVars, vars
<1>1. CASE UNCHANGED vars \/ Terminated
  BY <1>1, UnmovedCarried DEF Terminated, WrittenBack
<1>2. CASE CommitInstr \/ CommitDone \/ LeaveException \/ RecoverInstr \/ RecoverDone
  <2>1. UNCHANGED <<iq, entries, alus>>
    BY <1>2 DEF CommitInstr, CommitDone, LeaveException, RecoverInstr, RecoverDone
  <2>2. stage = "commit" /\ stage' \in {"commit", "execute"}
    BY <1>2 DEF CommitInstr, CommitDone, LeaveException, RecoverInstr, RecoverDone,
                AtCommit, GoTo, Iterate, Abort
  <2> QED
    BY <2>1, <2>2, UnmovedCarried DEF WrittenBack
<1>3. CASE AluCycles
  BY <1>3, ExecuteCarries
<1>4. CASE RefreshReady
  BY <1>4, RefreshCarries
<1>5. CASE TakeReady
  BY <1>5, TakeCarries
<1>6. CASE PassWaiting
  BY <1>6, UnmovedCarried DEF PassWaiting, Scanning, Iterate, WrittenBack
<1>7. CASE IssueToAlus
  BY <1>7, IssueCarries
<1>8. CASE CheckResources \/ DispatchDone \/ FetchDecodeCycle
  <2>1. UNCHANGED <<iq, entries, alus>>
    BY <1>8 DEF CheckResources, DispatchDone, FetchDecodeCycle
  <2>2. /\ stage \in {"rename", "dispatch", "fetch"}
        /\ stage' \in {"dispatch", "fetch", "commit", "end"}
    BY <1>8 DEF CheckResources, DispatchDone, FetchDecodeCycle, GoTo
  <2> QED
    BY <2>1, <2>2, UnmovedCarried DEF WrittenBack
<1> QED
  BY <1>1, <1>2, <1>3, <1>4, <1>5, <1>6, <1>7, <1>8
  DEF Next, CommitCycle, IssueCycle, RenameDispatchCycle

\* A renamed instruction enters at the end of the queue.
LEMMA RenamePlaces ==
    ASSUME TypeOK, stage = "dispatch", stage' = "dispatch",
           NEW read, iq' = Append(iq, read), UNCHANGED <<entries, alus>>
    PROVE  \E new \in Live' :
              /\ new \notin Live /\ Live' = Live \cup {new} /\ At(new)' = read.instr
              /\ \A p \in Live : At(p)' = At(p)
<1>0. Len(iq) \in Nat /\ Len(iq) + 1 \in Nat
  BY DEF TypeOK
<1>1. PICK n \in Nat, last \in Nat : n = Len(iq) /\ last = n + 1
  BY <1>0
<1>2. /\ Len(iq') = last /\ iq'[last] = read /\ \A i \in 1 .. n : iq'[i] = iq[i]
      /\ WrittenBack = {} /\ WrittenBack' = {}
  BY <1>1 DEF TypeOK, WrittenBack
<1>3. 1 .. last = (1 .. n) \cup {last} /\ last \notin 1 .. n
  BY <1>1
<1>4. Live' = Live \cup {<<"iq", last, 0>>}
  BY <1>1, <1>2, <1>3 DEF Live, PlacesOf
<1>5. <<"iq", last, 0>> \notin Live
  BY <1>1, <1>3 DEF Live, PlacesOf
<1>6. At(<<"iq", last, 0>>)' = read.instr
  BY <1>2 DEF At, InstrOf
<1>7. ASSUME NEW p \in Live PROVE At(p)' = At(p)
  <2>1. CASE \E i \in 1 .. n : p = <<"iq", i, 0>>
    <3>1. PICK i \in 1 .. n : p = <<"iq", i, 0>>
      BY <2>1
    <3>2. At(<<"iq", i, 0>>)' = iq'[i].instr /\ At(<<"iq", i, 0>>) = iq[i].instr
      BY DEF At, InstrOf
    <3> QED
      BY <1>2, <3>1, <3>2
  <2>2. CASE \E i \in 1 .. Len(entries) : p = <<"entries", i, 0>>
    BY <2>2 DEF At, InstrOf
  <2>3. CASE \E a \in 1 .. NUM_ALUS, s \in 1 .. ALU_STAGES : p = <<"alu", a, s>>
    BY <2>3 DEF At, InstrOf
  <2> QED
    BY <1>1, <2>1, <2>2, <2>3, PlaceCases DEF Live
<1> QED
  BY <1>4, <1>5, <1>6, <1>7

\* Write-back empties the last stage of one ALU.
LEMMA WriteBackPlaces ==
    ASSUME TypeOK, Accounting, WriteBack
    PROVE  /\ step + 1 \in 1 .. NUM_ALUS /\ ALU_STAGES \in 1 .. ALU_STAGES
           /\ Forwarded(step + 1) \in Renamed \cup {EmptySlot}
           /\ Live' = Live \ {<<"alu", step + 1, ALU_STAGES>>}
           /\ \A p \in Live : At(p)' = At(p)
           /\ Forwarded(step + 1).type # "unknown" =>
                 /\ <<"alu", step + 1, ALU_STAGES>> \in Live
                 /\ At(<<"alu", step + 1, ALU_STAGES>>) = Forwarded(step + 1)
           /\ Forwarded(step + 1).type = "unknown" => Live' = Live
<1>0. step + 1 \in 1 .. NUM_ALUS /\ ALU_STAGES \in 1 .. ALU_STAGES /\ step \in Nat
      /\ NUM_ALUS \in Nat
  BY SizesAssumption DEF TypeOK, Accounting, WriteBack
<1>1. PICK u \in 1 .. NUM_ALUS : u = step + 1
  BY <1>0
<1>2. /\ WrittenBack = 1 .. step /\ WrittenBack' = 1 .. u /\ UNCHANGED <<iq, entries, alus>>
  <2>1. CASE step + 1 < NUM_ALUS
    BY <1>1, <2>1 DEF WriteBack, IterateUpTo, Iterate, WrittenBack, issueVars
  <2>2. CASE ~(step + 1 < NUM_ALUS)
    <3>1. u = NUM_ALUS
      BY <1>0, <1>1, <2>2
    <3> QED
      BY <2>2, <3>1 DEF WriteBack, IterateUpTo, GoTo, WrittenBack, issueVars
  <2> QED
    BY <2>1, <2>2
<1>3. 1 .. u = (1 .. step) \cup {u} /\ u \notin 1 .. step
  BY <1>0, <1>1
<1>4. Live' = Live \ {<<"alu", u, ALU_STAGES>>}
  BY <1>2, <1>3 DEF Live, PlacesOf
<1>5. \A p \in Live : At(p)' = At(p)
  BY <1>2 DEF At
<1>6. Forwarded(u) \in Renamed \cup {EmptySlot} /\ At(<<"alu", u, ALU_STAGES>>) = Forwarded(u)
  BY <1>0 DEF TypeOK, Forwarded, At, InstrOf
<1>7. <<"alu", u, ALU_STAGES>> \in Live <=> Forwarded(u).type # "unknown"
  BY <1>0, <1>2, <1>3 DEF Live, PlacesOf, Forwarded
<1> QED
  BY <1>0, <1>1, <1>4, <1>5, <1>6, <1>7
-----------------------------------------------------------------------------
(***************************************************************************)
(* The map at a position of the active list, step by step.                 *)
(***************************************************************************)

\* A committed instruction takes its position with it.
LEMMA MapAtCommit ==
    ASSUME TypeOK, Accounting, CommitInstr, NEW i \in Nat, i > 0, NEW l
    PROVE  MapAt(i, l)' = MapAt(i + 1, l)
<1>1. /\ Len(active_list') \in Nat /\ Len(active_list) = Len(active_list') + 1
      /\ \A k \in 1 .. Len(active_list') : active_list'[k] = active_list[k + 1]
      /\ logical' = logical
  BY CommitMoves
<1>2. SameWriters(active_list', active_list, i, 1)
  BY <1>1 DEF SameWriters
<1>3. MapOf(active_list', logical', i, l) = MapOf(active_list, logical, i + 1, l)
  <2>1. 1 \in Nat /\ logical'[l] = logical[l]
    BY <1>1
  <2> QED
    BY SMTT(30), <1>1, <1>2, <2>1, MapOfShifted
<1> QED
  BY <1>3 DEF MapAt

\* The steps that leave the registers of the active list alone.
LEMMA MapAtKept ==
    ASSUME TypeOK, Accounting, [Next]_vars, ~CommitInstr, ~RecoverInstr, ~RenameInstr,
           NEW i \in Nat, i > 0, NEW l
    PROVE  MapAt(i, l)' = MapAt(i, l)
<1>1. /\ Len(active_list) \in Nat /\ Len(active_list') = Len(active_list)
      /\ \A k \in 1 .. Len(active_list) :
            /\ active_list'[k].log_dest = active_list[k].log_dest
            /\ active_list'[k].old_phy_dest = active_list[k].old_phy_dest
      /\ logical' = logical
  BY OtherSteps DEF TypeOK
<1>2. /\ WritersFrom(active_list', i, l) = WritersFrom(active_list, i, l)
      /\ WritersFrom(active_list, i, l) \subseteq i .. Len(active_list)
  BY <1>1 DEF WritersFrom
<1>3. CASE WritersFrom(active_list, i, l) = {}
  BY <1>1, <1>2, <1>3 DEF MapAt, MapOf
<1>4. CASE WritersFrom(active_list, i, l) # {}
  <2>1. Min(WritersFrom(active_list, i, l)) \in 1 .. Len(active_list)
    <3>1. WritersFrom(active_list, i, l) \subseteq Nat
      BY <1>1, <1>2
    <3>2. Min(WritersFrom(active_list, i, l)) \in WritersFrom(active_list, i, l)
      BY <1>4, <3>1, MinExists
    <3> QED
      BY <1>1, <1>2, <3>2
  <2> QED
    BY <1>1, <1>2, <1>4, <2>1 DEF MapAt, MapOf
<1> QED
  BY <1>3, <1>4

\* Undoing the youngest instruction changes the map of none before it.
LEMMA MapAtRecover ==
    ASSUME TypeOK, Accounting, RecoverInstr, NEW i \in 1 .. Len(active_list), NEW l \in LogReg
    PROVE  MapAt(i, l)' = MapAt(i, l)
<1> DEFINE n == Len(active_list)
           undone == active_list[n]
<1>1. /\ n \in Nat \ {0} /\ Len(active_list') = n - 1 /\ i \in Nat
      /\ \A k \in 1 .. n - 1 : active_list'[k] = active_list[k]
      /\ undone.log_dest \in LogReg
      /\ logical' = [logical EXCEPT ![undone.log_dest] = undone.old_phy_dest]
      /\ logical \in [LogReg -> PhyReg]
  BY RecoverMoves DEF TypeOK
<1>2. /\ Len(active_list') \in Nat /\ n = Len(active_list') + 1
      /\ i <= Len(active_list') + 1
  BY <1>1
<1>3. SameWriters(active_list', active_list, i, 0)
  BY <1>1 DEF SameWriters
<1>4. Replaces(active_list, logical, logical', l)
  BY <1>1 DEF Replaces
<1>5. MapOf(active_list', logical', i, l) = MapOf(active_list, logical, i, l)
  BY <1>1, <1>2, <1>3, <1>4, MapOfExtended
<1> QED
  BY <1>5 DEF MapAt

\* Renaming the next instruction changes the map of none before it; its own is the
\* map before the step.
LEMMA MapAtDispatch ==
    ASSUME TypeOK, Accounting, RenameInstr,
           NEW i \in 1 .. Len(active_list) + 1, NEW l \in LogReg
    PROVE  /\ MapAt(i, l)' = MapAt(i, l)
           /\ MapAt(Len(active_list) + 1, l) = logical[l]
<1> DEFINE n == Len(active_list)
           dest == Head(free_list)
           entry == NewActiveEntry(Head(dir), dest)
<1>0. n \in Nat /\ logical \in [LogReg -> PhyReg] /\ i \in Nat
  BY DEF TypeOK
<1>1. ASSUME UNCHANGED <<active_list, logical, free_list, is_busy>>
      PROVE  MapAt(i, l)' = MapAt(i, l)
  BY <1>1 DEF MapAt
<1>2. ASSUME Len(active_list') = n + 1, active_list'[n + 1] = entry,
             \A k \in 1 .. n : active_list'[k] = active_list[k],
             entry.log_dest \in LogReg,
             entry.old_phy_dest = logical[entry.log_dest],
             logical' = [logical EXCEPT ![entry.log_dest] = dest]
      PROVE  MapAt(i, l)' = MapAt(i, l)
  <2> HIDE DEF entry, dest
  <2>1. SameWriters(active_list, active_list', i, 0)
    BY <1>0, <1>2 DEF SameWriters
  <2>2. Replaces(active_list', logical', logical, l)
    BY <1>0, <1>2 DEF Replaces
  <2>3. i <= n + 1
    BY <1>0
  <2>4. MapOf(active_list, logical, i, l) = MapOf(active_list', logical', i, l)
    BY <1>0, <1>2, <2>1, <2>2, <2>3, MapOfExtended
  <2> QED
    BY <2>4 DEF MapAt
<1>3. MapAt(i, l)' = MapAt(i, l)
  BY <1>1, <1>2, DispatchMoves
<1>4. NoWriter(active_list, n + 1, l)
  BY <1>0 DEF NoWriter
<1>5. MapAt(n + 1, l) = logical[l]
  BY <1>4, MapOfNone DEF MapAt
<1> QED
  BY <1>3, <1>5
-----------------------------------------------------------------------------
(***************************************************************************)
(* Every unfinished instruction is in one place, renamed with the map of   *)
(* its position in the active list.                                        *)
(***************************************************************************)

\* The address of the oldest instruction in flight.
Base == pc - Len(active_list) - Len(dir)

\* The active list holds the instructions before the DIR.
ActiveInOrder == \A i \in 1 .. Len(active_list) : active_list[i].pc = Base + i - 1

\* No instruction is in two places.
OnePlace == \A p, q \in Live : At(p).pc = At(q).pc => p = q

\* An instruction in place belongs to the unfinished entry i of the active list, with
\* the operands that the map named there.
RenamedAt(i, instr) ==
    LET source == InstructionAt(instr.pc)
    IN  /\ instr.type = source.type
        /\ instr.dest = active_list[i].curr_phy_dest
        /\ instr.opA = MapAt(i, source.opA)
        /\ IF source.type \in ImmOps THEN instr.valB = source.opB
           ELSE instr.opB = MapAt(i, source.opB)
InFlightAt(i, instr) ==
    /\ i \in 1 .. Len(active_list)
    /\ active_list[i].pc = instr.pc /\ ~active_list[i].is_done
    /\ RenamedAt(i, instr)
AllInFlight == \A p \in Live : \E i \in 1 .. Len(active_list) : InFlightAt(i, At(p))

\* No unfinished instruction is lost.
AllPending ==
    \A i \in 1 .. Len(active_list) :
        active_list[i].is_done \/ \E p \in Live : At(p).pc = active_list[i].pc

\* The entries of the active list: only a finished instruction has raised an
\* exception, and its logical register is the one the program names.
EntriesInv ==
    \A i \in 1 .. Len(active_list) :
        /\ active_list[i].is_exception => active_list[i].is_done
        /\ active_list[i].log_dest = InstructionAt(active_list[i].pc).dest

LocatedInv == ActiveInOrder /\ OnePlace /\ AllInFlight /\ AllPending /\ EntriesInv
Located == ~exception_mode => LocatedInv

\* The addresses in flight are addresses of the program.
LEMMA SourceTypes ==
    ASSUME TypeOK, ActiveInOrder, pc <= Len(program), NEW i \in 1 .. Len(active_list)
    PROVE  LET source == InstructionAt(active_list[i].pc)
           IN  /\ active_list[i].pc \in 0 .. Len(program) - 1
               /\ source \in AnyInstruction
               /\ source.opA \in LogReg /\ source.dest \in LogReg
               /\ source.type \in RegOps \cup ImmOps
               /\ source.type \notin ImmOps => source.opB \in LogReg
               /\ source.type \in ImmOps => source.opB \in Word
<1> DEFINE source == InstructionAt(active_list[i].pc)
<1>1. active_list[i].pc \in 0 .. Len(program) - 1
  <2>1. /\ active_list[i].pc \in Nat /\ Len(active_list) \in Nat /\ Len(dir) \in Nat
        /\ pc \in Nat /\ Len(program) \in Nat
    BY QueueTypes
  <2>2. active_list[i].pc = pc - Len(active_list) - Len(dir) + i - 1
    BY DEF ActiveInOrder, Base
  <2> QED
    BY <2>1, <2>2
<1>2. source \in AnyInstruction
  BY <1>1 DEF TypeOK, InstructionAt
<1> HIDE DEF source
<1>3. /\ source.opA \in LogReg /\ source.dest \in LogReg
      /\ source.type \in RegOps \cup ImmOps
      /\ source.type \notin ImmOps => source.opB \in LogReg
      /\ source.type \in ImmOps => source.opB \in Word
  BY <1>2 DEF AnyInstruction, RegInstruction, ImmInstruction, RegOps, ImmOps
<1> QED
  BY <1>1, <1>2, <1>3 DEF source

\* What a step of Carried does to the places, when the active list loses its d
\* oldest, finished entries.
LEMMA LocatedCarried ==
    ASSUME TypeOK, LocatedInv, Carried, NEW d \in {0, 1}, program' = program,
           Base' = Base + d, Len(active_list') = Len(active_list) - d,
           \A i \in 1 .. Len(active_list') : active_list'[i] = active_list[i + d],
           \A i \in 1 .. Len(active_list'), l \in LogReg : MapAt(i, l)' = MapAt(i + d, l),
           d = 1 => active_list[1].is_done,
           pc <= Len(program)
    PROVE  LocatedInv'
<1> DEFINE n == Len(active_list)
           m == Len(active_list')
<1>a. /\ n \in Nat /\ m = n - d /\ Base \in Int /\ Base' = Base + d
      /\ \A i \in 1 .. m : i + d \in 1 .. n /\ active_list'[i] = active_list[i + d]
  <2>1. n \in Nat /\ Base \in Int /\ d \in Int
    BY QueueTypes DEF Base
  <2>2. m = n - d /\ m \in Int /\ \A i \in 1 .. m : i + d \in 1 .. n
    BY <2>1
  <2> QED
    BY <2>1, <2>2
<1>b. /\ ActiveInOrder /\ OnePlace /\ AllInFlight /\ AllPending /\ EntriesInv
  BY DEF LocatedInv
<1>c. PICK from \in [Live' -> Live] :
         /\ \A p \in Live' : SameInstr(At(p)', At(from[p]))
         /\ \A p, q \in Live' : from[p] = from[q] => p = q
         /\ \A q \in Live : \E p \in Live' : from[p] = q
  BY DEF Carried
<1>1. ActiveInOrder'
  <2> SUFFICES ASSUME NEW i \in 1 .. m PROVE active_list'[i].pc = Base' + i - 1
    BY DEF ActiveInOrder
  <2>1. active_list'[i] = active_list[i + d] /\ active_list[i + d].pc = Base + (i + d) - 1
    BY <1>a, <1>b DEF ActiveInOrder
  <2> QED
    BY <1>a, <2>1
<1>2. OnePlace'
  BY <1>b, <1>c DEF OnePlace, SameInstr
<1>3. AllInFlight'
  <2> SUFFICES ASSUME NEW p \in Live'
               PROVE  \E i \in 1 .. m : InFlightAt(i, At(p))'
    BY DEF AllInFlight
  <2>1. from[p] \in Live /\ SameInstr(At(p)', At(from[p]))
    BY <1>c
  <2>2. PICK j \in 1 .. n : InFlightAt(j, At(from[p]))
    BY <1>b, <2>1 DEF AllInFlight
  <2>3. j - d \in 1 .. m /\ (j - d) + d = j
    <3>1. ~(d = 1 /\ j = 1)
      BY <2>2 DEF InFlightAt
    <3> QED
      BY <1>a, <3>1
  <2>4. PICK i \in 1 .. m : i + d = j
    BY <2>3
  <2>5. /\ active_list'[i] = active_list[j]
        /\ \A l \in LogReg : MapAt(i, l)' = MapAt(j, l)
    BY <1>a, <2>4
  <2>6. LET source == InstructionAt(active_list[j].pc)
        IN  source.opA \in LogReg /\ (source.type \notin ImmOps => source.opB \in LogReg)
    BY <1>b, SourceTypes
  <2>7. At(p)'.pc = active_list[j].pc /\ At(from[p]).pc = active_list[j].pc
    BY <2>1, <2>2 DEF InFlightAt, SameInstr
  <2> DEFINE source == InstructionAt(active_list[j].pc)
  <2>8. /\ At(p)'.type = source.type /\ At(p)'.dest = active_list[j].curr_phy_dest
        /\ At(p)'.opA = MapAt(j, source.opA)
        /\ IF source.type \in ImmOps THEN At(p)'.valB = source.opB
           ELSE At(p)'.opB = MapAt(j, source.opB)
    BY <2>1, <2>2, <2>7 DEF InFlightAt, RenamedAt, SameInstr
  <2>9. InstructionAt(At(p).pc)' = source
    BY <2>7 DEF InstructionAt
  <2> HIDE DEF source
  <2>10. RenamedAt(i, At(p))'
    BY <2>5, <2>6, <2>8, <2>9 DEF RenamedAt, source
  <2> QED
    BY <2>2, <2>5, <2>7, <2>10 DEF InFlightAt
<1>4. AllPending'
  <2> SUFFICES ASSUME NEW i \in 1 .. m, ~active_list'[i].is_done
               PROVE  \E p \in Live' : At(p)'.pc = active_list'[i].pc
    BY DEF AllPending
  <2>1. PICK q \in Live : At(q).pc = active_list[i + d].pc
    BY <1>a, <1>b DEF AllPending
  <2>2. PICK p \in Live' : from[p] = q
    BY <1>c
  <2> QED
    BY <1>a, <1>c, <2>1, <2>2 DEF SameInstr
<1>5. EntriesInv'
  BY <1>a, <1>b DEF EntriesInv, InstructionAt
<1> QED
  BY <1>1, <1>2, <1>3, <1>4, <1>5 DEF LocatedInv
\* Addresses identify the entries of the active list.
LEMMA AddressesDiffer ==
    ASSUME TypeOK, ActiveInOrder,
           NEW i \in 1 .. Len(active_list), NEW j \in 1 .. Len(active_list),
           active_list[i].pc = active_list[j].pc
    PROVE  i = j
<1>1. Base \in Int /\ i \in Int /\ j \in Int
  BY QueueTypes DEF Base
<1>2. active_list[i].pc = Base + i - 1 /\ active_list[j].pc = Base + j - 1
  BY DEF ActiveInOrder
<1>3. Base + i - 1 = Base + j - 1
  BY <1>2
<1> QED
  BY <1>1, <1>3

\* Write-back of an instruction in place marks its own entry only.
LEMMA WriteBackMarks ==
    ASSUME TypeOK, Accounting, LocatedInv, WriteBack
    PROVE  LET instr == Forwarded(step + 1)
           IN  /\ logical' = logical /\ program' = program /\ pc' = pc /\ dir' = dir
               /\ exception_mode' = exception_mode
               /\ instr.type = "unknown" => UNCHANGED <<active_list, physical, is_busy>>
               /\ instr.type # "unknown" =>
                     /\ physical' = [physical EXCEPT ![instr.dest] = instr.value]
                     /\ is_busy' = [is_busy EXCEPT ![instr.dest] = instr.is_exception]
                     /\ \E i \in 1 .. Len(active_list) :
                        /\ InFlightAt(i, instr)
                        /\ Len(active_list') = Len(active_list)
                        /\ \A j \in 1 .. Len(active_list) :
                              j # i => active_list'[j] = active_list[j]
                        /\ active_list'[i] = [active_list[i] EXCEPT
                              !.is_done = TRUE, !.is_exception = @ \/ instr.is_exception]
<1> DEFINE instr == Forwarded(step + 1)
<1>1. /\ logical' = logical /\ program' = program /\ pc' = pc /\ dir' = dir
      /\ exception_mode' = exception_mode
  BY DEF WriteBack, archVars, endVars
<1>2. CASE instr.type = "unknown"
  <2>1. UNCHANGED <<active_list, physical, is_busy>>
    BY <1>2 DEF WriteBack
  <2> QED
    BY <1>1, <1>2, <2>1
<1>3. CASE instr.type # "unknown"
  <2>1. /\ physical' = [physical EXCEPT ![instr.dest] = instr.value]
        /\ is_busy' = [is_busy EXCEPT ![instr.dest] = instr.is_exception]
        /\ MarkDone(instr.pc, instr.is_exception)
    BY <1>3 DEF WriteBack, BusyAfter
  <2>2. \E p \in Live : At(p) = instr
    BY <1>3, WriteBackPlaces
  <2>3. PICK i \in 1 .. Len(active_list) : InFlightAt(i, instr)
    BY <2>2 DEF LocatedInv, AllInFlight
  <2> HIDE DEF instr
  <2>4. \A j \in 1 .. Len(active_list) : IsFirstAt(j, instr.pc) => j = i
    BY <2>3, AddressesDiffer DEF LocatedInv, IsFirstAt, InFlightAt
  <2>5. IsFirstAt(i, instr.pc)
    <3>1. \A j \in 1 .. i - 1 : j \in 1 .. Len(active_list) /\ j # i
      BY QueueTypes
    <3> QED
      BY <2>3, <3>1, AddressesDiffer DEF LocatedInv, IsFirstAt, InFlightAt
  <2>6. /\ Len(active_list') = Len(active_list)
        /\ \A j \in 1 .. Len(active_list) : j # i => active_list'[j] = active_list[j]
        /\ active_list'[i] = [active_list[i] EXCEPT
               !.is_done = TRUE, !.is_exception = @ \/ instr.is_exception]
    <3>1. active_list' = [j \in 1 .. Len(active_list) |->
             IF IsFirstAt(j, instr.pc)
             THEN [active_list[j] EXCEPT !.is_done = TRUE,
                                         !.is_exception = @ \/ instr.is_exception]
             ELSE active_list[j]]
      BY <2>1, Zenon DEF MarkDone
    <3>2. Len(active_list') = Len(active_list)
      <4>1. instr \in Renamed \cup {EmptySlot}
        BY WriteBackPlaces DEF instr
      <4>2. instr.is_exception \in BOOLEAN
        <5>1. CASE instr \in Renamed
          BY <5>1 DEF Renamed
        <5>2. CASE instr = EmptySlot
          BY <5>2 DEF EmptySlot
        <5> QED
          BY <4>1, <5>1, <5>2
      <4>3. active_list \in Seq(ActiveEntry)
        BY DEF TypeOK
      <4> QED
        BY <2>1, <4>2, <4>3, MarkDoneType
    <3>3. \A j \in 1 .. Len(active_list) : j # i => active_list'[j] = active_list[j]
      BY <2>4, <3>1, Zenon
    <3>4. active_list'[i] = [active_list[i] EXCEPT
               !.is_done = TRUE, !.is_exception = @ \/ instr.is_exception]
      BY <2>5, <3>1, Zenon
    <3> QED
      BY <3>2, <3>3, <3>4
  <2>7. \E j \in 1 .. Len(active_list) :
           /\ InFlightAt(j, instr) /\ Len(active_list') = Len(active_list)
           /\ \A k \in 1 .. Len(active_list) : k # j => active_list'[k] = active_list[k]
           /\ active_list'[j] = [active_list[j] EXCEPT
                 !.is_done = TRUE, !.is_exception = @ \/ instr.is_exception]
    BY <2>3, <2>6, Zenon
  <2> QED
    BY <1>1, <1>3, <2>1, <2>7, Zenon DEF instr
<1> QED
  BY <1>2, <1>3

\* Write-back keeps the rest in place.
LEMMA LocatedWriteBack ==
    ASSUME TypeOK, Accounting, LocatedInv, WriteBack, pc <= Len(program), [Next]_vars
    PROVE  LocatedInv'
<1> DEFINE instr == Forwarded(step + 1)
           n == Len(active_list)
<1>a. /\ ActiveInOrder /\ OnePlace /\ AllInFlight /\ AllPending /\ EntriesInv
  BY DEF LocatedInv
<1>b. /\ program' = program /\ pc' = pc /\ dir' = dir /\ n \in Nat
  BY WriteBackMarks, QueueTypes
<1>c. \A i \in 1 .. n, l \in LogReg : MapAt(i, l)' = MapAt(i, l)
  <2>1. ~CommitInstr /\ ~RecoverInstr /\ ~RenameInstr
    BY DEF WriteBack, CommitInstr, RecoverInstr, RenameInstr, AtCommit
  <2>2. \A i \in 1 .. n : i \in Nat /\ i > 0
    BY <1>b
  <2> QED
    BY <2>1, <2>2, MapAtKept
<1>1. CASE instr.type = "unknown"
  <2>1. Live' = Live /\ (\A p \in Live : At(p)' = At(p)) /\ active_list' = active_list
    BY <1>1, WriteBackPlaces, WriteBackMarks
  <2>2. Carried
    <3>1. [p \in Live |-> p] \in [Live' -> Live]
      BY <2>1
    <3> QED
      BY <2>1, <3>1 DEF Carried, SameInstr
  <2>3. Base' = Base + 0 /\ \A i \in 1 .. n : active_list'[i] = active_list[i + 0]
    BY <1>b, <2>1, QueueTypes DEF Base
  <2>4. \A i \in 1 .. n, l \in LogReg : MapAt(i, l)' = MapAt(i + 0, l)
    <3>1. \A i \in 1 .. n : i + 0 = i
      BY <1>b
    <3> QED
      BY <1>c, <3>1
  <2>5. Len(active_list') = Len(active_list) - 0
    BY <1>b, <2>1
  <2> QED
    BY <1>b, <2>2, <2>3, <2>4, <2>5, LocatedCarried
<1>2. CASE instr.type # "unknown"
  <2> DEFINE w == <<"alu", step + 1, ALU_STAGES>>
  <2>1. /\ w \in Live /\ At(w) = instr /\ Live' = Live \ {w}
        /\ \A p \in Live : At(p)' = At(p)
    BY <1>2, WriteBackPlaces
  <2>2. PICK i \in 1 .. n :
           /\ InFlightAt(i, instr) /\ Len(active_list') = n
           /\ \A j \in 1 .. n : j # i => active_list'[j] = active_list[j]
           /\ active_list'[i] = [active_list[i] EXCEPT
                 !.is_done = TRUE, !.is_exception = @ \/ instr.is_exception]
    BY <1>2, WriteBackMarks
  <2> HIDE DEF instr
  <2>w. PICK v \in Live : v = w
    BY <2>1
  <2> HIDE DEF w
  <2>3. active_list[i] \in ActiveEntry
    BY QueueTypes
  <2>4. /\ active_list'[i].pc = active_list[i].pc
        /\ active_list'[i].curr_phy_dest = active_list[i].curr_phy_dest
        /\ active_list'[i].log_dest = active_list[i].log_dest
        /\ active_list'[i].is_done
    BY <2>2, <2>3 DEF ActiveEntry
  <2>5. Base' = Base
    BY <1>b, <2>2 DEF Base
  <2>6. ActiveInOrder'
    <3>1. \A j \in 1 .. n : active_list'[j].pc = active_list[j].pc
      BY <2>2, <2>4
    <3> QED
      BY <1>a, <2>2, <2>5, <3>1 DEF ActiveInOrder
  <2>7. OnePlace'
    BY <1>a, <2>1 DEF OnePlace
  <2>8. AllInFlight'
    <3> SUFFICES ASSUME NEW p \in Live' PROVE \E j \in 1 .. n : InFlightAt(j, At(p))'
      BY <2>2 DEF AllInFlight
    <3>1. p \in Live /\ p # v /\ At(p)' = At(p)
      BY <2>1, <2>w
    <3>2. PICK j \in 1 .. n : InFlightAt(j, At(p))
      BY <1>a, <3>1 DEF AllInFlight
    <3>3. j # i
      BY <1>a, <2>1, <2>2, <2>w, <3>1, <3>2 DEF OnePlace, InFlightAt
    <3>4. active_list'[j] = active_list[j] /\ \A l \in LogReg : MapAt(j, l)' = MapAt(j, l)
      BY <1>c, <2>2, <3>3
    <3>5. LET source == InstructionAt(active_list[j].pc)
          IN  source.opA \in LogReg /\ (source.type \notin ImmOps => source.opB \in LogReg)
      BY <1>a, SourceTypes
    <3>6. RenamedAt(j, At(p))'
      BY <1>b, <3>1, <3>2, <3>4, <3>5 DEF RenamedAt, InFlightAt, InstructionAt
    <3> QED
      BY <2>2, <3>1, <3>2, <3>4, <3>6 DEF InFlightAt
  <2>9. AllPending'
    <3> SUFFICES ASSUME NEW j \in 1 .. n, ~active_list'[j].is_done
                 PROVE  \E p \in Live' : At(p)'.pc = active_list'[j].pc
      BY <2>2 DEF AllPending
    <3>1. j # i /\ active_list'[j] = active_list[j]
      BY <2>2, <2>4
    <3>2. PICK p \in Live : At(p).pc = active_list[j].pc
      BY <1>a, <3>1 DEF AllPending
    <3>3. p # v
      BY <1>a, <2>1, <2>2, <2>w, <3>1, <3>2, AddressesDiffer DEF InFlightAt
    <3> QED
      BY <2>1, <2>w, <3>1, <3>2, <3>3
  <2>10. EntriesInv'
    <3>1. \A j \in 1 .. n : /\ active_list'[j].log_dest = active_list[j].log_dest
                            /\ active_list'[j].pc = active_list[j].pc
                            /\ active_list'[j].is_exception => active_list'[j].is_done
      BY <1>a, <2>2, <2>4 DEF EntriesInv
    <3> QED
      BY <1>a, <1>b, <2>2, <3>1 DEF EntriesInv, InstructionAt
  <2> QED
    BY <2>6, <2>7, <2>8, <2>9, <2>10 DEF LocatedInv
<1> QED
  BY <1>1, <1>2
\* A renamed instruction has its place from the start.
LEMMA LocatedDispatch ==
    ASSUME UninitRegIdx \subseteq PhyReg, TypeOK, Accounting, LocatedInv, RenameInstr,
           DirInOrder, pc <= Len(program)
    PROVE  LocatedInv'
<1> DEFINE n == Len(active_list)
           addr == Head(dir)
           dest == Head(free_list)
           entry == NewActiveEntry(addr, dest)
           instr == RenamedInstr(addr, dest)
           read == WithReadiness(instr, is_busy', active_list')
           source == InstructionAt(addr)
<1>a. /\ ActiveInOrder /\ OnePlace /\ AllInFlight /\ AllPending /\ EntriesInv
      /\ n \in Nat /\ n + 1 \in Nat
  BY QueueTypes DEF LocatedInv
<1>b. /\ addr \in 0 .. Len(program) - 1 /\ dir # << >> /\ dir' = Tail(dir)
      /\ stage = "dispatch" /\ stage' = "dispatch"
      /\ instr \in Renamed /\ iq' = Append(iq, read)
      /\ UNCHANGED <<pc, entries, program, alus>>
  <2>1. ~\E slot \in UninitRegIdx : slot >= REG_PHY_FILE_SIZE
    BY SizesAssumption DEF PhyReg
  <2> QED
    BY <2>1, DispatchEffect DEF archVars, endVars
<1>c. /\ Len(active_list') = n + 1 /\ active_list'[n + 1] = entry
      /\ \A i \in 1 .. n : active_list'[i] = active_list[i] /\ i \in 1 .. n + 1
      /\ entry.curr_phy_dest = dest /\ ~entry.is_done /\ ~entry.is_exception
      /\ entry.pc = addr /\ entry.log_dest = source.dest
  <2>1. ~\E slot \in UninitRegIdx : slot >= REG_PHY_FILE_SIZE
    BY SizesAssumption DEF PhyReg
  <2>2. active_list' = Append(active_list, entry)
    BY <2>1, DispatchEffect
  <2>3. /\ entry.curr_phy_dest = dest /\ ~entry.is_done /\ ~entry.is_exception
        /\ entry.pc = addr /\ entry.log_dest = source.dest
    BY DEF NewActiveEntry
  <2> HIDE DEF entry
  <2>4. /\ Len(active_list') = n + 1 /\ active_list'[n + 1] = entry
        /\ \A i \in 1 .. n : active_list'[i] = active_list[i] /\ i \in 1 .. n + 1
    BY <2>2 DEF TypeOK
  <2> QED
    BY <2>3, <2>4
<1>d. /\ source \in AnyInstruction /\ source.opA \in LogReg
      /\ source.type \notin ImmOps => source.opB \in LogReg
  <2>1. source \in AnyInstruction
    BY SMTT(30), <1>b DEF TypeOK, InstructionAt
  <2> HIDE DEF source
  <2> QED
    BY <2>1 DEF AnyInstruction, RegInstruction, ImmInstruction, RegOps, ImmOps
<1>e. /\ instr.type = source.type /\ instr.pc = addr /\ instr.dest = dest
      /\ instr.opA = logical[source.opA]
      /\ source.type \in ImmOps => instr.valB = source.opB
      /\ source.type \notin ImmOps => instr.opB = logical[source.opB]
  BY DEF RenamedInstr
<1>f. SameInstr(read.instr, instr)
  BY <1>b, ReadinessKeeps DEF SameInstr
<1>g. /\ addr = Base + n /\ Base' = Base /\ Base \in Int
  <2>1. Len(dir) \in Nat /\ pc \in Nat /\ Len(dir') = Len(dir) - 1 /\ addr = dir[1]
        /\ Len(dir) > 0 /\ pc' = pc /\ 1 \in 1 .. Len(dir)
    BY <1>b, QueueTypes DEF TypeOK
  <2>2. dir[1] = pc - Len(dir) + 1 - 1
    BY <2>1 DEF DirInOrder
  <2> HIDE DEF addr
  <2> QED
    BY <1>a, <1>c, <2>1, <2>2 DEF Base
<1>h. /\ \A i \in 1 .. n + 1, l \in LogReg : MapAt(i, l)' = MapAt(i, l)
      /\ \A l \in LogReg : MapAt(n + 1, l) = logical[l]
  <2>1. 1 \in 1 .. n + 1
    BY <1>a
  <2> QED
    BY <2>1, MapAtDispatch
<1>i. PICK new \in Live' :
         /\ new \notin Live /\ Live' = Live \cup {new} /\ At(new)' = read.instr
         /\ \A p \in Live : At(p)' = At(p)
  <2> HIDE DEF read
  <2> QED
    BY <1>b, RenamePlaces
<1>j. \A i \in 1 .. n + 1 : i \in 1 .. n \/ i = n + 1
  BY <1>a
<1> HIDE DEF n, addr, dest, entry, instr, read, source
<1>k. \A i \in 1 .. n : active_list[i].pc < addr /\ active_list[i].pc # addr
  BY <1>a, <1>g DEF ActiveInOrder, n
<1>1. ActiveInOrder'
  <2> SUFFICES ASSUME NEW i \in 1 .. n + 1 PROVE active_list'[i].pc = Base' + i - 1
    BY <1>c DEF ActiveInOrder
  <2>1. CASE i \in 1 .. n
    BY <1>a, <1>c, <1>g, <2>1 DEF ActiveInOrder, n
  <2>2. CASE i = n + 1
    BY <1>a, <1>c, <1>g, <2>2
  <2> QED
    BY <1>j, <2>1, <2>2
<1>m. \A p \in Live : \E i \in 1 .. n : InFlightAt(i, At(p)) /\ At(p).pc # addr
  BY <1>a, <1>k DEF AllInFlight, InFlightAt, n
<1>2. OnePlace'
  BY <1>a, <1>e, <1>f, <1>i, <1>m DEF OnePlace, SameInstr
<1>3. AllInFlight'
  <2> SUFFICES ASSUME NEW p \in Live' PROVE \E i \in 1 .. n + 1 : InFlightAt(i, At(p))'
    BY <1>c DEF AllInFlight
  <2>1. CASE p \in Live
    <3>1. PICK i \in 1 .. n : InFlightAt(i, At(p))
      BY <1>m, <2>1
    <3>2. At(p)' = At(p) /\ active_list'[i] = active_list[i] /\ i \in 1 .. n + 1
      BY <1>c, <1>i, <2>1
    <3>3. \A l \in LogReg : MapAt(i, l)' = MapAt(i, l)
      BY <1>h, <3>2
    <3>4. LET src == InstructionAt(active_list[i].pc)
          IN  src.opA \in LogReg /\ (src.type \notin ImmOps => src.opB \in LogReg)
      BY <1>a, SourceTypes DEF n
    <3>5. RenamedAt(i, At(p))'
      BY <1>b, <3>1, <3>2, <3>3, <3>4 DEF RenamedAt, InFlightAt, InstructionAt
    <3> QED
      BY <1>c, <3>1, <3>2, <3>5 DEF InFlightAt
  <2>2. CASE p = new
    <3>1. At(p)' = read.instr /\ n + 1 \in 1 .. n + 1
      BY <1>a, <1>i, <2>2
    <3>2. /\ At(p)'.type = source.type /\ At(p)'.pc = addr /\ At(p)'.dest = dest
          /\ At(p)'.opA = logical[source.opA]
          /\ source.type \in ImmOps => At(p)'.valB = source.opB
          /\ source.type \notin ImmOps => At(p)'.opB = logical[source.opB]
      BY <1>e, <1>f, <3>1 DEF SameInstr
    <3>3. InstructionAt(At(p).pc)' = source
      BY <1>b, <3>2 DEF InstructionAt, source
    <3>a. PICK last \in 1 .. n + 1 : last = n + 1
      BY <3>1
    <3>5. \A l \in LogReg : MapAt(last, l)' = logical[l]
      BY <1>h, <3>a
    <3>6. RenamedAt(last, At(p))'
      BY <1>c, <1>d, <3>2, <3>3, <3>5, <3>a DEF RenamedAt
    <3> QED
      BY <1>c, <3>2, <3>6, <3>a DEF InFlightAt
  <2> QED
    BY <1>i, <2>1, <2>2
<1>4. AllPending'
  <2> SUFFICES ASSUME NEW i \in 1 .. n + 1
               PROVE  active_list'[i].is_done \/ \E p \in Live' : At(p)'.pc = active_list'[i].pc
    BY <1>c DEF AllPending
  <2>1. CASE i \in 1 .. n
    BY <1>a, <1>c, <1>i, <2>1 DEF AllPending, n
  <2>2. CASE i = n + 1
    BY <1>c, <1>e, <1>f, <1>i, <2>2 DEF SameInstr
  <2> QED
    BY <1>j, <2>1, <2>2
<1>5. EntriesInv'
  <2> SUFFICES ASSUME NEW i \in 1 .. n + 1
               PROVE  /\ active_list'[i].is_exception => active_list'[i].is_done
                      /\ active_list'[i].log_dest = InstructionAt(active_list[i].pc)'.dest
    BY <1>c DEF EntriesInv
  <2>1. CASE i \in 1 .. n
    BY <1>a, <1>b, <1>c, <2>1 DEF EntriesInv, n, InstructionAt
  <2>2. CASE i = n + 1
    BY <1>b, <1>c, <2>2 DEF InstructionAt, source
  <2> QED
    BY <1>j, <2>1, <2>2
<1> QED
  BY <1>1, <1>2, <1>3, <1>4, <1>5 DEF LocatedInv
\* The steps between fetch and commit keep the address of the oldest instruction.
LEMMA BaseKept ==
    ASSUME TypeOK, Accounting, [Next]_vars,
           ~CommitInstr, ~RaiseException, ~RecoverInstr, ~RenameInstr
    PROVE  Base' = Base
<1>1. Len(active_list') = Len(active_list)
  <2>1. CASE WriteBack
    <3>1. CASE active_list' = active_list
      BY <3>1
    <3>2. CASE active_list' # active_list
      <4>1. MarkDone(Forwarded(step + 1).pc, Forwarded(step + 1).is_exception)
        BY <2>1, <3>2 DEF WriteBack
      <4>2. Forwarded(step + 1).is_exception \in BOOLEAN
        <5>1. PICK instr \in Renamed \cup {EmptySlot} : instr = Forwarded(step + 1)
          BY <2>1, WriteBackPlaces
        <5>2. CASE instr \in Renamed
          BY <5>1, <5>2 DEF Renamed
        <5>3. CASE instr = EmptySlot
          <6>1. instr.is_exception = FALSE
            BY <5>3 DEF EmptySlot
          <6> QED
            BY <5>1, <6>1
        <5> QED
          BY <5>1, <5>2, <5>3
      <4>3. active_list \in Seq(ActiveEntry)
        BY DEF TypeOK
      <4> QED
        BY <4>1, <4>2, <4>3, MarkDoneType
    <3> QED
      BY <3>1, <3>2
  <2>2. CASE ~WriteBack
    <3>1. active_list' = active_list
      BY <2>2 DEF Next, CommitCycle, CommitDone, LeaveException, RecoverDone, AluCycles,
         IssueCycle, RefreshReady, TakeReady, PassWaiting, IssueToAlus, RenameDispatchCycle,
         CheckResources, DispatchDone, FetchDecodeCycle, Terminated, vars, renameVars
    <3> QED
      BY <3>1
  <2> QED
    BY <2>1, <2>2
<1>2. pc' - Len(dir') = pc - Len(dir)
  <2>1. CASE FetchDecodeCycle
    <3> DEFINE fetched == [k \in 1 .. FetchCount |-> pc + k - 1]
    <3>1. /\ dir' = dir \o fetched /\ pc' = pc + FetchCount
      BY <2>1 DEF FetchDecodeCycle, NextPc
    <3>a. /\ Len(program) \in Nat /\ Len(dir) \in Nat /\ pc \in Nat
          /\ dir \in Seq(0 .. Len(program) - 1) /\ Len(dir) <= DIR_SIZE
      BY DEF TypeOK
    <3>b. INSTRUCTIONS_PER_CYCLE \in Nat /\ DIR_SIZE \in Nat
      BY SizesAssumption DEF DIR_SIZE
    <3>2. FetchCount \in Nat /\ Len(dir) \in Nat /\ pc \in Nat
      BY <3>a, <3>b DEF FetchCount, SmallerOf
    <3>3. fetched \in Seq(Int) /\ dir \in Seq(Int) /\ Len(fetched) = FetchCount
      <4>1. \A k \in 1 .. FetchCount : pc + k - 1 \in Int
        BY <3>2
      <4>2. dir \in Seq(Int)
        BY <3>a
      <4> QED
        BY <3>2, <4>1, <4>2
    <3> HIDE DEF fetched
    <3>4. Len(dir') = Len(dir) + FetchCount
      <4>1. Len(dir \o fetched) = Len(dir) + Len(fetched)
        BY SMTT(30), <3>3
      <4> QED
        BY <3>1, <3>3, <4>1
    <3> QED
      BY <3>1, <3>2, <3>4
  <2>2. CASE ~FetchDecodeCycle
    <3>1. UNCHANGED <<pc, dir>>
      BY <2>2 DEF Next, CommitCycle, CommitDone, LeaveException, RecoverDone,
         AluCycles, WriteBack, IssueCycle, RefreshReady, TakeReady, PassWaiting, IssueToAlus,
         RenameDispatchCycle, CheckResources, DispatchDone, Terminated, vars, archVars
    <3> QED
      BY <3>1
  <2> QED
    BY <2>1, <2>2
<1>3. /\ Len(active_list) \in Int /\ Len(dir) \in Int /\ pc \in Int
      /\ pc' \in Int /\ Len(dir') \in Int
  <2>1. pc' \in Nat /\ Len(dir') \in Nat
    <3>1. TypeOK'
      BY TypeNext
    <3> QED
      BY <3>1 DEF TypeOK
  <2> QED
    BY <2>1, QueueTypes
<1> QED
  BY SMTT(30), <1>1, <1>2, <1>3 DEF Base

\* Renaming moves an instruction from the DIR to the active list.
LEMMA BaseRenamed ==
    ASSUME UninitRegIdx \subseteq PhyReg, TypeOK, Accounting, RenameInstr
    PROVE  Base' = Base
<1>1. ~\E slot \in UninitRegIdx : slot >= REG_PHY_FILE_SIZE
  BY SizesAssumption DEF PhyReg
<1>2. /\ dir # << >> /\ dir' = Tail(dir) /\ pc' = pc
      /\ \E entry : active_list' = Append(active_list, entry)
  BY <1>1, DispatchEffect DEF archVars
<1>3. Len(dir') = Len(dir) - 1 /\ Len(active_list') = Len(active_list) + 1
  BY <1>2 DEF TypeOK
<1> QED
  BY <1>2, <1>3, QueueTypes DEF Base

\* The steps that leave the active list, the map and the first address alone.
LEMMA LocatedOthers ==
    ASSUME TypeOK, Accounting, LocatedInv, [Next]_vars, pc <= Len(program),
           ~exception_mode, ~exception_mode',
           ~CommitInstr, ~WriteBack, ~RenameInstr
    PROVE  LocatedInv'
<1>1. ~RaiseException
  BY DEF RaiseException
<1>2. ~RecoverInstr
  BY DEF RecoverInstr
<1>3. Carried
  BY <1>1, OthersCarry
<1>4. UNCHANGED <<active_list, logical, program>>
  BY <1>1, <1>2 DEF Next, CommitCycle, CommitDone, LeaveException, RecoverDone, AluCycles,
     IssueCycle, RefreshReady, TakeReady, PassWaiting, IssueToAlus, RenameDispatchCycle,
     CheckResources, DispatchDone, FetchDecodeCycle, Terminated, vars, renameVars, endVars
<1>5. Base' = Base /\ Base \in Int /\ Len(active_list) \in Nat
  BY <1>1, <1>2, BaseKept, QueueTypes DEF Base
<1>6. PICK d \in {0, 1} : d = 0
  OBVIOUS
<1>7. /\ Base' = Base + d /\ Len(active_list') = Len(active_list) - d
      /\ \A i \in 1 .. Len(active_list') : active_list'[i] = active_list[i + d]
  BY <1>4, <1>5, <1>6
<1>8. \A i \in 1 .. Len(active_list'), l \in LogReg : MapAt(i, l)' = MapAt(i + d, l)
  <2> SUFFICES ASSUME NEW i \in 1 .. Len(active_list'), NEW l \in LogReg
               PROVE  MapAt(i, l)' = MapAt(i + d, l)
    OBVIOUS
  <2>1. i \in Nat /\ i > 0 /\ i + d = i
    BY <1>4, <1>5, <1>6
  <2> QED
    BY <1>2, <2>1, MapAtKept
<1>9. program' = program /\ (d = 1 => active_list[1].is_done)
  BY <1>4, <1>6
<1> QED
  BY <1>3, <1>7, <1>8, <1>9, LocatedCarried

\* The oldest instruction leaves: the positions of the others shift by one.
LEMMA LocatedCommit ==
    ASSUME TypeOK, Accounting, LocatedInv, CommitInstr, [Next]_vars, pc <= Len(program)
    PROVE  LocatedInv'
<1>1. /\ Len(active_list) \in Nat \ {0} /\ Len(active_list') = Len(active_list) - 1
      /\ \A i \in 1 .. Len(active_list') : active_list'[i] = active_list[i + 1]
  BY CommitMoves
<1>2. active_list[1].is_done /\ UNCHANGED <<pc, dir, program>>
  BY <1>1 DEF CommitInstr, Finished, Oldest, TypeOK, archVars, endVars
<1>3. Carried
  <2>1. ~RaiseException /\ ~RenameInstr /\ ~WriteBack
    BY DEF CommitInstr, RaiseException, RenameInstr, WriteBack, AtCommit
  <2> QED
    BY <2>1, OthersCarry
<1>4. Base' = Base + 1
  BY <1>1, <1>2, QueueTypes DEF Base
<1>5. \A i \in 1 .. Len(active_list'), l \in LogReg : MapAt(i, l)' = MapAt(i + 1, l)
  <2>1. \A i \in 1 .. Len(active_list') : i \in Nat /\ i > 0
    BY <1>1
  <2> QED
    BY <2>1, MapAtCommit
<1>6. 1 \in {0, 1}
  OBVIOUS
<1> QED
  BY <1>1, <1>2, <1>3, <1>4, <1>5, <1>6, LocatedCarried

\* Nothing is in flight at the start, so nothing is misplaced.
LEMMA LocatedInit == Init => Located
<1> SUFFICES ASSUME Init PROVE LocatedInv
  BY DEF Located
<1>1. active_list = << >> /\ iq = << >> /\ entries = << >> /\ alus = EmptyAlus
  BY DEF Init
<1>2. Live = {}
  <2>1. \A a \in 1 .. NUM_ALUS, s \in 1 .. ALU_STAGES : alus[a][s].type = "unknown"
    BY <1>1 DEF EmptyAlus, EmptySlot
  <2>2. \A p \in Live : FALSE
    BY <1>1, <2>1, PlaceCases DEF Live
  <2> QED
    BY <2>2
<1> QED
  BY <1>1, <1>2
  DEF LocatedInv, ActiveInOrder, OnePlace, AllInFlight, AllPending, EntriesInv

\* Every step outside exception mode keeps each instruction in flight in its one place.
LEMMA LocatedNext ==
    ASSUME UninitRegIdx \subseteq PhyReg
    PROVE  TypeOK /\ Accounting /\ FetchOrder /\ Located /\ [Next]_vars => Located'
<1> SUFFICES ASSUME TypeOK, Accounting, FetchOrder, Located, [Next]_vars, ~exception_mode'
             PROVE  LocatedInv'
  BY DEF Located
<1>1. ~exception_mode
  <2>1. CASE UNCHANGED exception_mode
    BY <2>1
  <2>2. CASE RaiseException
    BY <2>2 DEF RaiseException
  <2> QED
    BY <2>1, <2>2 DEF Next, CommitCycle, CommitInstr, CommitDone, LeaveException, RecoverInstr,
       RecoverDone, AluCycles, WriteBack, IssueCycle, RefreshReady, TakeReady, PassWaiting,
       IssueToAlus, RenameDispatchCycle, CheckResources, RenameInstr, DispatchDone,
       FetchDecodeCycle, Terminated, vars
<1>2. LocatedInv /\ DirInOrder /\ pc <= Len(program)
  BY <1>1 DEF Located, FetchOrder
<1>3. CASE CommitInstr
  BY <1>2, <1>3, LocatedCommit
<1>4. CASE WriteBack
  BY <1>2, <1>4, LocatedWriteBack
<1>5. CASE RenameInstr
  BY <1>2, <1>5, LocatedDispatch
<1>6. CASE ~CommitInstr /\ ~WriteBack /\ ~RenameInstr
  BY <1>1, <1>2, <1>6, LocatedOthers
<1> QED
  BY <1>3, <1>4, <1>5, <1>6

\* If the uninitialised variable of rename_dispatch_cycle always holds the number of a
\* register, the instructions in flight are in order, each unfinished one is in one
\* place, and it carries the registers that the map of its position names.
THEOREM LocatedHolds ==
    ASSUME UninitRegIdx \subseteq PhyReg
    PROVE  Spec => []Located
<1>1. Init => Located
  BY LocatedInit
<1>2. TypeOK /\ Accounting /\ FetchOrder /\ Located /\ [Next]_vars => Located'
  BY LocatedNext
<1> QED
  BY <1>1, <1>2, TypeCorrect, FetchOrderHolds, PTL DEF Spec
-----------------------------------------------------------------------------
\* Before and after the loops of write-back and issue no ALU stage was written back
\* yet: what is in place is what Places counts.
LEMMA PlacesAreLive ==
    ASSUME TypeOK, stage \in {"commit", "execute", "rename", "dispatch", "fetch"}, NEW addr
    PROVE  Places(addr) = {p \in Live : At(p).pc = addr}
<1>1. WrittenBack = {}
  BY DEF WrittenBack
<1>2. ASSUME NEW p \in Places(addr) PROVE p \in Live /\ At(p).pc = addr
  <2>1. CASE p \in {<<"iq", i, 0>> : i \in {k \in 1 .. Len(iq) : iq[k].instr.pc = addr}}
    <3>1. PICK i \in 1 .. Len(iq) : p = <<"iq", i, 0>> /\ iq[i].instr.pc = addr
      BY <2>1
    <3> QED
      BY <3>1 DEF Live, At, PlacesOf, InstrOf
  <2>2. CASE p \in {<<"entries", i, 0>> :
                       i \in {k \in 1 .. Len(entries) : entries[k].instr.pc = addr}}
    <3>1. PICK i \in 1 .. Len(entries) :
             p = <<"entries", i, 0>> /\ entries[i].instr.pc = addr
      BY <2>2
    <3> QED
      BY <3>1 DEF Live, At, PlacesOf, InstrOf
  <2>3. CASE p \in {<<"alu", as[1], as[2]>> : as \in
                       {x \in (1 .. NUM_ALUS) \X (1 .. ALU_STAGES) :
                           /\ alus[x[1]][x[2]].type # "unknown"
                           /\ alus[x[1]][x[2]].pc = addr}}
    <3>1. PICK a \in 1 .. NUM_ALUS, s \in 1 .. ALU_STAGES :
             /\ p = <<"alu", a, s>> /\ alus[a][s].type # "unknown" /\ alus[a][s].pc = addr
      BY <2>3
    <3> QED
      BY <1>1, <3>1 DEF Live, At, PlacesOf, InstrOf
  <2> QED
    BY <2>1, <2>2, <2>3 DEF Places
<1>3. ASSUME NEW p \in Live, At(p).pc = addr PROVE p \in Places(addr)
  <2>1. CASE \E i \in 1 .. Len(iq) : p = <<"iq", i, 0>> /\ At(p) = iq[i].instr
    BY <1>3, <2>1 DEF Places
  <2>2. CASE \E i \in 1 .. Len(entries) : p = <<"entries", i, 0>> /\ At(p) = entries[i].instr
    BY <1>3, <2>2 DEF Places
  <2>3. CASE \E a \in 1 .. NUM_ALUS, s \in 1 .. ALU_STAGES :
                /\ p = <<"alu", a, s>> /\ At(p) = alus[a][s] /\ alus[a][s].type # "unknown"
    <3>1. PICK a \in 1 .. NUM_ALUS, s \in 1 .. ALU_STAGES :
             /\ p = <<"alu", a, s>> /\ At(p) = alus[a][s] /\ alus[a][s].type # "unknown"
      BY <2>3
    <3>2. /\ <<a, s>> \in (1 .. NUM_ALUS) \X (1 .. ALU_STAGES)
          /\ <<a, s>>[1] = a /\ <<a, s>>[2] = s
      OBVIOUS
    <3> QED
      BY <1>3, <3>1, <3>2 DEF Places
  <2> QED
    BY <2>1, <2>2, <2>3, PlaceCases DEF Live, At
<1> QED
  BY <1>2, <1>3

\* The instructions between fetch and commit are consecutive, those of the active list
\* before those of the DIR.
LEMMA InFlightOrdered ==
    ASSUME TypeOK, FetchOrder, Located
    PROVE  ProgramOrder
<1> SUFFICES ASSUME ~exception_mode
             PROVE  \A i \in 1 .. Len(InFlight) : InFlight[i] = pc - Len(InFlight) + i - 1
  BY DEF ProgramOrder, FetchOrder, QueueInOrder
<1> DEFINE n == Len(active_list)
           older == [i \in 1 .. n |-> active_list[i].pc]
<1>1. n \in Nat /\ Len(dir) \in Nat /\ pc \in Nat /\ \A i \in 1 .. n : active_list[i].pc \in Nat
  BY QueueTypes
<1>2. older \in Seq(Nat) /\ Len(older) = n /\ \A i \in 1 .. n : older[i] = active_list[i].pc
  BY <1>1
<1>3. dir \in Seq(Nat)
  BY DEF TypeOK
<1>4. InFlight = older \o dir
  BY DEF InFlight
<1> HIDE DEF older, n
<1>5. /\ Len(older \o dir) = n + Len(dir)
      /\ \A i \in 1 .. n : (older \o dir)[i] = older[i]
      /\ \A i \in n + 1 .. n + Len(dir) : (older \o dir)[i] = dir[i - n]
  <2>1. Len(older \o dir) = n + Len(dir)
    <3>1. older \in Seq(Nat) /\ dir \in Seq(Nat)
      BY <1>2, <1>3
    <3>2. Len(older \o dir) = Len(older) + Len(dir)
      BY <3>1
    <3> QED
      BY <1>2, <3>2
  <2>2. ASSUME NEW i \in 1 .. n PROVE (older \o dir)[i] = older[i]
    BY <1>1, <1>2, <1>3
  <2>3. ASSUME NEW i \in n + 1 .. n + Len(dir) PROVE (older \o dir)[i] = dir[i - n]
    <3>1. i \in 1 .. n + Len(dir) /\ i > n
      BY <1>1
    <3> QED
      BY <1>1, <1>2, <1>3, <3>1
  <2> QED
    BY <2>1, <2>2, <2>3
<1>6. /\ \A i \in 1 .. n : active_list[i].pc = pc - n - Len(dir) + i - 1
      /\ \A i \in 1 .. Len(dir) : dir[i] = pc - Len(dir) + i - 1
  BY DEF Located, LocatedInv, ActiveInOrder, Base, FetchOrder, DirInOrder, n
<1>7. ASSUME NEW i \in 1 .. Len(InFlight) PROVE InFlight[i] = pc - Len(InFlight) + i - 1
  <2>1. i \in 1 .. n + Len(dir) /\ Len(InFlight) = n + Len(dir)
    BY <1>4, <1>5
  <2>2. CASE i \in 1 .. n
    <3>1. InFlight[i] = active_list[i].pc /\ active_list[i].pc = pc - n - Len(dir) + i - 1
      BY <1>2, <1>4, <1>5, <1>6, <2>2
    <3> QED
      BY <1>1, <2>1, <2>2, <3>1
  <2>3. CASE i \in n + 1 .. n + Len(dir)
    <3>1. i - n \in 1 .. Len(dir)
      BY <1>1, <2>3
    <3>2. InFlight[i] = dir[i - n] /\ dir[i - n] = pc - Len(dir) + (i - n) - 1
      BY <1>4, <1>5, <1>6, <2>3, <3>1
    <3> QED
      BY <1>1, <2>1, <2>3, <3>2
  <2> QED
    BY <1>1, <2>1, <2>2, <2>3
<1> QED
  BY <1>7

\* Every unfinished instruction of the active list is in one place, a finished one in none.
LEMMA InFlightCounted ==
    ASSUME TypeOK, Located
    PROVE  InFlightOnce
<1> SUFFICES ASSUME ~exception_mode,
                    stage \in {"commit", "execute", "rename", "dispatch", "fetch"},
                    NEW i \in 1 .. Len(active_list)
             PROVE  Cardinality(Places(active_list[i].pc)) =
                        IF active_list[i].is_done THEN 0 ELSE 1
  BY DEF InFlightOnce
<1>1. ActiveInOrder /\ OnePlace /\ AllInFlight /\ AllPending
  BY DEF Located, LocatedInv
<1>2. Places(active_list[i].pc) = {p \in Live : At(p).pc = active_list[i].pc}
  BY PlacesAreLive
<1>3. CASE active_list[i].is_done
  <2>1. ASSUME NEW p \in Live, At(p).pc = active_list[i].pc PROVE FALSE
    <3>1. PICK j \in 1 .. Len(active_list) : InFlightAt(j, At(p))
      BY <1>1 DEF AllInFlight
    <3>2. active_list[j].pc = active_list[i].pc /\ ~active_list[j].is_done
      BY <2>1, <3>1 DEF InFlightAt
    <3>3. j = i
      BY <1>1, <3>2, AddressesDiffer
    <3> QED
      BY <1>3, <3>2, <3>3
  <2>2. Places(active_list[i].pc) = {}
    BY <1>2, <2>1
  <2> QED
    BY <1>3, <2>2, FS_EmptySet
<1>4. CASE ~active_list[i].is_done
  <2>1. PICK p \in Live : At(p).pc = active_list[i].pc
    BY <1>1, <1>4 DEF AllPending
  <2>2. Places(active_list[i].pc) = {p}
    BY <1>1, <1>2, <2>1 DEF OnePlace
  <2> QED
    BY <1>4, <2>2, FS_Singleton
<1> QED
  BY <1>3, <1>4

\* The instructions in flight are in program order, each unfinished one in exactly one
\* place between rename and write-back, and each holds one register that left the free
\* list, for every program and every size of the queues, the ALUs and the register
\* file, if the uninitialised variable of rename_dispatch_cycle always holds the number
\* of a register (else an instruction is lost: rename_dispatch.c:190).
THEOREM InFlightHolds ==
    ASSUME UninitRegIdx \subseteq PhyReg
    PROVE  Spec => []InFlightInv
<1>1. TypeOK /\ Accounting /\ FetchOrder /\ Located => InFlightInv
  BY InFlightOrdered, InFlightCounted DEF InFlightInv
<1> QED
  BY <1>1, TypeCorrect, FetchOrderHolds, LocatedHolds, PTL
-----------------------------------------------------------------------------
\* The register of a position's map is held by the map or by a later instruction: it is
\* not free, and no instruction from that position on was given it.
LEMMA MappedHeld ==
    ASSUME TypeOK, RegisterPartition, RegistersGiven,
           NEW i \in Nat, i > 0, NEW l \in LogReg
    PROVE  /\ MapAt(i, l) \in PhyReg /\ MapAt(i, l) \notin Range(free_list)
           /\ \A k \in i .. Len(active_list) : active_list[k].curr_phy_dest # MapAt(i, l)
<1>1. Len(active_list) \in Nat
  BY QueueTypes
<1>2. \A k \in i .. Len(active_list) : k \in 1 .. Len(active_list)
  BY <1>1
<1>3. CASE NoWriter(active_list, i, l)
  <2>1. MapAt(i, l) = logical[l]
    BY <1>3, MapOfNone DEF MapAt
  <2>2. logical[l] \in PhyReg /\ logical[l] \notin Range(free_list)
    BY PartitionFacts DEF TypeOK
  <2>3. ASSUME NEW k \in i .. Len(active_list), active_list[k].curr_phy_dest = logical[l]
        PROVE  FALSE
    BY <1>2, <1>3, <2>3 DEF RegistersGiven, NoWriter
  <2> QED
    BY <2>1, <2>2, <2>3
<1>4. CASE \E j \in i .. Len(active_list) : FirstWriter(active_list, i, l, j)
  <2>1. PICK j \in i .. Len(active_list) : FirstWriter(active_list, i, l, j)
    BY <1>4
  <2>2. MapAt(i, l) = active_list[j].old_phy_dest
    BY <1>1, <2>1, MapOfFirst DEF MapAt
  <2>3. /\ j \in 1 .. Len(active_list) /\ active_list[j].old_phy_dest \in PhyReg
        /\ active_list[j].old_phy_dest \notin Range(free_list)
    BY <1>2, PartitionFacts, QueueTypes
  <2>4. ASSUME NEW k \in i .. Len(active_list),
               active_list[k].curr_phy_dest = active_list[j].old_phy_dest
        PROVE  FALSE
    <3>1. k < j /\ active_list[k].log_dest = active_list[j].log_dest
      BY <1>2, <2>3, <2>4 DEF RegistersGiven
    <3> QED
      BY <2>1, <3>1 DEF FirstWriter
  <2> QED
    BY <2>2, <2>3, <2>4
<1> QED
  BY <1>1, <1>3, <1>4, MapOfCases

\* The operands of an instruction in place are registers of its position's map.
LEMMA OperandsHeld ==
    ASSUME TypeOK, RegisterPartition, RegistersGiven, LocatedInv, pc <= Len(program),
           NEW p \in Live
    PROVE  /\ At(p).opA \in PhyReg /\ At(p).opA \notin Range(free_list)
           /\ At(p).type \notin ImmOps =>
                  At(p).opB \in PhyReg /\ At(p).opB \notin Range(free_list)
<1>1. ActiveInOrder /\ AllInFlight
  BY DEF LocatedInv
<1>2. PICK k \in 1 .. Len(active_list) : InFlightAt(k, At(p))
  BY <1>1 DEF AllInFlight
<1> DEFINE source == InstructionAt(active_list[k].pc)
<1>3. /\ source.opA \in LogReg
      /\ source.type \notin ImmOps => source.opB \in LogReg
  BY <1>1, SourceTypes
<1>4. /\ At(p).type = source.type /\ At(p).opA = MapAt(k, source.opA)
      /\ source.type \notin ImmOps => At(p).opB = MapAt(k, source.opB)
  BY <1>2 DEF InFlightAt, RenamedAt
<1> HIDE DEF source
<1>5. k \in Nat /\ k > 0
  BY QueueTypes
<1> QED
  BY <1>3, <1>4, <1>5, MappedHeld

\* So are those of an instruction in the integer queue.
LEMMA SourcesHeld ==
    ASSUME TypeOK, RegisterPartition, RegistersGiven, FetchOrder, Located
    PROVE  NoFreeSource
<1> SUFFICES ASSUME ~exception_mode, NEW i \in 1 .. Len(iq)
             PROVE  /\ iq[i].instr.opA \notin Range(free_list)
                    /\ iq[i].instr.type \notin ImmOps =>
                           iq[i].instr.opB \notin Range(free_list)
  BY DEF NoFreeSource
<1>1. <<"iq", i, 0>> \in Live /\ At(<<"iq", i, 0>>) = iq[i].instr
  BY PlaceIntro DEF Live, At
<1>2. LocatedInv /\ pc <= Len(program)
  BY DEF Located, FetchOrder
<1> QED
  BY <1>1, <1>2, OperandsHeld

\* No free register is an operand of an instruction that waits in the integer queue,
\* however long it waits and however many instructions commit meanwhile.
THEOREM NoFreeSourceHolds ==
    ASSUME UninitRegIdx \subseteq PhyReg
    PROVE  Spec => []NoFreeSource
<1>1. TypeOK /\ RegisterPartition /\ RegistersGiven /\ FetchOrder /\ Located => NoFreeSource
  BY SourcesHeld
<1> QED
  BY <1>1, TypeCorrect, RegistersPartitioned, RegistersGivenHolds, FetchOrderHolds,
     LocatedHolds, PTL

-----------------------------------------------------------------------------
\* The address of the exception handler is not one of the program's.
HandlerOutside == PC_EXCEPTION >= Len(program)

AlusEmpty == \A a \in 1 .. NUM_ALUS, s \in 1 .. ALU_STAGES : alus[a][s].type = "unknown"

\* Then nothing is fetched after an exception: the pipeline in front of commit stays empty.
Flushed ==
    exception_mode /\ HandlerOutside =>
        dir = << >> /\ iq = << >> /\ entries = << >> /\ AlusEmpty /\ pc = PC_EXCEPTION

\* Bubbles shift through the ALUs when nothing is issued to them.
LEMMA AlusStayEmpty ==
    ASSUME TypeOK, AlusEmpty, entries = << >>, [Next]_vars
    PROVE  AlusEmpty'
<1> SUFFICES ASSUME NEW a \in 1 .. NUM_ALUS, NEW s \in 1 .. ALU_STAGES
             PROVE  alus'[a][s].type = "unknown"
  BY DEF AlusEmpty
<1>1. ALU_STAGES \in 1 .. ALU_STAGES /\ ALU_STAGES \in Nat
  BY SizesAssumption
<1>2. \A t \in 1 .. ALU_STAGES : alus[a][t].type = "unknown"
  BY DEF AlusEmpty
<1>3. CASE AluCycles
  <2>1. alus[a] \in [1 .. ALU_STAGES -> Renamed \cup {EmptySlot}]
    BY DEF TypeOK
  <2>2. Executed(alus[a][ALU_STAGES]) = alus[a][ALU_STAGES]
    BY <1>1, <1>2 DEF Executed
  <2>3. alus'[a] = [alus[a] EXCEPT ![ALU_STAGES] = Executed(@)]
    BY <1>3 DEF AluCycles
  <2> QED
    BY <1>2, <2>1, <2>2, <2>3
<1>4. CASE IssueToAlus
  <2>1. ~(a <= Len(entries))
    BY SizesAssumption
  <2>2. alus'[a][s] = IF s = 1 THEN EmptySlot ELSE alus[a][s - 1]
    BY <1>4, <2>1 DEF IssueToAlus, Pushed
  <2>3. s # 1 => s - 1 \in 1 .. ALU_STAGES
    BY <1>1
  <2> QED
    BY <1>2, <2>2, <2>3 DEF EmptySlot
<1>5. CASE RaiseException
  BY <1>5 DEF RaiseException, EmptyAlus, EmptySlot
<1>6. CASE ~AluCycles /\ ~IssueToAlus /\ ~RaiseException
  <2>1. alus' = alus
    BY <1>6 DEF Next, CommitCycle, CommitInstr, CommitDone, LeaveException, RecoverInstr,
       RecoverDone, WriteBack, IssueCycle, RefreshReady, TakeReady, PassWaiting,
       RenameDispatchCycle, CheckResources, RenameInstr, DispatchDone, FetchDecodeCycle,
       Terminated, vars
  <2> QED
    BY <1>2, <2>1
<1> QED
  BY <1>3, <1>4, <1>5, <1>6

\* RaiseException empties it; no later step puts anything into it.
LEMMA FlushedNext == TypeOK /\ Accounting /\ FetchOrder /\ Flushed /\ [Next]_vars => Flushed'
<1> SUFFICES ASSUME TypeOK, Accounting, FetchOrder, Flushed, [Next]_vars,
                    exception_mode', HandlerOutside'
             PROVE  /\ dir' = << >> /\ iq' = << >> /\ entries' = << >>
                    /\ AlusEmpty' /\ pc' = PC_EXCEPTION
  BY DEF Flushed
<1>1. HandlerOutside
  BY DEF HandlerOutside, Next, CommitCycle, CommitInstr, CommitDone, RaiseException,
     LeaveException, RecoverInstr, RecoverDone, AluCycles, WriteBack, IssueCycle, RefreshReady,
     TakeReady, PassWaiting, IssueToAlus, RenameDispatchCycle, CheckResources, RenameInstr,
     DispatchDone, FetchDecodeCycle, Terminated, vars, endVars
<1>2. CASE RaiseException
  <2>1. entries = << >> /\ entries' = entries
    BY <1>2 DEF FetchOrder, ScanInv, RaiseException, AtCommit
  <2>2. AlusEmpty'
    BY <1>2 DEF RaiseException, AlusEmpty, EmptyAlus, EmptySlot
  <2> QED
    BY <1>2, <2>1, <2>2 DEF RaiseException
<1>3. CASE ~RaiseException
  <2>1. exception_mode
    BY <1>3 DEF Next, CommitCycle, CommitInstr, CommitDone, LeaveException, RecoverInstr,
       RecoverDone, AluCycles, WriteBack, IssueCycle, RefreshReady, TakeReady, PassWaiting,
       IssueToAlus, RenameDispatchCycle, CheckResources, RenameInstr, DispatchDone,
       FetchDecodeCycle, Terminated, vars
  <2>2. dir = << >> /\ iq = << >> /\ entries = << >> /\ AlusEmpty /\ pc = PC_EXCEPTION
    BY <1>1, <2>1 DEF Flushed
  <2>3. AlusEmpty'
    BY <2>2, AlusStayEmpty
  <2>4. CASE RefreshReady
    <3>1. iq' = << >>
      BY <2>2, <2>4 DEF RefreshReady
    <3> QED
      BY <2>2, <2>3, <2>4, <3>1 DEF RefreshReady, archVars
  <2>5. CASE IssueToAlus
    BY <2>2, <2>3, <2>5 DEF IssueToAlus, archVars
  <2>6. CASE FetchDecodeCycle
    <3>1. FetchCount = 0
      <4>1. Len(dir) = 0 /\ ~(pc < Len(program))
        BY <1>1, <2>2, SizesAssumption, QueueTypes DEF HandlerOutside
      <4> QED
        BY <4>1, SizesAssumption DEF FetchCount, SmallerOf, DIR_SIZE
    <3>2. dir' = dir /\ pc' = pc
      <4>1. [k \in 1 .. 0 |-> pc + k - 1] = << >>
        OBVIOUS
      <4>2. dir' = << >> \o << >> /\ pc' = PC_EXCEPTION + 0
        BY <2>2, <2>6, <3>1, <4>1 DEF FetchDecodeCycle, NextPc
      <4> QED
        BY <2>2, <4>2, SizesAssumption
    <3> QED
      BY <2>2, <2>3, <2>6, <3>2 DEF FetchDecodeCycle, issueVars
  <2>7. ~TakeReady /\ ~PassWaiting /\ ~RenameInstr
    <3>1. Len(iq) = 0 /\ step \in Nat
      BY <2>2, QueueTypes
    <3>2. ~(step < Len(iq))
      BY <3>1
    <3> QED
      BY <2>2, <3>2 DEF TakeReady, PassWaiting, Scanning, RenameInstr
  <2>8. CASE ~RefreshReady /\ ~IssueToAlus /\ ~FetchDecodeCycle
    <3>1. UNCHANGED <<dir, iq, entries, pc>>
      BY <1>3, <2>7, <2>8 DEF Next, CommitCycle, CommitInstr, CommitDone, LeaveException,
         RecoverInstr, RecoverDone, AluCycles, WriteBack, IssueCycle, RenameDispatchCycle, CheckResources,
         DispatchDone, Terminated, vars, archVars, issueVars
    <3> QED
      BY <2>2, <2>3, <3>1
  <2> QED
    BY <2>4, <2>5, <2>6, <2>8
<1> QED
  BY <1>2, <1>3

\* After an exception nothing more of the program enters the pipeline, if the handler's
\* address is outside the program.
THEOREM FlushedHolds == Spec => []Flushed
<1>1. Init => Flushed
  BY DEF Init, Flushed
<1> QED
  BY <1>1, FlushedNext, TypeCorrect, FetchOrderHolds, PTL DEF Spec
-----------------------------------------------------------------------------
\* The instruction at position i has not produced a value a consumer may use.
Unusable(i) == ~active_list[i].is_done \/ active_list[i].is_exception

\* Every step but these four leaves the busy bits and the entries alone.
LEMMA BusyKept ==
    ASSUME [Next]_vars, ~CommitInstr, ~RecoverInstr, ~WriteBack, ~RenameInstr
    PROVE  UNCHANGED <<is_busy, active_list>>
BY DEF Next, CommitCycle, CommitDone, RaiseException, LeaveException, RecoverDone, AluCycles,
   IssueCycle, RefreshReady, TakeReady, PassWaiting, IssueToAlus, RenameDispatchCycle,
   CheckResources, DispatchDone, FetchDecodeCycle, Terminated, vars, renameVars, regVars

\* What keeps the busy bits exact, step by step.
LEMMA BusyNext ==
    ASSUME TypeOK, Accounting, RenameChain, RegistersGiven, Flushed, Located, BusyBits,
           ~exception_mode \/ HandlerOutside, [Next]_vars
    PROVE  BusyBits'
<1> USE DEF Unusable
<1>1. /\ Len(active_list) \in Nat
      /\ \A i \in 1 .. Len(active_list) : active_list[i].curr_phy_dest \in PhyReg
      /\ \A i, j \in 1 .. Len(active_list) :
            active_list[i].curr_phy_dest = active_list[j].curr_phy_dest => i = j
      /\ is_busy \in [PhyReg -> BOOLEAN]
  BY QueueTypes DEF RegistersGiven, TypeOK
<1>2. \A r \in PhyReg :
         is_busy[r] <=> \E i \in 1 .. Len(active_list) :
                            active_list[i].curr_phy_dest = r /\ Unusable(i)
  BY DEF BusyBits
<1>3. ASSUME \A r \in PhyReg :
                is_busy'[r] <=> \E i \in 1 .. Len(active_list') :
                                   active_list'[i].curr_phy_dest = r /\ Unusable(i)'
      PROVE  BusyBits'
  BY <1>3 DEF BusyBits
<1>4. CASE CommitInstr
  <2>1. /\ Len(active_list') = Len(active_list) - 1
        /\ \A i \in 1 .. Len(active_list') :
              active_list'[i] = active_list[i + 1] /\ i + 1 \in 1 .. Len(active_list)
    BY <1>4, CommitMoves
  <2>2. ~Unusable(1) /\ is_busy' = is_busy
    BY <1>4 DEF CommitInstr, Finished, Oldest, regVars
  <2>3. \A j \in 1 .. Len(active_list) : j # 1 => /\ j - 1 \in 1 .. Len(active_list')
                                                 /\ active_list'[j - 1] = active_list[j]
    BY <1>1, <2>1
  <2> SUFFICES ASSUME NEW r \in PhyReg
               PROVE  is_busy'[r] <=> \E i \in 1 .. Len(active_list') :
                                         active_list'[i].curr_phy_dest = r /\ Unusable(i)'
    BY <1>3
  <2>4. ASSUME NEW j \in 1 .. Len(active_list), active_list[j].curr_phy_dest = r, Unusable(j)
        PROVE  \E i \in 1 .. Len(active_list') :
                  active_list'[i].curr_phy_dest = r /\ Unusable(i)'
    BY <2>2, <2>3, <2>4
  <2>5. ASSUME NEW i \in 1 .. Len(active_list'),
               active_list'[i].curr_phy_dest = r, Unusable(i)'
        PROVE  \E j \in 1 .. Len(active_list) :
                  active_list[j].curr_phy_dest = r /\ Unusable(j)
    BY <2>1, <2>5
  <2> QED
    BY <1>2, <2>2, <2>4, <2>5
<1>5. CASE RecoverInstr
  <2> DEFINE n == Len(active_list)
             freed == logical[active_list[n].log_dest]
  <2>1. /\ n \in Nat \ {0} /\ n \in 1 .. n /\ Len(active_list') = n - 1
        /\ \A i \in 1 .. n - 1 : active_list'[i] = active_list[i] /\ i \in 1 .. n
        /\ is_busy' = [is_busy EXCEPT ![freed] = FALSE]
    BY <1>5, RecoverMoves
  <2>2. active_list[n].curr_phy_dest = freed
    <3>1. LaterWriters(n) = {}
      BY <2>1 DEF LaterWriters
    <3> QED
      BY <2>1, <3>1 DEF RenameChain
  <2>3. \A i \in 1 .. n - 1 : active_list[i].curr_phy_dest # freed
    BY <1>1, <2>1, <2>2
  <2> SUFFICES ASSUME NEW r \in PhyReg
               PROVE  is_busy'[r] <=> \E i \in 1 .. n - 1 :
                                         active_list'[i].curr_phy_dest = r /\ Unusable(i)'
    BY <1>3, <2>1
  <2>4. CASE r = freed
    <3>1. is_busy'[r] = FALSE
      BY <1>1, <2>1, <2>4
    <3>2. \A i \in 1 .. n - 1 : active_list'[i].curr_phy_dest # r
      BY <2>1, <2>3, <2>4
    <3> QED
      BY <3>1, <3>2
  <2>5. CASE r # freed
    <3>1. is_busy'[r] = is_busy[r]
      BY <1>1, <2>1, <2>5
    <3>2. \A i \in 1 .. n : active_list[i].curr_phy_dest = r => i \in 1 .. n - 1
      BY <2>1, <2>2, <2>5
    <3>3. ASSUME NEW i \in 1 .. n, active_list[i].curr_phy_dest = r, Unusable(i)
          PROVE  \E j \in 1 .. n - 1 : active_list'[j].curr_phy_dest = r /\ Unusable(j)'
      <4>1. i \in 1 .. n - 1
        BY <3>2, <3>3
      <4> QED
        BY <2>1, <3>3, <4>1
    <3>4. ASSUME NEW i \in 1 .. n - 1, active_list'[i].curr_phy_dest = r, Unusable(i)'
          PROVE  \E j \in 1 .. n : active_list[j].curr_phy_dest = r /\ Unusable(j)
      BY <2>1, <3>4
    <3> HIDE DEF Unusable
    <3> QED
      BY <1>2, <3>1, <3>3, <3>4
  <2> QED
    BY <2>4, <2>5
<1>6. CASE WriteBack
  <2> DEFINE instr == Forwarded(step + 1)
  <2>1. CASE exception_mode
    <3>1. AlusEmpty
      BY <2>1 DEF Flushed
    <3>2. step + 1 \in 1 .. NUM_ALUS /\ ALU_STAGES \in 1 .. ALU_STAGES
      BY <1>6, WriteBackPlaces
    <3>3. instr.type = "unknown"
      BY <3>1, <3>2 DEF AlusEmpty, Forwarded
    <3>4. UNCHANGED <<is_busy, active_list>>
      BY <1>6, <3>3 DEF WriteBack
    <3> QED
      BY <1>2, <1>3, <3>4
  <2>2. CASE ~exception_mode
    <3>1. LocatedInv
      BY <2>2 DEF Located
    <3>2. CASE instr.type = "unknown"
      <4>1. UNCHANGED <<is_busy, active_list>>
        BY <1>6, <3>2 DEF WriteBack
      <4> QED
        BY <1>2, <1>3, <4>1
    <3>3. CASE instr.type # "unknown"
      <4>1. PICK i \in 1 .. Len(active_list) :
               /\ InFlightAt(i, instr)
               /\ Len(active_list') = Len(active_list)
               /\ \A j \in 1 .. Len(active_list) :
                     j # i => active_list'[j] = active_list[j]
               /\ active_list'[i] = [active_list[i] EXCEPT
                     !.is_done = TRUE, !.is_exception = @ \/ instr.is_exception]
        BY <1>6, <3>1, <3>3, WriteBackMarks
      <4>2. is_busy' = [is_busy EXCEPT ![instr.dest] = instr.is_exception]
        BY <1>6, <3>1, <3>3, WriteBackMarks
      <4>3. instr.dest = active_list[i].curr_phy_dest /\ ~active_list[i].is_exception
        BY <3>1, <4>1 DEF InFlightAt, RenamedAt, LocatedInv, EntriesInv
      <4>4. active_list[i] \in ActiveEntry
        BY QueueTypes
      <4>5. /\ active_list'[i].curr_phy_dest = instr.dest
            /\ Unusable(i)' <=> instr.is_exception
        BY <4>1, <4>3, <4>4 DEF ActiveEntry
      <4> HIDE DEF instr
      <4> SUFFICES ASSUME NEW r \in PhyReg
                   PROVE  is_busy'[r] <=> \E j \in 1 .. Len(active_list) :
                             active_list'[j].curr_phy_dest = r /\ Unusable(j)'
        BY <1>3, <4>1
      <4>6. CASE r = instr.dest
        <5>1. is_busy'[r] <=> instr.is_exception
          BY <1>1, <4>2, <4>6
        <5>2. \A j \in 1 .. Len(active_list) : active_list'[j].curr_phy_dest = r => j = i
          BY <1>1, <4>1, <4>3, <4>6
        <5> QED
          BY <4>5, <4>6, <5>1, <5>2
      <4>7. CASE r # instr.dest
        <5>1. is_busy'[r] = is_busy[r]
          BY <1>1, <4>2, <4>7
        <5>2. ASSUME NEW j \in 1 .. Len(active_list)
              PROVE  (active_list'[j].curr_phy_dest = r /\ Unusable(j)') <=>
                     (active_list[j].curr_phy_dest = r /\ Unusable(j))
          <6>1. CASE j = i
            BY <4>3, <4>5, <4>7, <6>1
          <6>2. CASE j # i
            BY <4>1, <6>2
          <6> QED
            BY <6>1, <6>2
        <5> HIDE DEF Unusable
        <5> QED
          BY <1>2, <5>1, <5>2
      <4> QED
        BY <4>6, <4>7
    <3> QED
      BY <3>2, <3>3
  <2> QED
    BY <2>1, <2>2
<1>7. CASE RenameInstr
  <2> DEFINE n == Len(active_list)
             dest == Head(free_list)
             entry == NewActiveEntry(Head(dir), dest)
  <2>1. CASE UNCHANGED <<active_list, is_busy>>
    BY <1>2, <1>3, <2>1
  <2>2. CASE ~UNCHANGED <<active_list, is_busy>>
    <3>1. /\ n \in Nat /\ Len(active_list') = n + 1 /\ active_list'[n + 1] = entry
          /\ \A i \in 1 .. n : active_list'[i] = active_list[i] /\ i \in 1 .. n + 1
          /\ entry.curr_phy_dest = dest /\ ~entry.is_done
          /\ dest \in Range(free_list)
          /\ is_busy' = [is_busy EXCEPT ![dest] = TRUE]
      BY <1>7, <2>2, DispatchMoves
    <3>2. \A i \in 1 .. n : active_list[i].curr_phy_dest # dest
      BY <3>1 DEF RegistersGiven
    <3> HIDE DEF dest, entry
    <3> SUFFICES ASSUME NEW r \in PhyReg
                 PROVE  is_busy'[r] <=> \E i \in 1 .. n + 1 :
                                           active_list'[i].curr_phy_dest = r /\ Unusable(i)'
      BY <1>3, <3>1
    <3>3. n + 1 \in 1 .. n + 1 /\ \A i \in 1 .. n + 1 : i = n + 1 \/ i \in 1 .. n
      BY <3>1
    <3>4. CASE r = dest
      <4>1. is_busy'[r]
        BY <1>1, <3>1, <3>4
      <4> QED
        BY <3>1, <3>3, <3>4, <4>1
    <3>5. CASE r # dest
      <4>1. is_busy'[r] = is_busy[r]
        BY <1>1, <3>1, <3>5
      <4> QED
        BY <1>2, <3>1, <3>3, <3>5, <4>1
    <3> QED
      BY <3>4, <3>5
  <2> QED
    BY <2>1, <2>2
<1>8. CASE ~CommitInstr /\ ~RecoverInstr /\ ~WriteBack /\ ~RenameInstr
  <2>1. UNCHANGED <<is_busy, active_list>>
    BY <1>8, BusyKept
  <2> QED
    BY <1>2, <1>3, <2>1
<1> QED
  BY <1>4, <1>5, <1>6, <1>7, <1>8

\* Outside exception mode a register is busy exactly while the instruction that was
\* given it has no value for a consumer; in it too, if the handler is outside the program.
BusyExact == ~exception_mode \/ HandlerOutside => BusyBits

\* For every size of the machine, the busy bits that the readiness test of the integer
\* queue reads are the ones the active list accounts for.
THEOREM BusyBitsExact ==
    ASSUME UninitRegIdx \subseteq PhyReg
    PROVE  Spec => []BusyExact
<1>1. Init => BusyExact
  BY DEF Init, BusyExact, BusyBits
<1>2. /\ TypeOK /\ Accounting /\ RenameChain /\ RegistersGiven /\ Flushed /\ Located
      /\ BusyExact /\ [Next]_vars
      => BusyExact'
  <2> SUFFICES ASSUME TypeOK, Accounting, RenameChain, RegistersGiven, Flushed, Located,
                      BusyExact, [Next]_vars, ~exception_mode' \/ HandlerOutside'
               PROVE  BusyBits'
    BY DEF BusyExact
  <2>1. HandlerOutside' = HandlerOutside /\ (exception_mode => exception_mode')
    BY DEF HandlerOutside, Next, CommitCycle, CommitInstr, CommitDone, RaiseException,
       LeaveException, RecoverInstr, RecoverDone, AluCycles, WriteBack, IssueCycle, RefreshReady,
       TakeReady, PassWaiting, IssueToAlus, RenameDispatchCycle, CheckResources, RenameInstr,
       DispatchDone, FetchDecodeCycle, Terminated, vars, endVars
  <2>2. ~exception_mode \/ HandlerOutside
    BY <2>1
  <2>3. BusyBits
    BY <2>2 DEF BusyExact
  <2> QED
    BY <2>2, <2>3, BusyNext
<1> QED
  BY <1>1, <1>2, TypeCorrect, RenameChainHolds, RegistersGivenHolds, FlushedHolds,
     LocatedHolds, PTL DEF Spec

\* The exception handler stands at address 0x10000 (pc.c); for programs of up to that many
\* instructions, in which no instruction stands at the handler's address, the busy bits
\* are exact in every state, exception mode included.
THEOREM BusyBitsHold ==
    ASSUME UninitRegIdx \subseteq PhyReg,
           \A p \in Programs : Len(p) <= PC_EXCEPTION
    PROVE  Spec => []BusyBits
<1>1. Init => HandlerOutside
  BY DEF Init, HandlerOutside
<1>2. HandlerOutside /\ [Next]_vars => HandlerOutside'
  BY DEF HandlerOutside, Next, CommitCycle, CommitInstr, CommitDone, RaiseException,
     LeaveException, RecoverInstr, RecoverDone, AluCycles, WriteBack, IssueCycle, RefreshReady,
     TakeReady, PassWaiting, IssueToAlus, RenameDispatchCycle, CheckResources, RenameInstr,
     DispatchDone, FetchDecodeCycle, Terminated, vars, endVars
<1>3. BusyExact /\ HandlerOutside => BusyBits
  BY DEF BusyExact
<1> QED
  BY <1>1, <1>2, <1>3, BusyBitsExact, PTL DEF Spec
-----------------------------------------------------------------------------
\* A bundle fits into each of the empty structures.
EnoughRoom ==
    /\ FREE_LIST_SIZE >= INSTRUCTIONS_PER_CYCLE
    /\ ACTIVE_LIST_SIZE >= INSTRUCTIONS_PER_CYCLE
    /\ IQ_CAPACITY >= INSTRUCTIONS_PER_CYCLE

\* Nothing is in the pipeline and nothing is left to enter it.
AtRest ==
    /\ active_list = << >> /\ dir = << >> /\ iq = << >> /\ entries = << >> /\ AlusEmpty
    /\ ~is_exception /\ pc >= Len(program)

\* The processor announces the end only at rest: fetch sees backpressure only while an
\* instruction holds a resource, and an empty DIR otherwise.
RestInv ==
    /\ finished => ready_to_finish
    /\ stage = "dispatch" => ~backpressure
    /\ stage = "fetch" => IF backpressure THEN active_list # << >> ELSE dir = << >>
    /\ ready_to_finish => AtRest

\* No instruction is in place when the active list is empty.
LEMMA NothingInPlace ==
    ASSUME TypeOK, Located, Flushed, HandlerOutside, active_list = << >>
    PROVE  /\ iq = << >> /\ entries = << >>
           /\ stage = "fetch" => AlusEmpty
<1>1. CASE exception_mode
  BY <1>1 DEF Flushed
<1>2. CASE ~exception_mode
  <2>1. \A p \in Live : FALSE
    BY <1>2 DEF Located, LocatedInv, AllInFlight
  <2>2. Len(iq) = 0 /\ Len(entries) = 0
    <3>1. Len(iq) \in Nat /\ Len(entries) \in Nat
      BY QueueTypes
    <3>2. ASSUME NEW i \in 1 .. Len(iq) PROVE FALSE
      <4>1. <<"iq", i, 0>> \in Live
        BY PlaceIntro DEF Live
      <4> QED
        BY <2>1, <4>1
    <3>3. ASSUME NEW i \in 1 .. Len(entries) PROVE FALSE
      <4>1. <<"entries", i, 0>> \in Live
        BY PlaceIntro DEF Live
      <4> QED
        BY <2>1, <4>1
    <3>4. 1 \notin 1 .. Len(iq) /\ 1 \notin 1 .. Len(entries)
      BY <3>2, <3>3
    <3> QED
      BY <3>1, <3>4
  <2>3. iq = << >> /\ entries = << >>
    BY <2>2 DEF TypeOK
  <2>4. ASSUME stage = "fetch" PROVE AlusEmpty
    <3>1. WrittenBack = {}
      BY <2>4 DEF WrittenBack
    <3>2. ASSUME NEW a \in 1 .. NUM_ALUS, NEW s \in 1 .. ALU_STAGES,
                 alus[a][s].type # "unknown"
          PROVE  FALSE
      <4>1. <<"alu", a, s>> \in Live
        BY <3>1, <3>2, PlaceIntro DEF Live
      <4> QED
        BY <2>1, <4>1
    <3> QED
      BY <3>2 DEF AlusEmpty
  <2> QED
    BY <2>3, <2>4
<1> QED
  BY <1>1, <1>2

\* At rest no step changes anything the program shows.
LEMMA RestKept ==
    ASSUME TypeOK, Accounting, AtRest, [Next]_vars
    PROVE  AtRest' /\ UNCHANGED dumped
<1>1. Len(iq) = 0 /\ Len(dir) = 0 /\ pc \in Nat /\ Len(program) \in Nat /\ step \in Nat
  BY QueueTypes DEF AtRest
<1>2. /\ ~CommitInstr /\ ~RaiseException /\ ~RecoverInstr
      /\ ~RenameInstr /\ ~TakeReady /\ ~PassWaiting
  <2>1. ~(step < Len(iq))
    BY <1>1
  <2> QED
    BY <2>1 DEF AtRest, CommitInstr, RaiseException, RecoverInstr, RenameInstr, TakeReady,
       PassWaiting, Scanning
<1>3. AlusEmpty'
  BY AlusStayEmpty DEF AtRest
<1>4. CASE WriteBack
  <2>1. step + 1 \in 1 .. NUM_ALUS /\ ALU_STAGES \in 1 .. ALU_STAGES
    BY <1>4, WriteBackPlaces
  <2>2. Forwarded(step + 1).type = "unknown"
    BY <2>1 DEF AtRest, AlusEmpty, Forwarded
  <2> QED
    BY <1>3, <1>4, <2>2
    DEF WriteBack, AtRest, dumped, archVars, issueVars, endVars, IterateUpTo
<1>5. CASE RefreshReady
  <2>1. iq' = << >>
    BY <1>1, <1>5 DEF RefreshReady
  <2> QED
    BY <1>3, <1>5, <2>1
    DEF RefreshReady, AtRest, dumped, archVars, renameVars, regVars, endVars
<1>6. CASE FetchDecodeCycle
  <2>1. FetchCount = 0
    <3>1. ~(pc < Len(program))
      BY <1>1 DEF AtRest
    <3> QED
      BY <1>1, <3>1, SizesAssumption DEF FetchCount, SmallerOf, DIR_SIZE
  <2>2. dir' = dir /\ pc' = pc
    <3>1. [k \in 1 .. 0 |-> pc + k - 1] = << >>
      OBVIOUS
    <3>2. dir' = << >> \o << >> /\ pc' = pc + 0
      BY <1>6, <2>1, <3>1 DEF FetchDecodeCycle, NextPc, AtRest
    <3> QED
      BY <1>1, <3>2 DEF AtRest
  <2> QED
    BY <1>3, <1>6, <2>2
    DEF FetchDecodeCycle, AtRest, dumped, renameVars, regVars, issueVars
<1>7. CASE ~WriteBack /\ ~RefreshReady /\ ~FetchDecodeCycle
  <2>1. is_exception = FALSE
    BY DEF AtRest, TypeOK
  <2>2. /\ UNCHANGED <<pc, exception_pc, physical, logical, free_list, is_busy, active_list,
                       dir, iq, program>>
        /\ is_exception' = FALSE /\ entries' = << >>
    BY <1>2, <1>7, <2>1 DEF AtRest, Next, CommitCycle, CommitDone, LeaveException, RecoverDone, AluCycles,
       IssueCycle, IssueToAlus, RenameDispatchCycle, CheckResources, DispatchDone, Terminated,
       vars, archVars, renameVars, regVars, issueVars, endVars
  <2> QED
    BY <1>3, <2>1, <2>2 DEF AtRest, dumped
<1> QED
  BY <1>4, <1>5, <1>6, <1>7
\* The processor comes to rest before it announces the end, and stays at rest.
LEMMA RestNext ==
    ASSUME UninitRegIdx \subseteq PhyReg, EnoughRoom,
           TypeOK, Accounting, FetchOrder, Located, Flushed, HandlerOutside, RestInv,
           [Next]_vars
    PROVE  RestInv'
<1>1. ready_to_finish => AtRest'
  BY RestKept DEF RestInv
<1>2. stage' = "dispatch" => ~backpressure'
  <2>1. CASE CheckResources
    BY <2>1 DEF CheckResources, GoTo
  <2>2. CASE RenameInstr
    BY <2>2 DEF RenameInstr, RestInv
  <2>3. CASE UNCHANGED <<stage, backpressure>>
    BY <2>3 DEF RestInv
  <2>4. CASE ~CheckResources /\ ~RenameInstr /\ ~UNCHANGED <<stage, backpressure>>
    <3>1. stage' # "dispatch"
      BY <2>4 DEF Next, CommitCycle, CommitInstr, CommitDone, RaiseException, LeaveException,
         RecoverInstr, RecoverDone, AluCycles, WriteBack, IssueCycle, RefreshReady, TakeReady,
         PassWaiting, IssueToAlus, RenameDispatchCycle, DispatchDone, FetchDecodeCycle,
         Terminated, GoTo, Iterate, IterateUpTo, Abort, AtCommit, StayAtIndex, vars
    <3> QED
      BY <3>1
  <2> QED
    BY <2>1, <2>2, <2>3, <2>4
<1>3. stage' = "fetch" => IF backpressure' THEN active_list' # << >> ELSE dir' = << >>
  <2>1. CASE CheckResources
    <3>1. CASE RoomForBundle
      BY <2>1, <3>1 DEF CheckResources, GoTo
    <3>2. CASE ~RoomForBundle
      <4>1. active_list' = active_list /\ backpressure' = TRUE
        BY <2>1, <3>2 DEF CheckResources, renameVars
      <4>2. ASSUME active_list = << >> PROVE FALSE
        <5>1. iq = << >>
          BY <4>2, NothingInPlace
        <5>2. Len(iq) = 0 /\ Len(active_list) = 0 /\ Len(free_list) = FREE_LIST_SIZE
          BY <4>2, <5>1, SizesAssumption, RegLogAssumption
          DEF Accounting, TypeOK, FREE_LIST_SIZE
        <5> QED
          BY <3>2, <5>2, SizesAssumption, RegLogAssumption
          DEF RoomForBundle, EnoughRoom, ACTIVE_LIST_SIZE
      <4> QED
        BY <4>1, <4>2
    <3> QED
      BY <3>1, <3>2
  <2>2. CASE DispatchDone
    <3>1. ~backpressure /\ dir = << >> /\ dir' = dir /\ backpressure' = backpressure
      BY <2>2 DEF DispatchDone, RestInv
    <3> QED
      BY <3>1
  <2>3. CASE RenameInstr
    <3>1. stage' # "fetch"
      BY <2>3, DispatchEffect DEF RenameInstr
    <3> QED
      BY <3>1
  <2>4. CASE UNCHANGED vars
    BY <2>4 DEF RestInv, vars, renameVars
  <2>5. CASE ~CheckResources /\ ~DispatchDone /\ ~RenameInstr /\ ~UNCHANGED vars
    <3>1. stage' # "fetch"
      BY <2>5 DEF Next, CommitCycle, CommitInstr, CommitDone, RaiseException, LeaveException,
         RecoverInstr, RecoverDone, AluCycles, WriteBack, IssueCycle, RefreshReady, TakeReady,
         PassWaiting, IssueToAlus, RenameDispatchCycle, FetchDecodeCycle, Terminated, GoTo,
         Iterate, IterateUpTo, Abort, AtCommit, Scanning, StayAtIndex
    <3> QED
      BY <3>1
  <2> QED
    BY <2>1, <2>2, <2>3, <2>4, <2>5
<1>4. CASE FetchDecodeCycle /\ ~ready_to_finish /\ NothingLeft
  <2>1. active_list = << >> /\ ~is_exception /\ FetchCount = 0 /\ dir = << >>
    BY <1>4 DEF NothingLeft, FetchDecodeCycle, RestInv
  <2>2. iq = << >> /\ entries = << >> /\ AlusEmpty /\ ~backpressure
    BY <1>4, <2>1, NothingInPlace DEF FetchDecodeCycle, RestInv
  <2>3. pc >= Len(program)
    <3>1. Len(dir) = 0 /\ pc \in Nat /\ Len(program) \in Nat
      BY <2>1, QueueTypes
    <3> QED
      BY <2>1, <2>2, <3>1, SizesAssumption DEF FetchCount, SmallerOf, DIR_SIZE
  <2>4. AtRest
    BY <2>1, <2>2, <2>3 DEF AtRest
  <2>5. AtRest'
    BY <2>4, RestKept
  <2> QED
    BY <1>2, <1>3, <1>4, <2>5 DEF RestInv, FetchDecodeCycle
<1>5. CASE ~(FetchDecodeCycle /\ ~ready_to_finish /\ NothingLeft)
  <2>1. ready_to_finish' = ready_to_finish /\ (finished' => ready_to_finish)
    <3>1. CASE FetchDecodeCycle
      BY <1>5, <3>1 DEF FetchDecodeCycle, TypeOK, NothingLeft
    <3>2. CASE ~FetchDecodeCycle
      <4>1. UNCHANGED <<finished, ready_to_finish>>
        BY <3>2 DEF Next, CommitCycle, CommitInstr, CommitDone, RaiseException, LeaveException,
           RecoverInstr, RecoverDone, AluCycles, WriteBack, IssueCycle, RefreshReady, TakeReady,
           PassWaiting, IssueToAlus, RenameDispatchCycle, CheckResources, RenameInstr,
           DispatchDone, Terminated, vars, endVars
      <4> QED
        BY <4>1 DEF RestInv
    <3> QED
      BY <3>1, <3>2
  <2> QED
    BY <1>1, <1>2, <1>3, <2>1 DEF RestInv
<1> QED
  BY <1>4, <1>5

\* The processor announces the end at rest, whatever the program does.
THEOREM RestHolds ==
    ASSUME UninitRegIdx \subseteq PhyReg, EnoughRoom,
           \A p \in Programs : Len(p) <= PC_EXCEPTION
    PROVE  Spec => [](HandlerOutside /\ RestInv)
<1>1. Init => HandlerOutside /\ RestInv
  BY DEF Init, HandlerOutside, RestInv
<1>2. HandlerOutside /\ [Next]_vars => HandlerOutside'
  BY DEF HandlerOutside, Next, CommitCycle, CommitInstr, CommitDone, RaiseException,
     LeaveException, RecoverInstr, RecoverDone, AluCycles, WriteBack, IssueCycle, RefreshReady,
     TakeReady, PassWaiting, IssueToAlus, RenameDispatchCycle, CheckResources, RenameInstr,
     DispatchDone, FetchDecodeCycle, Terminated, vars, endVars
<1>3. /\ TypeOK /\ Accounting /\ FetchOrder /\ Located /\ Flushed /\ HandlerOutside /\ RestInv
      /\ [Next]_vars
      => RestInv'
  BY RestNext
<1> QED
  BY <1>1, <1>2, <1>3, TypeCorrect, FetchOrderHolds, LocatedHolds, FlushedHolds, PTL DEF Spec

\* When the simulation stops, every instruction of the program was committed or an
\* exception was taken and undone: no instruction is left in the pipeline.
THEOREM CompleteAtEndHolds ==
    ASSUME UninitRegIdx \subseteq PhyReg, EnoughRoom,
           \A p \in Programs : Len(p) <= PC_EXCEPTION
    PROVE  Spec => []CompleteAtEnd
<1>1. RestInv => CompleteAtEnd
  BY DEF RestInv, AtRest, CompleteAtEnd
<1> QED
  BY <1>1, RestHolds, PTL

\* Nothing the dump shows changes after the dump that announces the end.
THEOREM LastDumpIsFinal ==
    ASSUME UninitRegIdx \subseteq PhyReg, EnoughRoom,
           \A p \in Programs : Len(p) <= PC_EXCEPTION
    PROVE  Spec => LastDumpFinal
<1>1. TypeOK /\ Accounting /\ RestInv /\ [Next]_vars => [ready_to_finish => UNCHANGED dumped]_vars
  BY RestKept DEF RestInv
<1> QED
  BY <1>1, TypeCorrect, RestHolds, PTL DEF Spec, LastDumpFinal
-----------------------------------------------------------------------------
(***************************************************************************)
(* The values that instructions compute and read.                          *)
(***************************************************************************)

\* The register r has its value: no instruction that computes it is unfinished, and
\* none raised an exception.
Settled(r) ==
    \A i \in 1 .. Len(active_list) :
        active_list[i].curr_phy_dest = r =>
            active_list[i].is_done /\ ~active_list[i].is_exception

\* The operands of the instruction at position i of the active list.
Source(i) == InstructionAt(active_list[i].pc)
ImmSource(i) == Source(i).type \in ImmOps
ValueA(i) == physical[MapAt(i, Source(i).opA)]
ValueB(i) == IF ImmSource(i) THEN Source(i).opB ELSE physical[MapAt(i, Source(i).opB)]

\* It has computed its value, or raised its exception, from final operands.
Computed(i) ==
    /\ Settled(MapAt(i, Source(i).opA))
    /\ ~ImmSource(i) => Settled(MapAt(i, Source(i).opB))
    /\ active_list[i].is_exception = RaisesException(Source(i).type, ValueB(i))
    /\ physical[active_list[i].curr_phy_dest] = Result(Source(i).type, ValueA(i), ValueB(i))

\* A renamed instruction carries the final values of its operands.
ReadA(instr) == Settled(instr.opA) /\ instr.valA = physical[instr.opA]
ReadB(instr) ==
    instr.type \notin ImmOps => Settled(instr.opB) /\ instr.valB = physical[instr.opB]

\* The result of an instruction that an ALU has executed.
Calculated(instr) ==
    /\ instr.value = Result(instr.type, instr.valA, instr.valB)
    /\ instr.is_exception = RaisesException(instr.type, instr.valB)

\* Stage s of ALU a holds an instruction that has not been written back.
Working(a, s) == alus[a][s].type # "unknown" /\ ~(s = ALU_STAGES /\ a \in WrittenBack)

\* Every finished instruction has computed its value, and an instruction on its way has
\* read final values.
DoneComputed == \A i \in 1 .. Len(active_list) : active_list[i].is_done => Computed(i)
EntryRead(entry) == /\ entry.is_opA_ready => ReadA(entry.instr)
                    /\ entry.is_opB_ready => ReadB(entry.instr)
ReadyRead(queue) == \A i \in 1 .. Len(queue) : EntryRead(queue[i])
WorkingRead ==
    \A a \in 1 .. NUM_ALUS, s \in 1 .. ALU_STAGES :
        Working(a, s) =>
            /\ ReadA(alus[a][s]) /\ ReadB(alus[a][s])
            /\ stage = "writeback" /\ s = ALU_STAGES => Calculated(alus[a][s])
ValuesInv == DoneComputed /\ ReadyRead(iq) /\ ReadyRead(entries) /\ WorkingRead
Values == ~exception_mode => ValuesInv

-----------------------------------------------------------------------------
\* The map of committed instructions is the map before the oldest instruction in flight.
LEMMA CommittedIsFirst == \A l : CommittedMap(l) = MapAt(1, l)
BY DEF CommittedMap, Writers, MapAt, MapOf, WritersFrom

\* A position has the map of the next one, but for the register its instruction writes.
LEMMA MapAtNext ==
    ASSUME TypeOK, RenameChain, NEW i \in 1 .. Len(active_list), NEW l \in LogReg
    PROVE  /\ active_list[i].log_dest # l => MapAt(i, l) = MapAt(i + 1, l)
           /\ active_list[i].log_dest = l => MapAt(i + 1, l) = active_list[i].curr_phy_dest
<1>1. Len(active_list) \in Nat /\ i \in Nat /\ i + 1 \in Nat
  BY QueueTypes
<1>2. PICK next \in Nat : next = i + 1
  BY <1>1
<1>3. CASE NoWriter(active_list, next, l)
  <2>1. MapAt(next, l) = logical[l]
    BY <1>3, MapOfNone DEF MapAt
  <2>2. ASSUME active_list[i].log_dest # l PROVE MapAt(i, l) = logical[l]
    <3>1. NoWriter(active_list, i, l)
      BY <1>1, <1>2, <1>3, <2>2 DEF NoWriter
    <3> QED
      BY <3>1, MapOfNone DEF MapAt
  <2>3. ASSUME active_list[i].log_dest = l PROVE logical[l] = active_list[i].curr_phy_dest
    <3>1. LaterWriters(i) = {}
      BY <1>1, <1>2, <1>3, <2>3 DEF NoWriter, LaterWriters
    <3> QED
      BY <2>3, <3>1 DEF RenameChain
  <2> QED
    BY <1>2, <2>1, <2>2, <2>3
<1>4. CASE \E j \in next .. Len(active_list) : FirstWriter(active_list, next, l, j)
  <2>1. PICK j \in next .. Len(active_list) : FirstWriter(active_list, next, l, j)
    BY <1>4
  <2>2. MapAt(next, l) = active_list[j].old_phy_dest
    BY <1>1, <1>2, <2>1, MapOfFirst DEF MapAt
  <2>3. ASSUME active_list[i].log_dest # l PROVE MapAt(i, l) = active_list[j].old_phy_dest
    <3>1. FirstWriter(active_list, i, l, j)
      BY <1>1, <1>2, <2>1, <2>3 DEF FirstWriter
    <3>2. j \in i .. Len(active_list)
      BY <1>1, <1>2
    <3> QED
      BY <1>1, <3>1, <3>2, MapOfFirst DEF MapAt
  <2>4. ASSUME active_list[i].log_dest = l
        PROVE  active_list[j].old_phy_dest = active_list[i].curr_phy_dest
    <3>1. j \in LaterWriters(i) /\ \A k \in LaterWriters(i) : j <= k
      BY <1>1, <1>2, <2>1, <2>4 DEF FirstWriter, LaterWriters
    <3> QED
      BY <3>1 DEF RenameChain
  <2> QED
    BY <1>2, <2>2, <2>3, <2>4
<1> QED
  BY <1>1, <1>2, <1>3, <1>4, MapOfCases
\* A register that is not free and has its value keeps it: no step outside exception
\* mode computes it again.
LEMMA SettledKept ==
    ASSUME TypeOK, Accounting, RegistersGiven, LocatedInv, ~exception_mode, [Next]_vars,
           NEW r \in PhyReg, r \notin Range(free_list), Settled(r)
    PROVE  Settled(r)' /\ physical'[r] = physical[r]
<1>1. CASE CommitInstr
  <2>1. \A i \in 1 .. Len(active_list') :
           active_list'[i] = active_list[i + 1] /\ i + 1 \in 1 .. Len(active_list)
    BY <1>1, CommitMoves
  <2>2. physical' = physical
    BY <1>1 DEF CommitInstr, regVars
  <2> QED
    BY <2>1, <2>2 DEF Settled
<1>2. CASE WriteBack
  <2> DEFINE instr == Forwarded(step + 1)
  <2>1. CASE instr.type = "unknown"
    <3>1. UNCHANGED <<active_list, physical>>
      BY <1>2, <2>1, WriteBackMarks
    <3> QED
      BY <3>1 DEF Settled
  <2>2. CASE instr.type # "unknown"
    <3>1. PICK i \in 1 .. Len(active_list) :
             /\ InFlightAt(i, instr)
             /\ Len(active_list') = Len(active_list)
             /\ \A j \in 1 .. Len(active_list) :
                   j # i => active_list'[j] = active_list[j]
             /\ active_list'[i] = [active_list[i] EXCEPT
                   !.is_done = TRUE, !.is_exception = @ \/ instr.is_exception]
      BY <1>2, <2>2, WriteBackMarks
    <3>2. physical' = [physical EXCEPT ![instr.dest] = instr.value]
      BY <1>2, <2>2, WriteBackMarks
    <3>3. /\ active_list[i].curr_phy_dest = instr.dest /\ ~active_list[i].is_done
          /\ active_list[i] \in ActiveEntry
      BY <3>1, QueueTypes DEF InFlightAt, RenamedAt
    <3> HIDE DEF instr
    <3>4. active_list'[i].curr_phy_dest = instr.dest
      BY <3>1, <3>3 DEF ActiveEntry
    <3>5. r # instr.dest
      BY <3>3 DEF Settled
    <3>6. physical'[r] = physical[r]
      BY <3>2, <3>5 DEF TypeOK
    <3> QED
      BY <3>1, <3>4, <3>5, <3>6 DEF Settled
  <2> QED
    BY <2>1, <2>2
<1>3. CASE RenameInstr
  <2>1. physical' = physical
    BY <1>3 DEF RenameInstr
  <2>2. CASE UNCHANGED active_list
    BY <2>1, <2>2 DEF Settled
  <2>3. CASE active_list' # active_list
    <3> DEFINE n == Len(active_list)
               dest == Head(free_list)
               entry == NewActiveEntry(Head(dir), dest)
    <3>1. /\ n \in Nat /\ Len(active_list') = n + 1 /\ active_list'[n + 1] = entry
          /\ \A i \in 1 .. n : active_list'[i] = active_list[i]
          /\ entry.curr_phy_dest = dest /\ dest \in Range(free_list)
      BY <1>3, <2>3, DispatchMoves
    <3> HIDE DEF dest, entry
    <3>2. \A i \in 1 .. n + 1 : i = n + 1 \/ i \in 1 .. n
      BY <3>1
    <3>3. r # dest
      BY <3>1
    <3> QED
      BY <2>1, <3>1, <3>2, <3>3 DEF Settled
  <2> QED
    BY <2>2, <2>3
<1>4. CASE ~CommitInstr /\ ~WriteBack /\ ~RenameInstr
  <2>1. ~RecoverInstr
    BY DEF RecoverInstr
  <2>2. UNCHANGED <<active_list, physical>>
    BY <1>4, <2>1 DEF Next, CommitCycle, CommitDone, RaiseException, LeaveException,
       RecoverDone, AluCycles, IssueCycle, RefreshReady, TakeReady, PassWaiting, IssueToAlus,
       RenameDispatchCycle, CheckResources, DispatchDone, FetchDecodeCycle, Terminated, vars,
       renameVars, regVars
  <2> QED
    BY <2>2 DEF Settled
<1> QED
  BY <1>1, <1>2, <1>3, <1>4

\* What an instruction in place has read stays what it reads.
LEMMA ReadKept ==
    ASSUME TypeOK, Accounting, RegisterPartition, RegistersGiven, LocatedInv,
           pc <= Len(program), ~exception_mode, [Next]_vars,
           NEW p \in Live, NEW instr, instr.type = At(p).type,
           instr.opA = At(p).opA, instr.opB = At(p).opB
    PROVE  /\ ReadA(instr) => ReadA(instr)'
           /\ ReadB(instr) => ReadB(instr)'
<1>1. instr.opA \in PhyReg /\ instr.opA \notin Range(free_list)
  BY OperandsHeld
<1>2. instr.type \notin ImmOps => instr.opB \in PhyReg /\ instr.opB \notin Range(free_list)
  BY OperandsHeld
<1>3. ASSUME ReadA(instr) PROVE ReadA(instr)'
  BY <1>1, <1>3, SettledKept DEF ReadA
<1>4. ASSUME ReadB(instr) PROVE ReadB(instr)'
  BY <1>2, <1>4, SettledKept DEF ReadB
<1> QED
  BY <1>3, <1>4

\* A register that is not busy, and of no exceptional instruction, has its value.
LEMMA ReadySettled ==
    ASSUME BusyBits, NEW r \in PhyReg, RegisterReady(r, is_busy, active_list)
    PROVE  Settled(r)
BY DEF BusyBits, RegisterReady, Settled

\* So the operands that WithReadiness finds ready are final.
LEMMA ReadinessReads ==
    ASSUME BusyBits, NEW instr \in Renamed
    PROVE  LET read == WithReadiness(instr, is_busy, active_list)
           IN  EntryRead(read)
<1> DEFINE read == WithReadiness(instr, is_busy, active_list)
<1>1. /\ read.instr.type = instr.type /\ read.instr.opA = instr.opA
      /\ read.instr.opB = instr.opB
      /\ read.is_opA_ready = RegisterReady(instr.opA, is_busy, active_list)
      /\ read.is_opB_ready = (instr.type \in ImmOps
                              \/ RegisterReady(instr.opB, is_busy, active_list))
      /\ read.is_opA_ready => read.instr.valA = physical[instr.opA]
      /\ (read.is_opB_ready /\ instr.type \notin ImmOps) =>
             read.instr.valB = physical[instr.opB]
  BY ReadinessKeeps
<1> HIDE DEF read
<1>2. instr.opA \in PhyReg /\ instr.opB \in PhyReg
  BY DEF Renamed
<1>3. read.is_opA_ready => ReadA(read.instr)
  BY <1>1, <1>2, ReadySettled DEF ReadA
<1>4. read.is_opB_ready => ReadB(read.instr)
  BY <1>1, <1>2, ReadySettled DEF ReadB
<1>5. EntryRead(read)
  BY <1>3, <1>4 DEF EntryRead
<1> QED
  BY <1>5 DEF read
\* The same after renaming, with the busy bits and the entries it leaves.
LEMMA ReadySettledNext ==
    ASSUME BusyBits', NEW r \in PhyReg, RegisterReady(r, is_busy', active_list')
    PROVE  Settled(r)'
BY DEF BusyBits, RegisterReady, Settled

\* Only write-back computes a register, of an instruction that was unfinished.
LEMMA ValueKept ==
    ASSUME TypeOK, Accounting, RegistersGiven, LocatedInv, ~exception_mode, [Next]_vars,
           NEW i \in 1 .. Len(active_list), active_list[i].is_done
    PROVE  physical'[active_list[i].curr_phy_dest] = physical[active_list[i].curr_phy_dest]
<1>1. CASE WriteBack /\ Forwarded(step + 1).type # "unknown"
  <2> DEFINE instr == Forwarded(step + 1)
  <2>1. PICK j \in 1 .. Len(active_list) : InFlightAt(j, instr)
    BY <1>1, WriteBackMarks
  <2>2. physical' = [physical EXCEPT ![instr.dest] = instr.value]
    BY <1>1, WriteBackMarks
  <2>3. active_list[j].curr_phy_dest = instr.dest /\ ~active_list[j].is_done
    BY <2>1 DEF InFlightAt, RenamedAt
  <2> HIDE DEF instr
  <2>4. active_list[i].curr_phy_dest # instr.dest
    BY <2>3 DEF RegistersGiven
  <2>5. active_list[i].curr_phy_dest \in PhyReg /\ physical \in [PhyReg -> Word]
    BY QueueTypes DEF TypeOK
  <2> QED
    BY <2>2, <2>4, <2>5
<1>2. CASE ~(WriteBack /\ Forwarded(step + 1).type # "unknown")
  <2>1. physical' = physical
    BY <1>2 DEF Next, CommitCycle, CommitInstr, CommitDone, RaiseException, LeaveException,
       RecoverInstr, RecoverDone, AluCycles, WriteBack, IssueCycle, RefreshReady, TakeReady,
       PassWaiting, IssueToAlus, RenameDispatchCycle, CheckResources, RenameInstr, DispatchDone,
       FetchDecodeCycle, Terminated, vars, regVars
  <2> QED
    BY <2>1
<1> QED
  BY <1>1, <1>2

\* What an instruction has computed stays, and its operands stay final, while it is in
\* the active list, at whatever position.
LEMMA ComputedKept ==
    ASSUME TypeOK, Accounting, RegisterPartition, RegistersGiven, LocatedInv,
           pc <= Len(program), ~exception_mode, [Next]_vars, program' = program,
           NEW i \in 1 .. Len(active_list), active_list[i].is_done, Computed(i),
           NEW j, active_list'[j] = active_list[i],
           \A l \in LogReg : MapAt(j, l)' = MapAt(i, l)
    PROVE  Computed(j)'
<1>1. PICK source : source = Source(i)
  OBVIOUS
<1>2. Source(j)' = source
  BY <1>1 DEF Source, InstructionAt
<1>3. /\ source.opA \in LogReg
      /\ source.type \notin ImmOps => source.opB \in LogReg
  BY <1>1, SourceTypes DEF LocatedInv, Source
<1>4. PICK a : a = MapAt(i, source.opA)
  OBVIOUS
<1>5. PICK b : b = MapAt(i, source.opB)
  OBVIOUS
<1>6. i \in Nat /\ i > 0
  BY QueueTypes
<1>7. a \in PhyReg /\ a \notin Range(free_list)
  BY <1>3, <1>4, <1>6, MappedHeld
<1>8. source.type \notin ImmOps => b \in PhyReg /\ b \notin Range(free_list)
  BY <1>3, <1>5, <1>6, MappedHeld
<1>9. Settled(a)' /\ physical'[a] = physical[a]
  BY <1>1, <1>4, <1>7, SettledKept DEF Computed
<1>10. source.type \notin ImmOps => Settled(b)' /\ physical'[b] = physical[b]
  BY <1>1, <1>5, <1>8, SettledKept DEF Computed, ImmSource
<1>11. /\ MapAt(j, source.opA)' = a
       /\ source.type \notin ImmOps => MapAt(j, source.opB)' = b
  BY <1>3, <1>4, <1>5
<1>12. physical'[active_list'[j].curr_phy_dest] = physical[active_list[i].curr_phy_dest]
  BY ValueKept
<1>13. ValueA(j)' = ValueA(i)
  BY <1>1, <1>2, <1>4, <1>9, <1>11 DEF ValueA
<1>14. ValueB(j)' = ValueB(i)
  BY <1>1, <1>2, <1>5, <1>10, <1>11 DEF ValueB, ImmSource
<1>15. Settled(MapAt(j, Source(j).opA))'
  BY <1>2, <1>9, <1>11
<1>16. ASSUME ~ImmSource(j)' PROVE Settled(MapAt(j, Source(j).opB))'
  BY <1>2, <1>10, <1>11, <1>16 DEF ImmSource
<1> QED
  BY <1>1, <1>2, <1>12, <1>13, <1>14, <1>15, <1>16 DEF Computed

\* Write-back of an executed instruction finishes its entry with the value computed.
LEMMA WriteBackComputes ==
    ASSUME TypeOK, Accounting, RegisterPartition, RegistersGiven, LocatedInv,
           pc <= Len(program), ~exception_mode, [Next]_vars, WriteBack, WorkingRead,
           NEW i \in 1 .. Len(active_list), InFlightAt(i, Forwarded(step + 1)),
           Forwarded(step + 1).type # "unknown",
           active_list'[i] = [active_list[i] EXCEPT !.is_done = TRUE,
                                 !.is_exception = @ \/ Forwarded(step + 1).is_exception]
    PROVE  Computed(i)'
<1>1. PICK instr : instr = Forwarded(step + 1)
  OBVIOUS
<1>2. ReadA(instr) /\ ReadB(instr) /\ Calculated(instr)
  <2>1. step + 1 \in 1 .. NUM_ALUS /\ ALU_STAGES \in 1 .. ALU_STAGES
    BY WriteBackPlaces
  <2>2. stage = "writeback" /\ step + 1 \notin WrittenBack
    BY <2>1, QueueTypes DEF WriteBack, WrittenBack
  <2>3. Working(step + 1, ALU_STAGES) /\ alus[step + 1][ALU_STAGES] = instr
    BY <1>1, <2>2 DEF Working, Forwarded
  <2> QED
    BY <2>1, <2>2, <2>3 DEF WorkingRead
<1>3. /\ active_list[i].pc = instr.pc /\ ~active_list[i].is_done
      /\ instr.type = Source(i).type /\ instr.dest = active_list[i].curr_phy_dest
      /\ instr.opA = MapAt(i, Source(i).opA)
      /\ Source(i).type \in ImmOps => instr.valB = Source(i).opB
      /\ Source(i).type \notin ImmOps => instr.opB = MapAt(i, Source(i).opB)
  BY <1>1 DEF InFlightAt, RenamedAt, Source
<1>4. PICK source : source = Source(i)
  OBVIOUS
<1>5. active_list[i] \in ActiveEntry /\ ~active_list[i].is_exception
  BY <1>3, QueueTypes DEF LocatedInv, EntriesInv
<1>6. /\ active_list'[i].pc = active_list[i].pc
      /\ active_list'[i].curr_phy_dest = instr.dest
      /\ active_list'[i].is_exception = instr.is_exception
  <2>1. instr.is_exception \in BOOLEAN
    BY <1>1, WriteBackPlaces DEF Renamed, EmptySlot
  <2>2. /\ active_list'[i].pc = active_list[i].pc
        /\ active_list'[i].curr_phy_dest = instr.dest
    BY <1>3, <1>5 DEF ActiveEntry
  <2>3. active_list'[i].is_exception = (active_list[i].is_exception \/ instr.is_exception)
    BY <1>1, <1>5 DEF ActiveEntry
  <2> QED
    BY <1>5, <2>1, <2>2, <2>3
<1>7. Source(i)' = source
  BY <1>4, <1>6, WriteBackMarks DEF Source, InstructionAt
<1>8. /\ source.opA \in LogReg
      /\ source.type \notin ImmOps => source.opB \in LogReg
  BY <1>4, SourceTypes DEF LocatedInv, Source
<1>9. \A l \in LogReg : MapAt(i, l)' = MapAt(i, l)
  <2>1. ~CommitInstr /\ ~RecoverInstr /\ ~RenameInstr
    BY DEF WriteBack, CommitInstr, RecoverInstr, RenameInstr, AtCommit
  <2>2. i \in Nat /\ i > 0
    BY QueueTypes
  <2> QED
    BY <2>1, <2>2, MapAtKept
<1>10. /\ MapAt(i, source.opA)' = instr.opA
       /\ source.type \notin ImmOps => MapAt(i, source.opB)' = instr.opB
  BY <1>3, <1>4, <1>8, <1>9
<1>11. <<"alu", step + 1, ALU_STAGES>> \in Live
       /\ At(<<"alu", step + 1, ALU_STAGES>>) = instr
  BY <1>1, WriteBackPlaces
<1>12. /\ instr.opA \in PhyReg /\ instr.opA \notin Range(free_list)
       /\ instr.type \notin ImmOps => instr.opB \in PhyReg /\ instr.opB \notin Range(free_list)
  BY <1>11, OperandsHeld
<1>13. Settled(instr.opA)' /\ physical'[instr.opA] = instr.valA
  BY <1>2, <1>12, SettledKept DEF ReadA
<1>14. instr.type \notin ImmOps => Settled(instr.opB)' /\ physical'[instr.opB] = instr.valB
  BY <1>2, <1>12, SettledKept DEF ReadB
<1>15. ValueA(i)' = instr.valA
  BY <1>7, <1>10, <1>13 DEF ValueA
<1>16. ValueB(i)' = instr.valB
  BY <1>3, <1>4, <1>7, <1>10, <1>14 DEF ValueB, ImmSource
<1>17. physical'[active_list'[i].curr_phy_dest] = instr.value
  <2>1. physical' = [physical EXCEPT ![instr.dest] = instr.value]
    BY <1>1, WriteBackMarks
  <2>2. instr.dest \in PhyReg /\ physical \in [PhyReg -> Word]
    BY <1>3, QueueTypes DEF TypeOK
  <2> QED
    BY <1>6, <2>1, <2>2
<1>18. Settled(MapAt(i, Source(i).opA))'
  BY <1>7, <1>10, <1>13
<1>19. ASSUME ~ImmSource(i)' PROVE Settled(MapAt(i, Source(i).opB))'
  BY <1>3, <1>4, <1>7, <1>10, <1>14, <1>19 DEF ImmSource
<1>20. /\ active_list'[i].is_exception = RaisesException(source.type, instr.valB)
       /\ physical'[active_list'[i].curr_phy_dest] =
              Result(source.type, instr.valA, instr.valB)
  BY <1>2, <1>3, <1>4, <1>6, <1>17 DEF Calculated
<1> QED
  BY <1>7, <1>15, <1>16, <1>18, <1>19, <1>20 DEF Computed
-----------------------------------------------------------------------------
\* No step changes the program.
LEMMA ProgramKept == [Next]_vars => program' = program
BY DEF Next, CommitCycle, CommitInstr, CommitDone, RaiseException, LeaveException, RecoverInstr,
   RecoverDone, AluCycles, WriteBack, IssueCycle, RefreshReady, TakeReady, PassWaiting,
   IssueToAlus, RenameDispatchCycle, CheckResources, RenameInstr, DispatchDone,
   FetchDecodeCycle, Terminated, vars, endVars

\* The finished instructions after a step.
LEMMA DoneNext ==
    ASSUME TypeOK, Accounting, RegisterPartition, RegistersGiven, LocatedInv,
           pc <= Len(program), ~exception_mode, [Next]_vars, DoneComputed, WorkingRead
    PROVE  DoneComputed'
<1> SUFFICES ASSUME NEW j \in 1 .. Len(active_list'), active_list'[j].is_done
             PROVE  Computed(j)'
  BY DEF DoneComputed
<1>1. program' = program
  BY ProgramKept
<1>2. Len(active_list) \in Nat
  BY QueueTypes
<1>3. ASSUME NEW i \in 1 .. Len(active_list), active_list'[j] = active_list[i],
             \A l \in LogReg : MapAt(j, l)' = MapAt(i, l)
      PROVE  Computed(j)'
  <2>1. active_list[i].is_done /\ Computed(i)
    BY <1>3 DEF DoneComputed
  <2> QED
    BY <1>1, <1>3, <2>1, ComputedKept
<1>4. CASE CommitInstr
  <2>1. j + 1 \in 1 .. Len(active_list) /\ active_list'[j] = active_list[j + 1]
    BY <1>4, CommitMoves
  <2>2. PICK i \in 1 .. Len(active_list) : i = j + 1
    BY <2>1
  <2>3. j \in Nat /\ j > 0
    BY <1>2, <2>2
  <2>4. \A l \in LogReg : MapAt(j, l)' = MapAt(i, l)
    BY <1>4, <2>2, <2>3, MapAtCommit
  <2> QED
    BY <1>3, <2>1, <2>2, <2>4
<1>5. CASE WriteBack
  <2>1. ~CommitInstr /\ ~RecoverInstr /\ ~RenameInstr
    BY <1>5 DEF WriteBack, CommitInstr, RecoverInstr, RenameInstr, AtCommit
  <2>2. CASE Forwarded(step + 1).type = "unknown"
    <3>1. active_list' = active_list
      BY <1>5, <2>2, WriteBackMarks
    <3>2. j \in 1 .. Len(active_list) /\ j \in Nat /\ j > 0
      BY <1>2, <3>1
    <3>3. \A l \in LogReg : MapAt(j, l)' = MapAt(j, l)
      BY <2>1, <3>2, MapAtKept
    <3> QED
      BY <1>3, <3>1, <3>2, <3>3
  <2>3. CASE Forwarded(step + 1).type # "unknown"
    <3>1. PICK i \in 1 .. Len(active_list) :
             /\ InFlightAt(i, Forwarded(step + 1))
             /\ Len(active_list') = Len(active_list)
             /\ \A k \in 1 .. Len(active_list) :
                   k # i => active_list'[k] = active_list[k]
             /\ active_list'[i] = [active_list[i] EXCEPT
                   !.is_done = TRUE, !.is_exception = @ \/ Forwarded(step + 1).is_exception]
      BY <1>5, <2>3, WriteBackMarks
    <3>2. j \in 1 .. Len(active_list) /\ j \in Nat /\ j > 0
      BY <1>2, <3>1
    <3>3. CASE j = i
      BY <1>5, <2>3, <3>1, <3>3, WriteBackComputes
    <3>4. CASE j # i
      <4>1. \A l \in LogReg : MapAt(j, l)' = MapAt(j, l)
        BY <2>1, <3>2, MapAtKept
      <4> QED
        BY <1>3, <3>1, <3>2, <3>4, <4>1
    <3> QED
      BY <3>3, <3>4
  <2> QED
    BY <2>2, <2>3
<1>6. CASE RenameInstr
  <2> DEFINE n == Len(active_list)
             entry == NewActiveEntry(Head(dir), Head(free_list))
  <2>1. CASE active_list' = active_list
    <3>1. j \in 1 .. n /\ j \in 1 .. n + 1
      BY <1>2, <2>1
    <3>2. \A l \in LogReg : MapAt(j, l)' = MapAt(j, l)
      BY <1>6, <3>1, MapAtDispatch
    <3> QED
      BY <1>3, <2>1, <3>1, <3>2
  <2>2. CASE active_list' # active_list
    <3>1. /\ Len(active_list') = n + 1 /\ active_list'[n + 1] = entry /\ ~entry.is_done
          /\ \A k \in 1 .. n : active_list'[k] = active_list[k]
      BY <1>6, <2>2, DispatchMoves
    <3> HIDE DEF entry
    <3>2. j \in 1 .. n /\ j \in 1 .. n + 1
      BY <1>2, <3>1
    <3>3. \A l \in LogReg : MapAt(j, l)' = MapAt(j, l)
      BY <1>6, <3>2, MapAtDispatch
    <3> QED
      BY <1>3, <3>1, <3>2, <3>3
  <2> QED
    BY <2>1, <2>2
<1>7. CASE ~CommitInstr /\ ~WriteBack /\ ~RenameInstr
  <2>1. ~RecoverInstr
    BY DEF RecoverInstr
  <2>2. active_list' = active_list
    BY <1>7, <2>1, BusyKept
  <2>3. j \in 1 .. Len(active_list) /\ j \in Nat /\ j > 0
    BY <1>2, <2>2
  <2>4. \A l \in LogReg : MapAt(j, l)' = MapAt(j, l)
    BY <1>7, <2>1, <2>3, MapAtKept
  <2> QED
    BY <1>3, <2>2, <2>3, <2>4
<1> QED
  BY <1>4, <1>5, <1>6, <1>7

\* Where no entry and no value changes, what was read stays final.
LEMMA ReadUnchanged ==
    ASSUME UNCHANGED <<active_list, physical>>, NEW instr
    PROVE  ReadA(instr)' = ReadA(instr) /\ ReadB(instr)' = ReadB(instr)
BY DEF ReadA, ReadB, Settled

\* What an entry in place has read stays what it reads.
LEMMA EntryKept ==
    ASSUME TypeOK, Accounting, RegisterPartition, RegistersGiven, LocatedInv,
           pc <= Len(program), ~exception_mode, [Next]_vars,
           NEW p \in Live, NEW entry, At(p) = entry.instr, EntryRead(entry)
    PROVE  EntryRead(entry)'
<1>1. /\ ReadA(entry.instr) => ReadA(entry.instr)'
      /\ ReadB(entry.instr) => ReadB(entry.instr)'
  BY ReadKept
<1> QED
  BY <1>1 DEF EntryRead

\* A renamed instruction enters the queue with what it reads after the step.
LEMMA DispatchReads ==
    ASSUME TypeOK, Accounting, RenameInstr, BusyBits', iq' # iq
    PROVE  \E entry : iq' = Append(iq, entry) /\ EntryRead(entry)'
<1> DEFINE instr == RenamedInstr(Head(dir), Head(free_list))
           read == WithReadiness(instr, is_busy', active_list')
<1>1. instr \in Renamed /\ iq' = Append(iq, read) /\ physical' = physical
  BY DispatchEffect
<1>2. PICK it \in Renamed : it = instr
  BY <1>1
<1>3. PICK entry : entry = read
  OBVIOUS
<1>4. /\ entry.instr.type = it.type /\ entry.instr.opA = it.opA
      /\ entry.instr.opB = it.opB
      /\ entry.is_opA_ready = RegisterReady(it.opA, is_busy', active_list')
      /\ entry.is_opB_ready = (it.type \in ImmOps
                               \/ RegisterReady(it.opB, is_busy', active_list'))
      /\ entry.is_opA_ready => entry.instr.valA = physical[it.opA]
      /\ (entry.is_opB_ready /\ it.type \notin ImmOps) =>
             entry.instr.valB = physical[it.opB]
  BY <1>2, <1>3, ReadinessKeeps
<1> HIDE DEF instr, read
<1>5. it.opA \in PhyReg /\ it.opB \in PhyReg
  BY <1>2 DEF Renamed
<1>6. entry.is_opA_ready => ReadA(entry.instr)'
  BY <1>1, <1>4, <1>5, ReadySettledNext DEF ReadA
<1>7. entry.is_opB_ready => ReadB(entry.instr)'
  BY <1>1, <1>4, <1>5, ReadySettledNext DEF ReadB
<1>8. EntryRead(entry)'
  BY <1>6, <1>7 DEF EntryRead
<1> QED
  BY <1>1, <1>3, <1>8

\* The entries of the integer queue and of the array of ready entries after a step.
LEMMA ReadyNext ==
    ASSUME TypeOK, Accounting, RegisterPartition, RegistersGiven, LocatedInv,
           pc <= Len(program), ~exception_mode, ~exception_mode', [Next]_vars,
           BusyBits, BusyBits', ReadyRead(iq), ReadyRead(entries)
    PROVE  ReadyRead(iq)' /\ ReadyRead(entries)'
<1>1. \A i \in 1 .. Len(iq) : \A entry : entry = iq[i] => EntryRead(entry)'
  <2> SUFFICES ASSUME NEW i \in 1 .. Len(iq), NEW entry, entry = iq[i]
               PROVE  EntryRead(entry)'
    OBVIOUS
  <2>1. <<"iq", i, 0>> \in Live /\ At(<<"iq", i, 0>>) = entry.instr
    BY PlaceIntro DEF Live, At
  <2>2. EntryRead(entry)
    BY DEF ReadyRead
  <2> QED
    BY <2>1, <2>2, EntryKept
<1>2. \A i \in 1 .. Len(entries) : \A entry : entry = entries[i] => EntryRead(entry)'
  <2> SUFFICES ASSUME NEW i \in 1 .. Len(entries), NEW entry, entry = entries[i]
               PROVE  EntryRead(entry)'
    OBVIOUS
  <2>1. <<"entries", i, 0>> \in Live /\ At(<<"entries", i, 0>>) = entry.instr
    BY PlaceIntro DEF Live, At
  <2>2. EntryRead(entry)
    BY DEF ReadyRead
  <2> QED
    BY <2>1, <2>2, EntryKept
<1>3. ASSUME \A i \in 1 .. Len(iq') : \A entry : entry = iq'[i] => EntryRead(entry)',
             \A i \in 1 .. Len(entries') : \A entry : entry = entries'[i] => EntryRead(entry)'
      PROVE  ReadyRead(iq)' /\ ReadyRead(entries)'
  BY <1>3 DEF ReadyRead
<1>4. Len(iq) \in Nat /\ Len(entries) \in Nat /\ step \in Nat
  BY QueueTypes
<1>5. CASE RefreshReady
  <2> SUFFICES ASSUME NEW i \in 1 .. Len(iq'), NEW entry, entry = iq'[i]
               PROVE  EntryRead(entry)'
    BY <1>2, <1>3, <1>5 DEF RefreshReady
  <2>1. /\ i \in 1 .. Len(iq) /\ entry = WithReadiness(iq[i].instr, is_busy, active_list)
        /\ UNCHANGED <<active_list, physical>>
    BY <1>4, <1>5 DEF RefreshReady, renameVars, regVars
  <2>2. EntryRead(entry)
    BY <2>1, QueueTypes, ReadinessReads
  <2> QED
    BY <2>1, <2>2, ReadUnchanged DEF EntryRead
<1>6. CASE TakeReady
  <2>1. /\ step + 1 \in 1 .. Len(iq) /\ Len(iq') = Len(iq) - 1
        /\ \A j \in 1 .. Len(iq') :
              iq'[j] = IF j <= step THEN iq[j] ELSE iq[j + 1]
        /\ Len(entries') = Len(entries) + 1
        /\ \A k \in 1 .. Len(entries) : entries'[k] = entries[k]
        /\ entries'[Len(entries) + 1] = iq[step + 1]
    BY <1>6, TakeEffect
  <2>2. \A i \in 1 .. Len(iq') : \E j \in 1 .. Len(iq) : iq'[i] = iq[j]
    <3> SUFFICES ASSUME NEW i \in 1 .. Len(iq')
                 PROVE  \E j \in 1 .. Len(iq) : iq'[i] = iq[j]
      OBVIOUS
    <3>1. i \in 1 .. Len(iq) /\ i + 1 \in 1 .. Len(iq)
      BY <1>4, <2>1
    <3> QED
      BY <2>1, <3>1
  <2>3. \A i \in 1 .. Len(entries') : i \in 1 .. Len(entries) \/ i = Len(entries) + 1
    BY <1>4, <2>1
  <2>4. \A i \in 1 .. Len(iq') : \A entry : entry = iq'[i] => EntryRead(entry)'
    BY <1>1, <2>2
  <2>5. \A i \in 1 .. Len(entries') : \A entry : entry = entries'[i] => EntryRead(entry)'
    <3> SUFFICES ASSUME NEW i \in 1 .. Len(entries'), NEW entry, entry = entries'[i]
                 PROVE  EntryRead(entry)'
      OBVIOUS
    <3>1. CASE i \in 1 .. Len(entries)
      BY <1>2, <2>1, <3>1
    <3>2. CASE i = Len(entries) + 1
      BY <1>1, <2>1, <3>2
    <3> QED
      BY <2>3, <3>1, <3>2
  <2> QED
    BY <1>3, <2>4, <2>5
<1>7. CASE IssueToAlus
  <2>1. iq' = iq /\ entries' = << >>
    BY <1>7 DEF IssueToAlus
  <2> QED
    BY <1>1, <1>3, <2>1
<1>8. CASE RenameInstr
  <2>1. entries' = entries
    BY <1>8 DEF RenameInstr
  <2>2. CASE iq' = iq
    BY <1>1, <1>2, <1>3, <2>1, <2>2
  <2>3. CASE iq' # iq
    <3>1. PICK entry : iq' = Append(iq, entry) /\ EntryRead(entry)'
      BY <1>8, <2>3, DispatchReads
    <3>2. /\ \A i \in 1 .. Len(iq') : i \in 1 .. Len(iq) \/ i = Len(iq) + 1
          /\ \A i \in 1 .. Len(iq) : iq'[i] = iq[i]
          /\ iq'[Len(iq) + 1] = entry
      <4>1. iq \in Seq(IqEntry)
        BY DEF TypeOK
      <4> QED
        BY <1>4, <3>1, <4>1
    <3>3. \A i \in 1 .. Len(iq') : \A e : e = iq'[i] => EntryRead(e)'
      BY <1>1, <3>1, <3>2
    <3> QED
      BY <1>2, <1>3, <2>1, <3>3
  <2> QED
    BY <2>2, <2>3
<1>9. CASE ~RefreshReady /\ ~TakeReady /\ ~IssueToAlus /\ ~RenameInstr
  <2>1. ~RaiseException
    BY DEF RaiseException
  <2>2. UNCHANGED <<iq, entries>>
    BY <1>9, <2>1 DEF Next, CommitCycle, CommitInstr, CommitDone, LeaveException, RecoverInstr,
       RecoverDone, AluCycles, WriteBack, IssueCycle, PassWaiting, RenameDispatchCycle,
       CheckResources, DispatchDone, FetchDecodeCycle, Terminated, vars, issueVars
  <2> QED
    BY <1>1, <1>2, <1>3, <2>2
<1> QED
  BY <1>5, <1>6, <1>7, <1>8, <1>9
\* Which ALU stages still count: none is taken up again before the ALUs shift.
LEMMA WrittenBackGrows ==
    ASSUME TypeOK, Accounting, [Next]_vars, ~IssueToAlus, ~AluCycles
    PROVE  /\ WrittenBack \subseteq WrittenBack'
           /\ stage' = "writeback" => stage = "writeback"
<1>1. step \in Nat /\ NUM_ALUS \in Nat /\ (stage = "writeback" => step < NUM_ALUS)
  BY SizesAssumption, QueueTypes DEF Accounting
<1>2. CASE WriteBack
  <2>1. /\ stage = "writeback"
        /\ \/ stage' = "writeback" /\ step' = step + 1
           \/ stage' = "refresh"
    BY <1>2 DEF WriteBack, IterateUpTo, Iterate, GoTo
  <2>2. CASE stage' = "writeback" /\ step' = step + 1
    BY <1>1, <2>1, <2>2 DEF WrittenBack
  <2>3. CASE stage' = "refresh"
    BY <1>1, <2>1, <2>3 DEF WrittenBack
  <2> QED
    BY <2>1, <2>2, <2>3
<1>3. CASE ~WriteBack
  <2>1. \/ UNCHANGED <<stage, step>>
        \/ stage \in {"refresh", "select"} /\ stage' \in {"refresh", "select"}
        \/ /\ stage \in {"commit", "rename", "dispatch", "fetch"}
           /\ stage' # "writeback"
    <3>1. CASE UNCHANGED vars
      BY <3>1 DEF vars
    <3>2. CASE CommitCycle
      BY <3>2 DEF CommitCycle, CommitInstr, CommitDone, RaiseException, LeaveException,
         RecoverInstr, RecoverDone, AtCommit, GoTo, Iterate, Abort
    <3>3. CASE RefreshReady \/ TakeReady \/ PassWaiting
      BY <3>3 DEF RefreshReady, TakeReady, PassWaiting, Scanning, StayAtIndex, GoTo, Iterate
    <3>4. CASE RenameDispatchCycle
      BY <3>4 DEF RenameDispatchCycle, CheckResources, RenameInstr, RenameHead, Dispatch,
         DispatchDone, GoTo, Abort
    <3>5. CASE FetchDecodeCycle
      BY <3>5 DEF FetchDecodeCycle, GoTo
    <3>6. CASE Terminated
      BY <3>6 DEF Terminated, vars
    <3> QED
      BY <1>3, <3>1, <3>2, <3>3, <3>4, <3>5, <3>6 DEF Next, IssueCycle
  <2> QED
    BY <2>1 DEF WrittenBack
<1> QED
  BY <1>2, <1>3

\* The instructions in the ALUs after a step.
LEMMA WorkingNext ==
    ASSUME TypeOK, Accounting, RegisterPartition, RegistersGiven, LocatedInv, ScanInv,
           pc <= Len(program), ~exception_mode, ~exception_mode', [Next]_vars,
           ReadyRead(entries), WorkingRead
    PROVE  WorkingRead'
<1> SUFFICES ASSUME NEW a \in 1 .. NUM_ALUS, NEW s \in 1 .. ALU_STAGES, Working(a, s)',
                    NEW instr, instr = alus'[a][s]
             PROVE  /\ ReadA(instr)' /\ ReadB(instr)'
                    /\ stage' = "writeback" /\ s = ALU_STAGES => Calculated(instr)
  BY DEF WorkingRead, Calculated
<1>1. instr.type # "unknown" /\ ~(s = ALU_STAGES /\ a \in WrittenBack')
  BY DEF Working
<1>2. ALU_STAGES \in 1 .. ALU_STAGES /\ ALU_STAGES \in Nat /\ NUM_ALUS \in Nat
  BY SizesAssumption
<1>3. CASE AluCycles
  <2>1. /\ UNCHANGED <<active_list, physical>> /\ WrittenBack = {}
        /\ alus' = [x \in 1 .. NUM_ALUS |-> [alus[x] EXCEPT ![ALU_STAGES] = Executed(@)]]
    BY <1>3 DEF AluCycles, renameVars, regVars, WrittenBack
  <2>2. alus[a] \in [1 .. ALU_STAGES -> Renamed \cup {EmptySlot}]
    BY DEF TypeOK
  <2>3. alus[a][s] \in Renamed \cup {EmptySlot}
    BY <2>2
  <2>4. instr = IF s = ALU_STAGES THEN Executed(alus[a][s]) ELSE alus[a][s]
    BY <2>1, <2>2
  <2>5. PICK slot : slot = alus[a][s]
    OBVIOUS
  <2>6. slot.type # "unknown"
    BY <1>1, <2>4, <2>5 DEF Executed
  <2>7. slot \in Renamed
    BY <2>3, <2>5, <2>6 DEF EmptySlot
  <2>8. ReadA(slot) /\ ReadB(slot)
    BY <2>1, <2>5, <2>6 DEF WorkingRead, Working
  <2>9. /\ instr.type = slot.type /\ instr.opA = slot.opA /\ instr.opB = slot.opB
        /\ instr.valA = slot.valA /\ instr.valB = slot.valB
        /\ s = ALU_STAGES =>
              /\ instr.value = Result(slot.type, slot.valA, slot.valB)
              /\ instr.is_exception = RaisesException(slot.type, slot.valB)
    BY <2>4, <2>5, <2>6, <2>7 DEF Executed, Renamed
  <2>10. ReadA(instr) /\ ReadB(instr)
    BY <2>8, <2>9 DEF ReadA, ReadB
  <2> QED
    BY <2>1, <2>9, <2>10, ReadUnchanged DEF Calculated
<1>4. CASE IssueToAlus
  <2>1. UNCHANGED <<active_list, physical>> /\ stage' # "writeback"
    BY <1>4 DEF IssueToAlus, renameVars, regVars, GoTo
  <2>2. instr = IF s = 1 THEN (IF a <= Len(entries) THEN entries[a].instr ELSE EmptySlot)
                ELSE alus[a][s - 1]
    BY <1>4 DEF IssueToAlus, Pushed
  <2>3. CASE s = 1
    <3>1. a \in 1 .. Len(entries) /\ instr = entries[a].instr
      BY <1>1, <2>2, <2>3, QueueTypes DEF EmptySlot
    <3>2. EntryReady(entries[a]) /\ EntryRead(entries[a])
      BY <3>1 DEF ScanInv, ReadyRead
    <3>3. ReadA(instr) /\ ReadB(instr)
      BY <3>1, <3>2 DEF EntryRead, EntryReady
    <3> QED
      BY <2>1, <3>3, ReadUnchanged
  <2>4. CASE s # 1
    <3>1. s - 1 \in 1 .. ALU_STAGES /\ s - 1 # ALU_STAGES /\ instr = alus[a][s - 1]
      BY <1>2, <2>2, <2>4
    <3>2. Working(a, s - 1)
      BY <1>1, <3>1 DEF Working
    <3>3. ReadA(instr) /\ ReadB(instr)
      BY <3>1, <3>2 DEF WorkingRead
    <3> QED
      BY <2>1, <3>3, ReadUnchanged
  <2> QED
    BY <2>3, <2>4
<1>5. CASE ~AluCycles /\ ~IssueToAlus
  <2>1. alus' = alus
    <3>1. ~RaiseException
      BY DEF RaiseException
    <3> QED
      BY <1>5, <3>1 DEF Next, CommitCycle, CommitInstr, CommitDone, LeaveException, RecoverInstr,
         RecoverDone, WriteBack, IssueCycle, RefreshReady, TakeReady, PassWaiting,
         RenameDispatchCycle, CheckResources, RenameInstr, DispatchDone, FetchDecodeCycle,
         Terminated, vars
  <2>2. /\ ~(s = ALU_STAGES /\ a \in WrittenBack)
        /\ stage' = "writeback" => stage = "writeback"
    BY <1>1, <1>5, WrittenBackGrows
  <2>3. Working(a, s) /\ instr = alus[a][s]
    BY <1>1, <2>1, <2>2 DEF Working
  <2>4. /\ ReadA(instr) /\ ReadB(instr)
        /\ stage = "writeback" /\ s = ALU_STAGES => Calculated(instr)
    BY <2>3 DEF WorkingRead
  <2>5. <<"alu", a, s>> \in Live /\ At(<<"alu", a, s>>) = instr
    BY SMTT(30), <1>1, <2>2, <2>3, PlaceIntro DEF Live, At
  <2> QED
    BY <2>2, <2>4, <2>5, ReadKept
<1> QED
  BY <1>3, <1>4, <1>5

\* Finished instructions have computed the values of sequential execution, and the
\* others carry final operands: the invariant behind the refinement.
THEOREM ValuesHold ==
    ASSUME UninitRegIdx \subseteq PhyReg
    PROVE  Spec => []Values
<1>1. Init => Values
  <2> SUFFICES ASSUME Init PROVE ValuesInv
    BY DEF Values
  <2>1. /\ active_list = << >> /\ iq = << >> /\ entries = << >>
        /\ \A a \in 1 .. NUM_ALUS, s \in 1 .. ALU_STAGES : alus[a][s].type = "unknown"
    BY DEF Init, EmptyAlus, EmptySlot
  <2> QED
    BY <2>1 DEF ValuesInv, DoneComputed, ReadyRead, WorkingRead, Working
<1>2. /\ TypeOK /\ Accounting /\ RegisterPartition /\ RegistersGiven /\ FetchOrder /\ Located
      /\ BusyExact /\ BusyExact' /\ Values /\ [Next]_vars
      => Values'
  <2> SUFFICES ASSUME TypeOK, Accounting, RegisterPartition, RegistersGiven, FetchOrder,
                      Located, BusyExact, BusyExact', Values, [Next]_vars, ~exception_mode'
               PROVE  ValuesInv'
    BY DEF Values
  <2>1. ~exception_mode
    BY DEF Next, CommitCycle, CommitInstr, CommitDone, RaiseException, LeaveException,
       RecoverInstr, RecoverDone, AluCycles, WriteBack, IssueCycle, RefreshReady, TakeReady,
       PassWaiting, IssueToAlus, RenameDispatchCycle, CheckResources, RenameInstr, DispatchDone,
       FetchDecodeCycle, Terminated, vars
  <2>2. LocatedInv /\ pc <= Len(program) /\ ScanInv /\ BusyBits /\ BusyBits' /\ ValuesInv
    BY <2>1 DEF Located, FetchOrder, BusyExact, Values
  <2>3. DoneComputed /\ ReadyRead(iq) /\ ReadyRead(entries) /\ WorkingRead
    BY <2>2 DEF ValuesInv
  <2>4. DoneComputed'
    BY <2>1, <2>2, <2>3, DoneNext
  <2>5. ReadyRead(iq)' /\ ReadyRead(entries)'
    BY <2>1, <2>2, <2>3, ReadyNext
  <2>6. WorkingRead'
    BY <2>1, <2>2, <2>3, WorkingNext
  <2> QED
    BY <2>4, <2>5, <2>6 DEF ValuesInv
<1> QED
  BY <1>1, <1>2, TypeCorrect, RegistersPartitioned, RegistersGivenHolds, FetchOrderHolds,
     LocatedHolds, BusyBitsExact, PTL DEF Spec
-----------------------------------------------------------------------------
(***************************************************************************)
(* The refinement.                                                         *)
(***************************************************************************)

\* After an exception an instruction still on its way writes no register of the
\* committed map, wherever the exception handler is.
Untouched ==
    exception_mode => \A p \in Live, l \in LogReg : At(p).dest # MapAt(1, l)

\* Only commit changes the committed map.
LEMMA FirstMapKept ==
    ASSUME TypeOK, Accounting, [Next]_vars, ~CommitInstr, NEW l \in LogReg
    PROVE  MapAt(1, l)' = MapAt(1, l)
<1>1. PICK first \in Nat : first = 1
  OBVIOUS
<1>2. Len(active_list) \in Nat
  BY QueueTypes
<1>3. CASE RecoverInstr
  <2>1. first \in 1 .. Len(active_list)
    BY <1>1, <1>2, <1>3, RecoverMoves
  <2> QED
    BY <1>1, <1>3, <2>1, MapAtRecover
<1>4. CASE RenameInstr
  <2>1. first \in 1 .. Len(active_list) + 1
    BY <1>1, <1>2
  <2> QED
    BY <1>1, <1>4, <2>1, MapAtDispatch
<1>5. CASE ~RecoverInstr /\ ~RenameInstr
  BY <1>1, <1>5, MapAtKept
<1> QED
  BY <1>3, <1>4, <1>5

\* The destination of an instruction in place is the one it had, or a register that
\* was free.
LEMMA DestinationsKept ==
    ASSUME TypeOK, Accounting, [Next]_vars, ~RaiseException, NEW p \in Live'
    PROVE  \/ \E q \in Live : At(p)'.dest = At(q).dest
           \/ At(p)'.dest \in Range(free_list)
<1>1. ASSUME Carried PROVE \E q \in Live : At(p)'.dest = At(q).dest
  <2>1. PICK from \in [Live' -> Live] : \A x \in Live' : SameInstr(At(x)', At(from[x]))
    BY <1>1 DEF Carried
  <2> QED
    BY <2>1 DEF SameInstr
<1>2. CASE WriteBack
  <2>1. p \in Live /\ At(p)' = At(p)
    BY <1>2, WriteBackPlaces
  <2> QED
    BY <2>1
<1>3. CASE RenameInstr
  <2> DEFINE instr == RenamedInstr(Head(dir), Head(free_list))
             read == WithReadiness(instr, is_busy', active_list')
  <2>1. stage = "dispatch" /\ UNCHANGED <<entries, alus>>
    BY <1>3 DEF RenameInstr
  <2>2. CASE iq' = Append(iq, read) /\ stage' = "dispatch" /\ instr \in Renamed
             /\ free_list # << >>
    <3>1. PICK entry : entry = read
      OBVIOUS
    <3>2. PICK it \in Renamed : it = instr
      BY <2>2
    <3>3. entry.instr.dest = it.dest /\ it.dest = Head(free_list)
      BY <3>1, <3>2, ReadinessKeeps DEF RenamedInstr
    <3>4. Head(free_list) \in Range(free_list)
      BY <2>2 DEF TypeOK, Range
    <3> HIDE DEF instr, read
    <3>5. PICK new \in Live' :
             /\ new \notin Live /\ Live' = Live \cup {new} /\ At(new)' = entry.instr
             /\ \A x \in Live : At(x)' = At(x)
      BY <2>1, <2>2, <3>1, RenamePlaces
    <3>6. CASE p = new
      BY <3>3, <3>4, <3>5, <3>6
    <3>7. CASE p \in Live
      BY <3>5, <3>7
    <3> QED
      BY <3>5, <3>6, <3>7
  <2>3. CASE UNCHANGED iq /\ stage' = "commit"
    <3>1. WrittenBack' = WrittenBack
      BY <2>1, <2>3 DEF WrittenBack
    <3>2. Carried
      BY <2>1, <2>3, <3>1, UnmovedCarried
    <3> QED
      BY <1>1, <3>2
  <2> QED
    BY <1>3, <2>1, <2>2, <2>3, DispatchEffect
<1>4. CASE ~WriteBack /\ ~RenameInstr
  <2>1. Carried
    BY <1>4, OthersCarry
  <2> QED
    BY <1>1, <2>1
<1> QED
  BY <1>2, <1>3, <1>4

\* Nothing in the pipeline writes the committed registers while they are restored.
LEMMA UntouchedNext ==
    TypeOK /\ Accounting /\ RegisterPartition /\ RegistersGiven /\ FetchOrder /\ Untouched
    /\ [Next]_vars => Untouched'
<1> SUFFICES ASSUME TypeOK, Accounting, RegisterPartition, RegistersGiven, FetchOrder,
                    Untouched, [Next]_vars, exception_mode', NEW p \in Live', NEW l \in LogReg
             PROVE  At(p)'.dest # MapAt(1, l)'
  BY DEF Untouched
<1>1. CASE RaiseException
  <2>1. iq' = << >> /\ entries' = << >> /\ alus' = EmptyAlus
    BY <1>1 DEF RaiseException, FetchOrder, ScanInv, AtCommit
  <2>2. \A a \in 1 .. NUM_ALUS, s \in 1 .. ALU_STAGES : alus'[a][s].type = "unknown"
    BY <2>1 DEF EmptyAlus, EmptySlot
  <2>3. p \in PlacesOf(iq', entries', alus', WrittenBack')
    BY DEF Live
  <2> QED
    BY <2>1, <2>2, <2>3, PlaceCases
<1>2. CASE ~RaiseException
  <2>1. exception_mode
    BY <1>2 DEF Next, CommitCycle, CommitInstr, CommitDone, LeaveException, RecoverInstr,
       RecoverDone, AluCycles, WriteBack, IssueCycle, RefreshReady, TakeReady, PassWaiting,
       IssueToAlus, RenameDispatchCycle, CheckResources, RenameInstr, DispatchDone,
       FetchDecodeCycle, Terminated, vars
  <2>2. MapAt(1, l)' = MapAt(1, l)
    BY <2>1, FirstMapKept DEF CommitInstr
  <2>3. MapAt(1, l) \notin Range(free_list)
    BY MappedHeld
  <2>4. CASE \E q \in Live : At(p)'.dest = At(q).dest
    BY <2>1, <2>2, <2>4 DEF Untouched
  <2>5. CASE At(p)'.dest \in Range(free_list)
    BY <2>2, <2>3, <2>5
  <2> QED
    BY <1>2, <2>4, <2>5, DestinationsKept
<1> QED
  BY <1>1, <1>2

\* After an exception no instruction still on its way writes a register of the committed
\* map, which recovery restores: not even when the handler is inside the program.
THEOREM UntouchedHolds == Spec => []Untouched
<1>1. Init => Untouched
  BY DEF Init, Untouched
<1> QED
  BY <1>1, UntouchedNext, TypeCorrect, RegistersPartitioned, RegistersGivenHolds,
     FetchOrderHolds, PTL DEF Spec

\* Only commit changes the value of an architectural register.
LEMMA RegistersKept ==
    ASSUME TypeOK, Accounting, RegisterPartition, RegistersGiven, Located, Untouched,
           [Next]_vars, ~CommitInstr, NEW l \in LogReg
    PROVE  physical'[MapAt(1, l)'] = physical[MapAt(1, l)]
<1>1. MapAt(1, l)' = MapAt(1, l)
  BY FirstMapKept
<1>2. /\ MapAt(1, l) \in PhyReg
      /\ \A k \in 1 .. Len(active_list) : active_list[k].curr_phy_dest # MapAt(1, l)
  BY MappedHeld
<1>3. CASE WriteBack /\ Forwarded(step + 1).type # "unknown"
  <2> DEFINE instr == Forwarded(step + 1)
  <2>1. physical' = [physical EXCEPT ![instr.dest] = instr.value]
    BY <1>3 DEF WriteBack
  <2>2. instr.dest # MapAt(1, l)
    <3>1. CASE exception_mode
      <4>1. \E p \in Live : At(p) = instr
        BY <1>3, WriteBackPlaces
      <4> QED
        BY <3>1, <4>1 DEF Untouched
    <3>2. CASE ~exception_mode
      <4>1. PICK i \in 1 .. Len(active_list) : InFlightAt(i, instr)
        BY <1>3, <3>2, WriteBackMarks DEF Located
      <4> QED
        BY <1>2, <4>1 DEF InFlightAt, RenamedAt
    <3> QED
      BY <3>1, <3>2
  <2> HIDE DEF instr
  <2> QED
    BY <1>1, <1>2, <2>1, <2>2 DEF TypeOK
<1>4. CASE ~(WriteBack /\ Forwarded(step + 1).type # "unknown")
  <2>1. physical' = physical
    BY <1>4 DEF Next, CommitCycle, CommitInstr, CommitDone, RaiseException, LeaveException,
       RecoverInstr, RecoverDone, AluCycles, WriteBack, IssueCycle, RefreshReady, TakeReady,
       PassWaiting, IssueToAlus, RenameDispatchCycle, CheckResources, RenameInstr, DispatchDone,
       FetchDecodeCycle, Terminated, vars, regVars
  <2> QED
    BY <1>1, <2>1
<1> QED
  BY <1>3, <1>4
\* How many instructions there are between fetch and commit.
LEMMA InFlightLength ==
    ASSUME NEW list \in Seq(ActiveEntry), NEW queue \in Seq(Nat)
    PROVE  Len([i \in 1 .. Len(list) |-> list[i].pc] \o queue) = Len(list) + Len(queue)
<1> DEFINE n == Len(list)
<1>1. n \in Nat
  OBVIOUS
<1>2. ASSUME NEW i \in 1 .. n PROVE list[i].pc \in Nat
  <2>1. list[i] \in ActiveEntry
    OBVIOUS
  <2> QED
    BY <2>1 DEF ActiveEntry
<1>3. PICK older : older = [i \in 1 .. n |-> list[i].pc]
  OBVIOUS
<1>4. older \in Seq(Nat) /\ Len(older) = n
  BY <1>1, <1>2, <1>3
<1>5. Len(older \o queue) = Len(older) + Len(queue)
  BY <1>4, ConcatProperties
<1> QED
  BY <1>3, <1>4, <1>5

\* The sequential machine stands at the address of the oldest instruction in flight.
LEMMA InOrderView ==
    ASSUME TypeOK
    PROVE  pc - Len(InFlight) = Base
<1>1. /\ active_list \in Seq(ActiveEntry) /\ dir \in Seq(Nat) /\ pc \in Nat
      /\ Len(active_list) \in Nat /\ Len(dir) \in Nat
  BY DEF TypeOK
<1>2. Len(InFlight) = Len(active_list) + Len(dir)
  BY <1>1, InFlightLength DEF InFlight
<1> QED
  BY <1>1, <1>2 DEF Base

\* So it does after a step.
LEMMA InOrderViewNext ==
    ASSUME TypeOK'
    PROVE  pc' - Len(InFlight)' = Base'
<1>1. /\ active_list' \in Seq(ActiveEntry) /\ dir' \in Seq(Nat) /\ pc' \in Nat
      /\ Len(active_list') \in Nat /\ Len(dir') \in Nat
  BY DEF TypeOK
<1>2. Len(InFlight)' = Len(active_list') + Len(dir')
  BY <1>1, InFlightLength DEF InFlight
<1> QED
  BY <1>1, <1>2 DEF Base

\* The program starts with the registers of the sequential machine.
LEMMA RefinesInit == Init => InOrder!Init
<1> SUFFICES ASSUME Init PROVE InOrder!Init
  OBVIOUS
<1>1. TypeOK
  BY TypeInit
<1>2. program \in Seq(AnyInstruction) /\ physical = [r \in PhyReg |-> 0]
  BY ProgramsAssumption DEF Init
<1>3. \A l \in LogReg : physical[CommittedMap(l)] = 0
  <2> SUFFICES ASSUME NEW l \in LogReg PROVE physical[CommittedMap(l)] = 0
    OBVIOUS
  <2>1. NoWriter(active_list, 1, l) /\ logical[l] \in PhyReg
    BY <1>1 DEF Init, NoWriter, TypeOK
  <2>2. CommittedMap(l) = logical[l]
    BY <2>1, MapOfNone, CommittedIsFirst DEF MapAt
  <2> QED
    BY <1>2, <2>1, <2>2
<1>4. pc - Len(InFlight) = 0
  BY <1>1, InOrderView DEF Init, Base
<1>5. exception_mode = FALSE /\ exception_pc = 0
  BY DEF Init
<1> QED
  BY <1>2, <1>3, <1>4, <1>5 DEF InOrder!Init, InOrder!AnyInstruction, AnyInstruction,
     InOrder!RegInstruction, RegInstruction, InOrder!ImmInstruction, ImmInstruction,
     InOrder!LogReg, LogReg, InOrder!Word, Word, InOrder!RegOps, RegOps, InOrder!ImmOps, ImmOps
\* The oldest instruction in flight, when it has finished, is the next one of the
\* sequential machine, and has computed what that machine computes.
LEMMA OldestView ==
    ASSUME TypeOK, LocatedInv, DoneComputed, pc <= Len(program), ~exception_mode,
           active_list # << >>, active_list[1].is_done
    PROVE  /\ 1 \in 1 .. Len(active_list) /\ Base = active_list[1].pc
           /\ InOrder!Running /\ InOrder!Current = Source(1)
           /\ InOrder!RaisesException(InOrder!Current.type, InOrder!OperandB)
                  = active_list[1].is_exception
           /\ \A a : a = physical[CommittedMap(Source(1).opA)] =>
                 InOrder!Result(InOrder!Current.type, a, InOrder!OperandB)
                     = physical[active_list[1].curr_phy_dest]
<1>1. Len(active_list) \in Nat /\ 1 \in 1 .. Len(active_list)
  BY DEF TypeOK
<1>2. Base = active_list[1].pc
  <2>1. active_list[1].pc = Base + 1 - 1
    BY <1>1 DEF LocatedInv, ActiveInOrder
  <2>2. Base \in Int
    BY QueueTypes DEF Base
  <2> QED
    BY <2>1, <2>2
<1>3. PICK source : source = Source(1)
  OBVIOUS
<1>4. /\ active_list[1].pc \in 0 .. Len(program) - 1
      /\ source.opA \in LogReg
      /\ source.type \notin ImmOps => source.opB \in LogReg
  BY <1>1, <1>3, SourceTypes DEF LocatedInv, Source
<1>5. pc - Len(InFlight) = active_list[1].pc /\ Len(program) \in Nat
  BY <1>2, InOrderView, QueueTypes
<1>6. InOrder!Running /\ InOrder!Current = source
  BY <1>3, <1>4, <1>5 DEF InOrder!Running, InOrder!Current, Source, InstructionAt
<1>7. Computed(1)
  BY <1>1 DEF DoneComputed
<1>8. physical[CommittedMap(source.opA)] = ValueA(1)
  BY <1>3, CommittedIsFirst DEF ValueA
<1>9. InOrder!OperandB = ValueB(1)
  <2>1. InOrder!ImmOps = ImmOps
    BY DEF InOrder!ImmOps, ImmOps
  <2>2. CASE source.type \in ImmOps
    BY <1>3, <1>6, <2>1, <2>2 DEF InOrder!OperandB, ValueB, ImmSource
  <2>3. CASE source.type \notin ImmOps
    <3>1. [l \in LogReg |-> physical[CommittedMap(l)]][source.opB]
              = physical[CommittedMap(source.opB)]
      BY <1>4, <2>3
    <3>2. physical[CommittedMap(source.opB)] = ValueB(1)
      BY <1>3, <2>3, CommittedIsFirst DEF ValueB, ImmSource
    <3>3. InOrder!OperandB = [l \in LogReg |-> physical[CommittedMap(l)]][source.opB]
      BY <1>6, <2>1, <2>3 DEF InOrder!OperandB
    <3> QED
      BY <3>1, <3>2, <3>3
  <2> QED
    BY <2>2, <2>3
<1>10. \A t, b : InOrder!RaisesException(t, b) = RaisesException(t, b)
  BY DEF InOrder!RaisesException, RaisesException
<1>11. \A t, a, b : InOrder!Result(t, a, b) = Result(t, a, b)
  BY DEF InOrder!Result, Result, InOrder!ToUnsigned, ToUnsigned, InOrder!ToSigned, ToSigned
<1>12. active_list[1].is_exception = RaisesException(source.type, ValueB(1))
       /\ physical[active_list[1].curr_phy_dest] = Result(source.type, ValueA(1), ValueB(1))
  BY <1>3, <1>7 DEF Computed
<1> QED
  BY <1>1, <1>2, <1>3, <1>6, <1>8, <1>9, <1>10, <1>11, <1>12

\* Commit is the next step of the sequential machine.
LEMMA RefinesCommit ==
    ASSUME TypeOK, Accounting, RenameChain, LocatedInv, DoneComputed, pc <= Len(program),
           [Next]_vars, CommitInstr
    PROVE  InOrder!Retire
<1>1. /\ ~exception_mode /\ active_list # << >> /\ active_list[1].is_done
      /\ ~active_list[1].is_exception
      /\ UNCHANGED <<pc, dir, physical, exception_mode, exception_pc, program>>
  BY DEF CommitInstr, Finished, Oldest, archVars, regVars, endVars
<1>2. /\ 1 \in 1 .. Len(active_list) /\ Base = active_list[1].pc
      /\ InOrder!Running /\ InOrder!Current = Source(1)
      /\ InOrder!RaisesException(InOrder!Current.type, InOrder!OperandB)
             = active_list[1].is_exception
      /\ \A a : a = physical[CommittedMap(Source(1).opA)] =>
            InOrder!Result(InOrder!Current.type, a, InOrder!OperandB)
                = physical[active_list[1].curr_phy_dest]
  BY <1>1, OldestView
<1> DEFINE regs == [l \in LogReg |-> physical[CommittedMap(l)]]
<1>3. PICK source : source = Source(1)
  OBVIOUS
<1>4. source.opA \in LogReg /\ source.dest \in LogReg /\ source.dest = active_list[1].log_dest
  BY <1>2, <1>3, SourceTypes DEF LocatedInv, EntriesInv, Source
<1>5. PICK value : value = physical[active_list[1].curr_phy_dest]
  OBVIOUS
<1>6. InOrder!Result(InOrder!Current.type, regs[InOrder!Current.opA], InOrder!OperandB) = value
  BY <1>2, <1>3, <1>4, <1>5
<1>7. ASSUME NEW l \in LogReg
      PROVE  physical'[CommittedMap(l)'] =
                 IF l = source.dest THEN value ELSE physical[CommittedMap(l)]
  <2>1. CommittedMap(l) = MapAt(1, l) /\ CommittedMap(l)' = MapAt(1, l)'
    BY DEF CommittedMap, Writers, MapAt, MapOf, WritersFrom
  <2>2. MapAt(1, l)' = MapAt(1 + 1, l)
    <3>1. PICK first \in Nat : first = 1
      OBVIOUS
    <3>2. MapAt(first, l)' = MapAt(first + 1, l)
      BY <3>1, MapAtCommit
    <3> QED
      BY <3>1, <3>2
  <2>3. PICK first \in 1 .. Len(active_list) : first = 1
    BY <1>2
  <2>4. /\ active_list[first].log_dest # l => MapAt(first, l) = MapAt(first + 1, l)
        /\ active_list[first].log_dest = l =>
               MapAt(first + 1, l) = active_list[first].curr_phy_dest
    BY MapAtNext
  <2> QED
    BY <1>1, <1>4, <1>5, <2>1, <2>2, <2>3, <2>4
<1>8. [l \in LogReg |-> physical'[CommittedMap(l)']]
          = [regs EXCEPT ![source.dest] = value]
  BY <1>7
<1>9. pc - Len(InFlight) = Base /\ pc' - Len(InFlight') = Base'
  <2>1. TypeOK'
    BY TypeNext
  <2>2. pc - Len(InFlight) = Base
    BY InOrderView
  <2>3. pc' - Len(InFlight)' = Base'
    BY <2>1, InOrderViewNext
  <2> QED
    BY <2>2, <2>3
<1>10. Base' = Base + 1
  <2>1. Len(active_list') = Len(active_list) - 1
    BY CommitMoves
  <2> QED
    BY <1>1, <2>1, QueueTypes DEF Base
<1> QED
  BY <1>1, <1>2, <1>3, <1>6, <1>8, <1>9, <1>10 DEF InOrder!Retire
\* So is taking an exception: precise, with the registers of the instructions before it.
LEMMA RefinesException ==
    ASSUME TypeOK, Accounting, RegisterPartition, RegistersGiven, Located, Untouched,
           LocatedInv, DoneComputed, pc <= Len(program), [Next]_vars, RaiseException
    PROVE  InOrder!Trap
<1>1. /\ ~exception_mode /\ active_list # << >> /\ active_list[1].is_done
      /\ active_list[1].is_exception
      /\ program' = program /\ exception_mode' = TRUE
      /\ exception_pc' = active_list[1].pc /\ ~CommitInstr
  <2>1. Head(active_list) = active_list[1]
    BY DEF RaiseException, TypeOK
  <2>2. exception_mode' # exception_mode
    BY DEF RaiseException
  <2>3. ~CommitInstr
    BY <2>2 DEF CommitInstr
  <2> QED
    BY <2>1, <2>3 DEF RaiseException, Finished, Oldest, endVars
<1>2. /\ Base = active_list[1].pc
      /\ InOrder!Running
      /\ InOrder!RaisesException(InOrder!Current.type, InOrder!OperandB)
             = active_list[1].is_exception
  BY <1>1, OldestView
<1>3. \A l \in LogReg : physical'[CommittedMap(l)'] = physical[CommittedMap(l)]
  <2>1. \A l : CommittedMap(l) = MapAt(1, l) /\ CommittedMap(l)' = MapAt(1, l)'
    BY DEF CommittedMap, Writers, MapAt, MapOf, WritersFrom
  <2> QED
    BY <1>1, <2>1, RegistersKept
<1>4. pc - Len(InFlight) = Base
  BY InOrderView
<1> QED
  BY <1>1, <1>2, <1>3, <1>4 DEF InOrder!Trap

\* Every other step of the pipeline is invisible to the program.
LEMMA RefinesOther ==
    ASSUME UninitRegIdx \subseteq PhyReg, TypeOK, Accounting, RegisterPartition,
           RegistersGiven, FetchOrder, Located, Located', Untouched, [Next]_vars,
           ~CommitInstr, ~RaiseException
    PROVE  UNCHANGED InOrder!vars
<1>1. program' = program /\ exception_mode' = exception_mode /\ exception_pc' = exception_pc
  BY DEF Next, CommitCycle, CommitDone, LeaveException, RecoverInstr, RecoverDone, AluCycles,
     WriteBack, IssueCycle, RefreshReady, TakeReady, PassWaiting, IssueToAlus,
     RenameDispatchCycle, CheckResources, RenameInstr, DispatchDone, FetchDecodeCycle,
     Terminated, vars, endVars, archVars
<1>2. \A l \in LogReg : physical'[CommittedMap(l)'] = physical[CommittedMap(l)]
  <2>1. \A l : CommittedMap(l) = MapAt(1, l) /\ CommittedMap(l)' = MapAt(1, l)'
    BY DEF CommittedMap, Writers, MapAt, MapOf, WritersFrom
  <2> QED
    BY <2>1, RegistersKept
<1>3. ASSUME ~exception_mode PROVE Base' = Base
  <2>1. ~RecoverInstr
    BY <1>3 DEF RecoverInstr
  <2>2. CASE RenameInstr
    BY <2>2, BaseRenamed
  <2>3. CASE ~RenameInstr
    BY <2>1, <2>3, BaseKept
  <2> QED
    BY <2>2, <2>3
<1>4. TypeOK'
  BY TypeNext
<1>5. pc - Len(InFlight) = Base /\ pc' - Len(InFlight)' = Base'
  BY <1>4, InOrderView, InOrderViewNext
<1> QED
  BY <1>1, <1>2, <1>3, <1>5 DEF InOrder!vars

\* For every program, every number of registers and every size and width of the
\* pipeline, the committed registers and addresses are those of sequential execution
\* and an exception is precise, if the uninitialised variable of rename_dispatch_cycle
\* always holds the number of a register (rename_dispatch.c:190).
THEOREM Refinement ==
    ASSUME UninitRegIdx \subseteq PhyReg
    PROVE  Spec => ImplementsInOrder
<1>1. /\ TypeOK /\ Accounting /\ RegisterPartition /\ RenameChain /\ RegistersGiven
      /\ FetchOrder /\ Located /\ Located' /\ Values /\ Untouched /\ [Next]_vars
      => [InOrder!Next]_InOrder!vars
  <2> SUFFICES ASSUME TypeOK, Accounting, RegisterPartition, RenameChain, RegistersGiven,
                      FetchOrder, Located, Located', Values, Untouched, [Next]_vars
               PROVE  InOrder!Next \/ UNCHANGED InOrder!vars
    OBVIOUS
  <2>1. ~exception_mode => LocatedInv /\ DoneComputed /\ pc <= Len(program)
    BY DEF Located, Values, ValuesInv, FetchOrder
  <2>2. CASE CommitInstr
    <3>1. ~exception_mode
      BY <2>2 DEF CommitInstr
    <3> QED
      BY <2>1, <2>2, <3>1, RefinesCommit DEF InOrder!Next
  <2>3. CASE RaiseException
    <3>1. ~exception_mode
      BY <2>3 DEF RaiseException
    <3> QED
      BY <2>1, <2>3, <3>1, RefinesException DEF InOrder!Next
  <2>4. CASE ~CommitInstr /\ ~RaiseException
    BY <2>4, RefinesOther
  <2> QED
    BY <2>2, <2>3, <2>4
<1> QED
  BY <1>1, RefinesInit, TypeCorrect, RegistersPartitioned, RenameChainHolds,
     RegistersGivenHolds, FetchOrderHolds, LocatedHolds, ValuesHold, UntouchedHolds, PTL
  DEF Spec, ImplementsInOrder, InOrder!Spec
=============================================================================
