-------------------------------- MODULE Issue --------------------------------
(***************************************************************************)
(* The issue stage (src/issue.c) and the integer queue (src/iq.c).         *)
(***************************************************************************)
EXTENDS ProcessorState, SequencesExt

\* iq_refresh_ready: the readiness and values of every entry, computed anew.
RefreshReady ==
    /\ stage = "refresh"
    /\ iq' = [i \in 1 .. Len(iq) |-> WithReadiness(iq[i].instr, is_busy, active_list)]
    /\ GoTo("select")
    /\ UNCHANGED <<archVars, renameVars, regVars, entries, endVars, dir, alus,
                   backpressure, exception_mode, error>>

-----------------------------------------------------------------------------
EntryReady(entry) == entry.is_opA_ready /\ entry.is_opB_ready

\* The loop of iq_get_first_n_ready goes on: `step` is its index i, which
\* counts the waiting entries it has passed.
Scanning == /\ stage = "select"
            /\ step < Len(iq)
            /\ Len(entries) < NUM_ALUS
            /\ ~iq[step + 1].instr.is_exception

\* A ready entry moves to the array; the ones behind it shift to its place, so
\* that the index of the loop stays where it is.
Without_Nothing(i) == iq
Without(i) == RemoveAt(iq, i)
StayAtIndex_Advance == Iterate
StayAtIndex == UNCHANGED <<stage, step>>

TakeReady ==
    /\ Scanning /\ EntryReady(iq[step + 1])
    /\ entries' = Append(entries, iq[step + 1])
    /\ iq' = Without(step + 1)
    /\ StayAtIndex
    /\ UNCHANGED <<archVars, renameVars, regVars, endVars, dir, alus,
                   backpressure, exception_mode, error>>

PassWaiting ==
    /\ Scanning /\ ~EntryReady(iq[step + 1])
    /\ Iterate
    /\ UNCHANGED <<archVars, renameVars, regVars, issueVars, endVars, dir,
                   alus, backpressure, exception_mode, error>>

\* alu_push_instruction: the stages shift and the new instruction enters.
Pushed(alu, instr) ==
    [s \in 1 .. ALU_STAGES |-> IF s = 1 THEN instr ELSE alu[s - 1]]

\* The end of issue_cycle: every ALU receives an instruction or a bubble.
IssueToAlus ==
    /\ stage = "select" /\ ~Scanning
    /\ alus' = [a \in 1 .. NUM_ALUS |->
                   Pushed(alus[a], IF a <= Len(entries) THEN entries[a].instr
                                   ELSE EmptySlot)]
    /\ entries' = << >>
    /\ GoTo("rename")
    /\ UNCHANGED <<archVars, renameVars, regVars, iq, endVars, dir,
                   backpressure, exception_mode, error>>

IssueCycle == RefreshReady \/ TakeReady \/ PassWaiting \/ IssueToAlus
=============================================================================
