------------------------------- MODULE Commit -------------------------------
(***************************************************************************)
(* The commit stage (src/commit.c): in-order commit of finished            *)
(* instructions, entry into exception mode, and recovery of the register   *)
(* map, youngest instruction first, once in it.                            *)
(***************************************************************************)
EXTENDS ProcessorState, SequencesExt

Oldest == Head(active_list)

AtCommit == stage = "commit"

\* The test that stops in-order commit at an unfinished instruction.
Finished_Always(entry) == TRUE
Finished(entry) == entry.is_done

\* What an instruction frees when it commits: nothing can read the register it
\* replaced in the map any more.
FreedAtCommit_New(entry) == entry.curr_phy_dest
FreedAtCommit(entry) == entry.old_phy_dest

\* One iteration of commit_cycle's loop: free that register of the oldest
\* instruction, then drop its entry.
CommitInstr ==
    /\ AtCommit /\ ~exception_mode
    /\ step < INSTRUCTIONS_PER_CYCLE
    /\ active_list # << >>
    /\ Finished(Oldest) /\ ~Oldest.is_exception
    /\ LET res == FreeListPushResult(FreedAtCommit(Oldest))
       IN  IF res = "ERR_NONE"
           THEN /\ free_list' = Append(free_list, FreedAtCommit(Oldest))
                /\ active_list' = Tail(active_list)
                /\ Iterate /\ UNCHANGED error
           ELSE Abort(res) /\ UNCHANGED <<free_list, active_list>>
    /\ UNCHANGED <<archVars, logical, regVars, issueVars, endVars, dir, alus,
                   backpressure, exception_mode>>

\* The loop ends: width reached, nothing to commit, or an unfinished head.
CommitDone ==
    /\ AtCommit /\ ~exception_mode
    /\ step < INSTRUCTIONS_PER_CYCLE /\ active_list # << >> => ~Finished(Oldest)
    /\ GoTo("execute")
    /\ UNCHANGED <<archVars, renameVars, regVars, issueVars, endVars, dir,
                   alus, backpressure, exception_mode, error>>

\* commit_set_exception: the oldest instruction raised an exception.  The rest
\* of the pipeline still runs in this cycle.
RaiseException ==
    /\ AtCommit /\ ~exception_mode
    /\ step < INSTRUCTIONS_PER_CYCLE
    /\ active_list # << >>
    /\ Finished(Oldest) /\ Oldest.is_exception
    /\ exception_mode' = TRUE
    /\ exception_pc' = Oldest.pc
    /\ is_exception' = TRUE
    /\ backpressure' = TRUE
    /\ pc' = PC_EXCEPTION
    /\ dir' = << >>
    /\ iq' = << >>
    /\ alus' = EmptyAlus
    /\ GoTo("execute")
    /\ UNCHANGED <<renameVars, regVars, entries, endVars, error>>

-----------------------------------------------------------------------------
\* commit_exception_mode with nothing left to recover on entry.  The local
\* flag exception_mode stays set.
LeaveException ==
    /\ AtCommit /\ exception_mode
    /\ step = 0 /\ active_list = << >>
    /\ is_exception' = FALSE
    /\ backpressure' = FALSE
    /\ GoTo("execute")
    /\ UNCHANGED <<pc, exception_pc, renameVars, regVars, issueVars, endVars,
                   dir, alus, exception_mode, error>>

\* The position in the active list of the instruction undone next: the youngest.
RecoverIndex_Oldest == 1
RecoverIndex == Len(active_list)

\* One iteration of the recovery loop: undo the renaming of that instruction
\* and free the register it had been given.
RecoverInstr ==
    /\ AtCommit /\ exception_mode
    /\ step < INSTRUCTIONS_PER_CYCLE
    /\ active_list # << >>
    /\ LET undone == active_list[RecoverIndex]
           current == logical[undone.log_dest]
           res == FreeListPushResult(current)
       IN  /\ active_list' = RemoveAt(active_list, RecoverIndex)
           /\ logical' = [logical EXCEPT ![undone.log_dest] = undone.old_phy_dest]
           /\ IF res = "ERR_NONE"
              THEN /\ free_list' = Append(free_list, current)
                   /\ is_busy' = [is_busy EXCEPT ![current] = FALSE]
                   /\ Iterate /\ UNCHANGED error
              ELSE Abort(res) /\ UNCHANGED <<free_list, is_busy>>
    /\ UNCHANGED <<archVars, physical, issueVars, endVars, dir, alus,
                   backpressure, exception_mode>>

RecoverDone ==
    /\ AtCommit /\ exception_mode
    /\ step > 0
    /\ step = INSTRUCTIONS_PER_CYCLE \/ active_list = << >>
    /\ GoTo("execute")
    /\ UNCHANGED <<archVars, renameVars, regVars, issueVars, endVars, dir,
                   alus, backpressure, exception_mode, error>>

CommitCycle == CommitInstr \/ CommitDone \/ RaiseException
               \/ LeaveException \/ RecoverInstr \/ RecoverDone
=============================================================================
