----------------------------- MODULE FetchDecode -----------------------------
(***************************************************************************)
(* The fetch and decode stage (src/fetch_decode.c), and the end of         *)
(* processor_cycle, which uses the number of instructions it returns.      *)
(* The flag exception_detected of the stage is never set by the program:   *)
(* signal_exception has no caller, so its branch is left out.              *)
(***************************************************************************)
EXTENDS ProcessorState

SmallerOf(a, b) == IF a < b THEN a ELSE b

\* How many instructions enter the DIR: none under backpressure, otherwise a
\* bundle, cut short by the end of the program or by a full DIR.
FetchCount ==
    LET remaining == IF pc < Len(program) THEN Len(program) - pc ELSE 0
    IN  IF backpressure THEN 0
        ELSE SmallerOf(SmallerOf(INSTRUCTIONS_PER_CYCLE, remaining),
                       DIR_SIZE - Len(dir))

\* The new pc, after the last instruction fetched.
NextPc_FullBundle == IF FetchCount = 0 THEN pc ELSE pc + INSTRUCTIONS_PER_CYCLE
NextPc == pc + FetchCount

\* The end of the program was reached and everything in flight has left.
NothingLeft_InFlight == FetchCount = 0 /\ ~is_exception
NothingLeft_Exception == FetchCount = 0 /\ active_list = << >>
NothingLeft == FetchCount = 0 /\ active_list = << >> /\ ~is_exception

\* `finished` is set from the value ready_to_finish had before this cycle, so
\* that the state it announced is dumped by one more cycle.
FetchDecodeCycle ==
    /\ stage = "fetch"
    /\ dir' = dir \o [k \in 1 .. FetchCount |-> pc + k - 1]
    /\ pc' = NextPc
    /\ finished' = ready_to_finish
    /\ ready_to_finish' = (ready_to_finish \/ NothingLeft)
    /\ GoTo(IF ready_to_finish THEN "end" ELSE "commit")
    /\ UNCHANGED <<is_exception, exception_pc, renameVars, regVars, issueVars,
                   program, alus, backpressure, exception_mode, error>>
=============================================================================
