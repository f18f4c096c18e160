--------------------------- MODULE InterpreterRun ---------------------------
(***************************************************************************)
(* TInterpreter::DoEvalRaw (ir/eval.cpp): the bytecode interpreter is one  *)
(* C++ coroutine.  A compiled call stays inside it (its callee's future is *)
(* complete when the caller awaits it), so there is a single frame, which  *)
(* only executors resume.  Eval runs the module constructor, the entry and *)
(* the module destructor, each a run here, and one process may evaluate    *)
(* several programs.                                                       *)
(***************************************************************************)
EXTENDS AsyncRuntime

\* DoEvalRaw: some event was processed, and the program is looked at again;
\* or the assertion fails.
TestAgain ==
    /\ PassEnded
    /\ ~flushing
    /\ loop' = AfterPass
    /\ UNCHANGED <<opVars, queueVars, promVars, frameVars, at, todoCalls, todoFutures,
                   processed, flushing, runs>>

InterpreterNext ==
    \/ StartRun \/ FrameStep \/ PassStep
    \/ TestAgain \/ EndRun

InterpreterSpec == Init /\ [][InterpreterNext]_vars
=============================================================================
