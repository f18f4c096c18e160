------------------------------- MODULE JitRun -------------------------------
(***************************************************************************)
(* TLlvmRunner::Run (codegen/llvm/llvm_runner.cpp): the compiled program.  *)
(* Every coroutine function has an LLVM frame of its own, and its caller   *)
(* awaits it through TWrappedLLVMCoro.  An executor resumes the leaf that  *)
(* awaits an operation; nothing resumes a parent whose child has finished, *)
(* so the loop polls: after each pass over the executors it resumes the    *)
(* entry frame, which drives its child one step, and so on down the chain. *)
(*                                                                         *)
(* A module without coroutine functions runs as a plain call.  A failing   *)
(* assertion of the program (__ensure) longjmps to SafeJitCall while its   *)
(* target is set, which is during the entry call only.                     *)
(***************************************************************************)
EXTENDS AsyncRuntime

CONSTANTS
    Asserts,    \* built with assertions (without NDEBUG)
    Plain,      \* may the module be without coroutine functions?
    Ensures     \* may an assertion of the program fail?

ASSUME JitAssumption ==
    /\ Asserts \in BOOLEAN
    /\ Plain \in BOOLEAN
    /\ Ensures \in BOOLEAN

VARIABLE guarded     \* tls_jmp_buf is set

jitVars == <<vars, guarded>>

JitInit == Init /\ guarded = FALSE

KeepQueues == UNCHANGED <<opVars, queueVars, fired, callerOf, at, todoCalls, todoFutures,
                          processed, flushing, runs>>

\* A module without coroutine functions: RunEntryFunction.
StartPlain ==
    /\ Plain
    /\ InLoop("out")
    /\ runs < MaxRuns /\ lost = {}
    /\ runs' = runs + 1
    /\ depth' = 1 /\ lo' = 1 /\ hi' = 1
    /\ Goes(1, "run")
    /\ loop' = "plain"
    /\ UNCHANGED <<opVars, queueVars, promVars, fut, at, todoCalls, todoFutures,
                   processed, flushing>>

PlainStep ==
    /\ loop = "plain"
    /\ (\E e \in Drawing : Draw(e)) \/ Finish \/ Yield

\* ... and the result is returned.
EndPlain ==
    /\ InLoop("plain")
    /\ DestroyFrames
    /\ loop' = "out"
    /\ KeepQueues

\* __ensure fails in program code.  With a target set, the longjmp ends the run
\* with an error; without one, a C++ exception is thrown across JIT frames.
EnsureFails ==
    /\ Ensures
    /\ Running("run")
    /\ IF guarded THEN DestroyFrames /\ loop' = "out"
                  ELSE loop' = "terminated" /\ UNCHANGED <<frameVars, orphans>>
    /\ KeepQueues

\* Without assertions, a pass that processed nothing is like any other.
AfterPoll == IF Asserts THEN AfterPass ELSE "test"

\* Mutant of Poll: the entry frame is resumed only when it awaits an operation.
PollLeafOnly ==
    /\ PassEnded
    /\ ~flushing
    /\ loop' = AfterPoll
    /\ IF loop' = "aborted" \/ pos[1] = "done" \/ fut[1] = 0 THEN UNCHANGED <<pos, lo, hi>>
       ELSE Goes(1, "check") /\ lo' = 1 /\ hi' = 1
    /\ UNCHANGED <<opVars, queueVars, promVars, depth, fut, at, todoCalls, todoFutures,
                   processed, flushing, runs>>

\* After a pass the entry frame is resumed, unless it has finished.
Poll ==
    /\ PassEnded
    /\ ~flushing
    /\ loop' = AfterPoll
    /\ IF loop' = "aborted" \/ pos[1] = "done" THEN UNCHANGED <<pos, lo, hi>>
       ELSE Goes(1, "check") /\ lo' = 1 /\ hi' = 1
    /\ UNCHANGED <<opVars, queueVars, promVars, depth, fut, at, todoCalls, todoFutures,
                   processed, flushing, runs>>

JitNext ==
    \/ (StartRun \/ StartPlain) /\ guarded' = TRUE
    \/ /\ \/ loop # "plain" /\ (FrameStep \/ ChildStep)
          \/ PlainStep \/ EndPlain \/ EnsureFails
          \/ PassStep \/ Poll \/ EndRun
       /\ guarded' = (guarded /\ hi' > 0)

JitSpec == JitInit /\ [][JitNext]_jitVars
-----------------------------------------------------------------------------
\* A coroutine that has finished is collected by the caller that awaits it,
\* although nothing resumes that caller but polling from the entry frame.
FinishedIsCollected == \A f \in Frames : pos[f] = "done" ~> pos[f] # "done"

\* An awaited operation completes: its frame goes on.
AwaitedCompletes == \A f \in Frames : \A n \in Ops : fut[f] = n ~> fut[f] # n

\* The assertion that a pass processes an event (llvm_runner.cpp:540) fails only
\* while a finished callee waits for its caller to be polled: never where an
\* operation is awaited, nor with a single frame.
AbortsUncollected == loop = "aborted" => depth > 1 /\ pos[depth] = "done"
=============================================================================
