------------------------ MODULE InterpreterRunProofs ------------------------
(***************************************************************************)
(* The interpreter's run loop keeps its promises for any executors and any *)
(* numbers of operations and runs, rejected sheets included.               *)
(***************************************************************************)
EXTENDS InterpreterRun, AsyncRuntimeProofs

\* There is one frame at most: a compiled call stays inside the coroutine.
InterpreterInv == RuntimeInv /\ loop # "plain" /\ depth <= 1 /\ EventInv /\ FlushInv

\* ... and once a sheet has been rejected, nothing happens.
InterpreterIInv == InterpreterInv \/ Rejected

\* The only frame of an unfinished program waits for a pending operation.
LEMMA InterpreterWaits ==
    ASSUME InterpreterInv, hi = 0, loop # "out", pos[1] # "done"
    PROVE  Pending
<1>1. depth = 1
  BY FrameTypes DEF InterpreterInv, RuntimeInv, LoopInv
<1>2. QED
  BY <1>1, DeepestFrame DEF InterpreterInv

\* An unfinished pass that is over has processed an event.
LEMMA TestAgainKeeps ==
    ASSUME InterpreterInv, TestAgain
    PROVE  InterpreterInv' /\ loop' = "test" /\ UNCHANGED opVars /\ WaitsFor' = WaitsFor
<1>1. /\ hi = 0 /\ todoCalls = <<>> /\ todoFutures = <<>> /\ loop = "visit"
      /\ UNCHANGED <<opVars, queueVars, promVars, frameVars, todoCalls, todoFutures>>
  BY BetweenVisits DEF TestAgain, PassEnded, InLoop, InterpreterInv
<1>2. loop' = "test"
  BY <1>1, PassHasEvents, InterpreterWaits DEF InterpreterInv, TestAgain, AfterPass
<1>3. TypeOK'
  BY <1>2 DEF InterpreterInv, RuntimeInv, TypeOK, TestAgain, LoopPos, opVars, queueVars, promVars, frameVars
<1>4. RuntimeInv'
  BY <1>1, <1>2, <1>3, MoveKeeps DEF InterpreterInv
<1>5. QED
  BY <1>1, <1>2, <1>4 DEF InterpreterInv, EventInv, FlushInv, InPass, WaitsFor, frameVars

\* Every step but a rejection keeps the invariant and maps to a step of
\* ProgramEffects or a stutter.
LEMMA InterpreterStep ==
    ASSUME InterpreterInv, [InterpreterNext]_vars, ~CallThrows
    PROVE  InterpreterInv' /\ [Effects!EffectsNext]_(Effects!effectVars)
<1>1. CASE StartRun
  <2>1. depth' = 1 /\ loop' = "test"
    BY <1>1 DEF StartRun
  <2>2. QED
    BY <1>1, <2>1, StartRunKeeps, QuietRefines DEF InterpreterInv, StartRun
<1>2. CASE FrameStep
  <2>1. RuntimeInv' /\ [Effects!EffectsNext]_(Effects!effectVars)
    BY <1>2, RuntimeStepKeeps, RuntimeStepRefines DEF InterpreterInv, RuntimeStep
  <2>2. EventInv' /\ FlushInv'
    BY <1>2, EventFrameStep, FlushFrameStep DEF InterpreterInv
  <2>3. loop' = loop /\ depth' = depth
    BY <1>2 DEF FrameStep, Call, Draw, Finish, AwaitReady, AwaitSuspend, Yield, loopVars, frameVars
  <2>4. QED
    BY <2>1, <2>2, <2>3 DEF InterpreterInv
<1>3. CASE PassStep
  <2>1. RuntimeInv' /\ [Effects!EffectsNext]_(Effects!effectVars)
    BY <1>3, RuntimeStepKeeps, RuntimeStepRefines DEF InterpreterInv, RuntimeStep
  <2>2. EventInv' /\ FlushInv'
    BY <1>3, EventPassStep, FlushPassStep DEF InterpreterInv
  <2>3. loop' \in {"visit", "calls", "futures", "undefined", loop} /\ depth' = depth
    BY <1>3 DEF PassStep, BeginPass, Visit, RunCall, MoveFutures, RunFuture, Leave, frameVars
  <2>4. QED
    BY <2>1, <2>2, <2>3 DEF InterpreterInv
<1>4. CASE TestAgain
  BY <1>4, TestAgainKeeps, QuietRefines
<1>5. CASE EndRun
  <2>1. depth' = 0 /\ loop' = "out"
    BY <1>5 DEF EndRun, DestroyFrames
  <2>2. QED
    BY <1>5, <2>1, EndRunKeeps, QuietRefines DEF InterpreterInv, EndRun
<1>6. CASE UNCHANGED vars
  <2>1. loop' = loop /\ depth' = depth
    BY <1>6 DEF vars, loopVars, frameVars
  <2>2. QED
    BY <1>6, <2>1, StutterKeeps, QuietRefines DEF InterpreterInv
<1>7. QED
  BY <1>1, <1>2, <1>3, <1>4, <1>5, <1>6 DEF InterpreterNext

\* After a rejection no step is possible.
LEMMA InterpreterStops ==
    ASSUME Rejected, [InterpreterNext]_vars
    PROVE  Rejected' /\ UNCHANGED opVars /\ WaitsFor' = WaitsFor /\ loop' = loop
<1>1. UNCHANGED vars
  BY RejectedIsFinal DEF InterpreterNext, TestAgain
<1>2. QED
  BY <1>1 DEF Rejected, TypeOK, WaitsFor, vars, opVars, queueVars, promVars, frameVars, loopVars

\* Every step keeps the strengthened invariant and maps to a step or a stutter.
LEMMA InterpreterIStep ==
    ASSUME InterpreterIInv, [InterpreterNext]_vars
    PROVE  InterpreterIInv' /\ [Effects!EffectsNext]_(Effects!effectVars)
<1>1. CASE InterpreterInv /\ ~CallThrows
  BY <1>1, InterpreterStep DEF InterpreterIInv
<1>2. CASE InterpreterInv /\ CallThrows
  BY <1>2, RejectionAbandons DEF InterpreterInv, InterpreterIInv
<1>3. CASE Rejected
  BY <1>3, InterpreterStops, QuietRefines DEF InterpreterIInv
<1>4. QED
  BY <1>1, <1>2, <1>3 DEF InterpreterIInv

\* The invariant holds initially.
LEMMA InterpreterInit == Init => InterpreterIInv
BY InitKeeps DEF Init, InterpreterIInv, InterpreterInv, EventInv, FlushInv, InPass

\* The inductive invariant of the interpreter's loop.
THEOREM InterpreterInvariance == InterpreterSpec => []InterpreterIInv
BY InterpreterInit, InterpreterIStep, PTL DEF InterpreterSpec

\* Program code runs only when everything it awaited has taken effect.
THEOREM InterpreterAwaits == InterpreterSpec => []AwaitedIsApplied
<1>1. InterpreterIInv => AwaitedIsApplied
  BY RuntimeSafety DEF InterpreterIInv, InterpreterInv, Rejected, AwaitedIsApplied
<1>2. QED
  BY <1>1, InterpreterInvariance, PTL

\* A resolved promise resumes a live, suspended frame that awaits it.
THEOREM InterpreterResumes == InterpreterSpec => []ResumesTheAwaiter
<1>1. InterpreterIInv => ResumesTheAwaiter
  BY RuntimeSafety DEF InterpreterIInv, InterpreterInv, Rejected, ResumesTheAwaiter, TurnOfFuture
<1>2. QED
  BY <1>1, InterpreterInvariance, PTL

\* The assertion in DoEvalRaw never fails.
THEOREM InterpreterHasEvents == InterpreterSpec => []NeverOutOfEvents
<1>1. Init => NeverOutOfEvents
  BY DEF Init, NeverOutOfEvents
<1>2. ASSUME InterpreterIInv, NeverOutOfEvents, [InterpreterNext]_vars
      PROVE  NeverOutOfEvents'
  <2>1. CASE TestAgain
    <3>1. ~Rejected
      BY <2>1, RejectedIsFinal DEF TestAgain
    <3>2. QED
      BY <1>2, <2>1, <3>1, TestAgainKeeps DEF InterpreterIInv, NeverOutOfEvents
  <2>2. CASE FrameStep \/ StartRun \/ EndRun \/ UNCHANGED vars
    BY <1>2, <2>2 DEF NeverOutOfEvents, FrameStep, Call, Draw, Finish, AwaitReady,
                      AwaitSuspend, Yield, StartRun, EndRun, vars, loopVars
  <2>3. CASE PassStep
    BY <1>2, <2>3 DEF NeverOutOfEvents, PassStep, BeginPass, Visit, RunCall, MoveFutures, RunFuture,
                      Leave, CallThrows, loopVars
  <2>4. QED
    BY <1>2, <2>1, <2>2, <2>3 DEF InterpreterNext
<1>3. InterpreterIInv /\ NeverOutOfEvents /\ [InterpreterNext]_vars => NeverOutOfEvents'
  BY <1>2
<1>4. QED
  BY <1>1, <1>3, InterpreterInvariance, PTL DEF InterpreterSpec

\* A program that has come to its end leaves no operation unapplied and no call
\* and no promise behind.
THEOREM InterpreterFlushes == InterpreterSpec => NothingLeftBehind
<1>1. ASSUME InterpreterIInv, [InterpreterNext]_vars
      PROVE  [EndsFlushed]_vars
  <2>1. CASE Rejected
    BY <1>1, <2>1, RejectedIsFinal DEF InterpreterNext, TestAgain
  <2>2. CASE InterpreterInv /\ EndRun
    BY <2>2, EndRunFlushed DEF InterpreterInv, EndsFlushed
  <2>3. CASE InterpreterInv /\ CallThrows
    BY <2>3, RejectionAbandons DEF InterpreterInv, EndsFlushed
  <2>4. CASE InterpreterInv /\ ~EndRun /\ ~CallThrows /\ ~UNCHANGED vars
    <3>1. CASE FrameStep
      <4>1. hi # 0 /\ loop' = loop
        BY <3>1 DEF FrameStep, Call, Draw, Finish, AwaitReady, AwaitSuspend, Yield, Running, loopVars
      <4>2. QED
        BY <2>4, <4>1, FrameTypes DEF InterpreterInv, RuntimeInv, LoopInv, EndsFlushed, Frames
    <3>2. CASE StartRun \/ TestAgain
      BY <3>2 DEF StartRun, TestAgain, AfterPass, EndsFlushed
    <3>3. CASE PassStep
      <4>1. loop # "out"
        BY <2>4, <3>3, BetweenVisits DEF PassStep, BeginPass, Visit, RunCall, MoveFutures, RunFuture,
              Leave, InLoop, TurnOfFuture, InterpreterInv
      <4>2. loop' # "out"
        BY <2>4, <3>3, <4>1 DEF PassStep, BeginPass, Visit, RunCall, MoveFutures, RunFuture,
              Leave, InLoop
      <4>3. QED
        BY <4>2 DEF EndsFlushed
    <3>4. QED
      BY <1>1, <2>4, <3>1, <3>2, <3>3 DEF InterpreterNext
  <2>5. QED
    BY <1>1, <2>1, <2>2, <2>3, <2>4 DEF InterpreterIInv
<1>2. QED
  BY <1>1, InterpreterInit, InterpreterInvariance, PTL DEF InterpreterSpec, NothingLeftBehind

\* The interpreter with its coroutine, vectors and passes implements
\* ProgramEffects.
THEOREM InterpreterRefinement == InterpreterSpec => ActsLikeCalls
<1>1. InterpreterIInv /\ [InterpreterNext]_vars => [Effects!EffectsNext]_(Effects!effectVars)
  BY InterpreterIStep
<1>2. QED
  BY <1>1, InitRefines, InterpreterInvariance, PTL
     DEF InterpreterSpec, ActsLikeCalls, Effects!EffectsSpec
=============================================================================
