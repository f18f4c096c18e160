---------------------------- MODULE JitRunProofs ----------------------------
(***************************************************************************)
(* The run loop of compiled programs, for any executors and any numbers of *)
(* operations, runs and nested coroutine calls, with failing assertions    *)
(* and rejected sheets.                                                    *)
(***************************************************************************)
EXTENDS JitRun, AsyncRuntimeProofs

\* No step of the loop of its own: the entry frame is resumed by Poll.
LEMMA PollKeeps ==
    ASSUME RuntimeInv, Poll
    PROVE  /\ RuntimeInv' /\ WaitsFor' = WaitsFor /\ UNCHANGED <<opVars, fired, depth>>
           /\ loop' = AfterPoll /\ depth # 0
           /\ hi' # 0 => lo' = 1 /\ hi' = 1 /\ pos'[1] = "check"
           /\ hi' = 0 => UNCHANGED pos
<1> USE DEF RuntimeInv
<1>1. /\ hi = 0 /\ loop = "visit" /\ todoCalls = <<>> /\ todoFutures = <<>>
      /\ depth # 0 /\ 1 \in Frames /\ loop' \in {"test", "aborted"} /\ loop' = AfterPoll
      /\ UNCHANGED <<opVars, queueVars, promVars, depth, fut, at, todoCalls, todoFutures,
                     processed, flushing, runs>>
  BY BetweenVisits, Constants DEF Poll, PassEnded, InLoop, LoopInv, AfterPoll, AfterPass
<1>2. WaitsFor' = WaitsFor /\ (Pending' <=> Pending)
  BY <1>1 DEF WaitsFor, Pending, promVars
<1>3. CASE UNCHANGED <<pos, lo, hi>>
  <2>1. TypeOK'
    BY <1>1, <1>3 DEF TypeOK, LoopPos, opVars, queueVars, promVars
  <2>2. RuntimeInv'
    BY <1>1, <1>3, <2>1, MoveKeeps DEF frameVars
  <2>3. QED
    BY <1>1, <1>2, <1>3, <2>2 DEF promVars
<1>4. CASE loop' = "test" /\ pos[1] # "done" /\ Goes(1, "check") /\ lo' = 1 /\ hi' = 1
  <2>1. /\ pos'[1] = "check" /\ \A f \in Frames \ {1} : pos'[f] = pos[f]
        /\ pos' \in [Frames -> FramePos] /\ depth \in Frames
    BY <1>1, <1>4, FrameTypes DEF Goes, FramePos
  <2>2. pos[1] = "suspended"
    <3>1. pos[1] \notin {"none", "run", "check", "calling", "driving"}
      BY <1>1, <2>1, FrameTypes DEF FrameInv
    <3>2. QED
      BY <1>1, <1>4, <3>1, FrameTypes DEF FramePos
  <2>3. 1 \in 0..MaxDepth
    BY <1>1, FrameTypes
  <2>4. TypeOK'
    BY <1>1, <1>4, <2>1, <2>3 DEF TypeOK, LoopPos, opVars, queueVars, promVars
  <2>5. FrameInv'
    <3>1. lo' # 0 /\ hi' # 0 /\ lo' <= hi' /\ hi' <= depth' /\ issued' = issued
      BY <1>1, <1>4, <2>1, FrameTypes DEF opVars
    <3>2. ASSUME NEW f \in Frames
          PROVE  /\ pos'[f] = "none" <=> f > depth'
                 /\ f < depth' => pos'[f] \in {"suspended", "check", "calling", "driving"}
                 /\ pos'[f] \in {"calling", "driving"} <=> lo' <= f /\ f < hi'
                 /\ pos'[f] \in {"run", "check"} => f = hi'
                 /\ fut'[f] # 0 => f = depth' /\ pos'[f] \in {"check", "suspended"} /\ fut'[f] <= issued'
                 /\ f = depth' /\ pos'[f] \in {"check", "suspended"} => fut'[f] # 0
      BY <1>1, <1>4, <2>1, <2>2, <3>1, FrameTypes DEF FrameInv
    <3>3. QED
      BY <3>1, <3>2 DEF FrameInv
  <2>6. PromiseInv'
    BY <1>1, <2>1 DEF PromiseInv, promVars, opVars
  <2>7. \A x \in Executors : Outstanding(x)' = Outstanding(x) /\ InHand(x)' = InHand(x)
    BY <1>1 DEF InHand, Outstanding, opVars
  <2>8. QueueInv'
    BY <1>1, <2>7 DEF QueueInv, queueVars
  <2>9. AwaitInv'
    BY <1>1, <1>2, <2>7 DEF AwaitInv, queueVars, opVars
  <2>10. LoopInv'
    BY <1>1, <1>4 DEF LoopInv, InPass
  <2>11. QED
    BY <1>1, <1>2, <1>4, <2>1, <2>4, <2>5, <2>6, <2>8, <2>9, <2>10 DEF promVars
<1>5. QED
  BY <1>1, <1>3, <1>4 DEF Poll

\* A failing assertion of the program: the run ends, or the process does.
LEMMA EnsureFailsKeeps ==
    ASSUME RuntimeInv, EnsureFails
    PROVE  RuntimeInv' /\ WaitsFor' = WaitsFor /\ UNCHANGED opVars
<1> USE DEF RuntimeInv
<1>1. WaitsFor = 0 /\ todoCalls = <<>> /\ todoFutures = <<>> /\ ~Pending /\ depth # 0
  BY RunningFrame, FrameTypes DEF EnsureFails
<1>2. CASE guarded
  BY <1>1, <1>2, DestroyKeeps DEF EnsureFails, KeepQueues
<1>3. CASE ~guarded
  <2>1. loop' = "terminated" /\ UNCHANGED <<opVars, queueVars, promVars, frameVars, at, todoCalls,
              todoFutures, processed, flushing, runs>>
    BY <1>3 DEF EnsureFails, KeepQueues, promVars
  <2>2. TypeOK' /\ FrameInv' /\ PromiseInv'
    BY <2>1 DEF TypeOK, LoopPos, FrameInv, PromiseInv, opVars, queueVars, promVars, frameVars
  <2>3. \A x \in Executors : Outstanding(x)' = Outstanding(x) /\ InHand(x)' = InHand(x)
    BY <2>1 DEF InHand, Outstanding, opVars
  <2>4. ~Pending' /\ WaitsFor' = WaitsFor
    BY <1>1, <2>1 DEF Pending, WaitsFor, frameVars
  <2>5. QueueInv' /\ AwaitInv'
    BY <1>1, <2>1, <2>3, <2>4 DEF QueueInv, AwaitInv, queueVars, opVars
  <2>6. LoopInv'
    BY <1>1, <2>1 DEF LoopInv, InPass, frameVars
  <2>7. QED
    BY <2>1, <2>2, <2>4, <2>5, <2>6
<1>4. QED
  BY <1>2, <1>3

\* A module without coroutines starts, runs and ends.
LEMMA StartPlainKeeps ==
    ASSUME RuntimeInv, StartPlain
    PROVE  RuntimeInv' /\ WaitsFor' = WaitsFor /\ UNCHANGED opVars
<1>1. runs' \in 0..MaxRuns
  BY Constants DEF StartPlain, RuntimeInv, TypeOK
<1>2. QED
  BY <1>1, StartKeeps DEF StartPlain, InLoop

\* Program code without coroutines draws and returns.
LEMMA PlainStepKeeps ==
    ASSUME RuntimeInv, PlainStep
    PROVE  RuntimeInv' /\ [Effects!EffectsNext]_(Effects!effectVars)
<1>1. ASSUME NEW e \in Drawing, Draw(e)
      PROVE  RuntimeInv' /\ [Effects!EffectsNext]_(Effects!effectVars)
  BY <1>1, DrawKeeps, DrawRefines
<1>2. CASE Finish \/ Yield
  BY <1>2, FinishKeeps, YieldKeeps, QuietRefines DEF Finish, Yield, WaitsFor
<1>3. QED
  BY <1>1, <1>2 DEF PlainStep

\* ... and its result is returned.
LEMMA EndPlainKeeps ==
    ASSUME RuntimeInv, EndPlain
    PROVE  RuntimeInv' /\ WaitsFor' = WaitsFor /\ UNCHANGED opVars
<1>1. WaitsFor = 0 /\ todoCalls = <<>> /\ todoFutures = <<>>
  BY BetweenVisits DEF EndPlain, InLoop, RuntimeInv, LoopInv, WaitsFor
<1>2. QED
  BY <1>1, DestroyKeeps DEF EndPlain, KeepQueues

\* What holds until a sheet is rejected, and afterwards.
JitInv  == RuntimeInv /\ EventInv /\ FlushInv /\ AbortsUncollected
JitIInv == JitInv \/ Rejected

\* A pass without an event is met only by a finished callee.
LEMMA PollWithoutEvent ==
    ASSUME RuntimeInv, EventInv, Poll
    PROVE  AbortsUncollected'
<1>1. SUFFICES ASSUME loop' = "aborted"
               PROVE  depth' > 1 /\ pos'[depth'] = "done"
  BY DEF AbortsUncollected
<1>2. hi = 0 /\ depth # 0 /\ depth' = depth /\ pos' = pos /\ ~(processed > 0)
  BY <1>1, PollKeeps DEF Poll, PassEnded, InLoop, AfterPoll, AfterPass
<1>3. ~Pending /\ pos[1] # "done"
  BY <1>2, PassHasEvents DEF Poll
<1>4. depth \in Frames /\ pos[depth] = "done"
  BY <1>2, <1>3, DeepestFrame
<1>5. depth > 1
  BY <1>3, <1>4, FrameTypes DEF Frames
<1>6. QED
  BY <1>2, <1>4, <1>5

\* Frames run neither in a pass without events nor in the flush, nor after the
\* assertion.
LEMMA JitFrameStep ==
    ASSUME JitInv, loop # "plain", FrameStep \/ ChildStep
    PROVE  JitInv' /\ [Effects!EffectsNext]_(Effects!effectVars) /\ loop' = loop /\ loop # "out"
<1>1. RuntimeInv' /\ [Effects!EffectsNext]_(Effects!effectVars)
  <2>1. ~CallThrows
    BY DEF FrameStep, ChildStep, Call, Draw, Finish, AwaitReady, AwaitSuspend, Yield,
           CallChild, ChildReady, ChildDrive, Running, CallThrows, InLoop
  <2>2. QED
    BY <2>1, RuntimeStepKeeps, RuntimeStepRefines DEF JitInv, RuntimeStep
<1>2. EventInv' /\ FlushInv'
  BY EventFrameStep, FlushFrameStep DEF JitInv
<1>3. hi # 0 /\ loop' = loop
  BY DEF FrameStep, ChildStep, Call, Draw, Finish, AwaitReady, AwaitSuspend,
         Yield, CallChild, ChildReady, ChildDrive, Running, loopVars
<1>4. loop \notin {"aborted", "out"}
  BY <1>3, FrameTypes DEF JitInv, RuntimeInv, LoopInv, Frames
<1>5. QED
  BY <1>1, <1>2, <1>3, <1>4 DEF JitInv, AbortsUncollected

\* The executors are visited while the loop runs; a visit does not end the run.
LEMMA JitPassStep ==
    ASSUME JitInv, ~CallThrows, PassStep
    PROVE  JitInv' /\ [Effects!EffectsNext]_(Effects!effectVars) /\ loop' # "out"
<1>1. loop \notin {"plain", "out"}
  BY BetweenVisits DEF PassStep, BeginPass, Visit, RunCall, MoveFutures, RunFuture, Leave, InLoop,
        TurnOfFuture, JitInv, RuntimeInv, AwaitInv
<1>2. loop' \notin {"aborted", "out"}
  BY <1>1, BetweenVisits DEF PassStep, BeginPass, Visit, RunCall, MoveFutures, RunFuture, Leave, InLoop,
        TurnOfFuture, JitInv
<1>3. QED
  BY <1>1, <1>2, RuntimeStepKeeps, RuntimeStepRefines, EventPassStep, FlushPassStep
     DEF JitInv, RuntimeStep, AbortsUncollected

\* Every step but a rejection keeps the invariant and maps to a step of
\* ProgramEffects or a stutter.
LEMMA JitStep ==
    ASSUME JitInv, [JitNext]_jitVars, ~CallThrows
    PROVE  JitInv' /\ [Effects!EffectsNext]_(Effects!effectVars)
<1> USE DEF JitInv
<1>1. CASE StartRun
  <2>1. loop' = "test"
    BY <1>1 DEF StartRun
  <2>2. QED
    BY <1>1, <2>1, StartRunKeeps, QuietRefines DEF StartRun, AbortsUncollected
<1>2. CASE StartPlain
  <2>1. loop' = "plain"
    BY <1>2 DEF StartPlain
  <2>2. QED
    BY <1>2, <2>1, StartPlainKeeps, QuietRefines DEF EventInv, FlushInv, InPass, AbortsUncollected
<1>3. CASE loop # "plain" /\ (FrameStep \/ ChildStep)
  BY <1>3, JitFrameStep
<1>4. CASE PassStep
  BY <1>4, JitPassStep
<1>5. CASE PlainStep
  <2>1. loop = "plain" /\ loop' = loop
    BY <1>5 DEF PlainStep, Draw, Finish, Yield, loopVars
  <2>2. QED
    BY <1>5, <2>1, PlainStepKeeps DEF EventInv, FlushInv, InPass, AbortsUncollected
<1>6. CASE EndPlain
  <2>1. loop' = "out"
    BY <1>6 DEF EndPlain
  <2>2. QED
    BY <1>6, <2>1, EndPlainKeeps, QuietRefines DEF EventInv, FlushInv, InPass, AbortsUncollected
<1>7. CASE EnsureFails
  <2>1. loop' \in {"out", "terminated"}
    BY <1>7 DEF EnsureFails
  <2>2. QED
    BY <1>7, <2>1, EnsureFailsKeeps, QuietRefines DEF EventInv, FlushInv, InPass, AbortsUncollected
<1>8. CASE Poll
  <2>1. loop' \in {"test", "aborted"}
    BY <1>8 DEF Poll, AfterPoll, AfterPass
  <2>2. QED
    BY <1>8, <2>1, PollKeeps, PollWithoutEvent, QuietRefines DEF EventInv, FlushInv, InPass
<1>9. CASE EndRun
  <2>1. loop' = "out"
    BY <1>9 DEF EndRun
  <2>2. QED
    BY <1>9, <2>1, EndRunKeeps, QuietRefines DEF EndRun, AbortsUncollected
<1>10. CASE UNCHANGED jitVars
  <2>1. UNCHANGED vars /\ AbortsUncollected'
    BY <1>10 DEF jitVars, vars, frameVars, loopVars, AbortsUncollected
  <2>2. QED
    BY <2>1, StutterKeeps, QuietRefines
<1>11. QED
  BY <1>1, <1>2, <1>3, <1>4, <1>5, <1>6, <1>7, <1>8, <1>9, <1>10 DEF JitNext

\* After a rejection no step is possible.
LEMMA JitStops ==
    ASSUME Rejected, [JitNext]_jitVars
    PROVE  UNCHANGED vars
<1>1. ~StartPlain /\ ~PlainStep /\ ~EndPlain /\ ~EnsureFails /\ ~Poll
  <2>1. loop = "out" /\ lost # {} /\ hi = 0
    BY DEF Rejected
  <2>2. QED
    BY <2>1, RejectedIsFinal DEF StartPlain, PlainStep, EndPlain, EnsureFails, Poll, InLoop
<1>2. QED
  BY <1>1, RejectedIsFinal DEF JitNext, jitVars

\* Every step keeps the strengthened invariant and maps to a step or a stutter.
LEMMA JitIStep ==
    ASSUME JitIInv, [JitNext]_jitVars
    PROVE  JitIInv' /\ [Effects!EffectsNext]_(Effects!effectVars)
<1>1. CASE JitInv /\ ~CallThrows
  BY <1>1, JitStep DEF JitIInv
<1>2. CASE JitInv /\ CallThrows
  BY <1>2, RejectionAbandons DEF JitInv, JitIInv
<1>3. CASE Rejected
  <2>1. UNCHANGED <<opVars, queueVars, promVars, frameVars, loopVars>>
    BY <1>3, JitStops DEF vars
  <2>2. Rejected' /\ UNCHANGED opVars /\ WaitsFor' = WaitsFor
    BY <1>3, <2>1 DEF Rejected, TypeOK, WaitsFor, opVars, queueVars, promVars, frameVars, loopVars
  <2>3. QED
    BY <2>2, QuietRefines DEF JitIInv
<1>4. QED
  BY <1>1, <1>2, <1>3 DEF JitIInv

\* The invariant holds initially.
LEMMA JitStarts == JitInit => JitIInv
BY InitKeeps DEF JitInit, Init, JitIInv, JitInv, EventInv, FlushInv, InPass, AbortsUncollected

\* The invariant of the asynchronous runtime holds under the JIT's loop, with
\* its polling, its failing assertions and its rejected sheets.
THEOREM JitInvariance == JitSpec => []JitIInv
BY JitStarts, JitIStep, PTL DEF JitSpec

\* Every variable keeps its type, under the JIT's loop.
THEOREM JitTypeCorrect == JitSpec => []TypeOK
<1>1. JitIInv => TypeOK
  BY DEF JitIInv, JitInv, RuntimeInv, Rejected
<1>2. QED
  BY <1>1, JitInvariance, PTL

\* Program code runs only when everything it awaited has taken effect, however
\* deep the coroutine calls are nested.
THEOREM JitAwaits == JitSpec => []AwaitedIsApplied
<1>1. JitIInv => AwaitedIsApplied
  BY RuntimeSafety DEF JitIInv, JitInv, Rejected, AwaitedIsApplied
<1>2. QED
  BY <1>1, JitInvariance, PTL

\* A resolved promise resumes a live, suspended frame that awaits it, although
\* polling resumes frames as well.
THEOREM JitResumes == JitSpec => []ResumesTheAwaiter
<1>1. JitIInv => ResumesTheAwaiter
  BY RuntimeSafety DEF JitIInv, JitInv, Rejected, ResumesTheAwaiter, TurnOfFuture
<1>2. QED
  BY <1>1, JitInvariance, PTL

\* A compiled program with its chain of frames, vectors and passes implements
\* ProgramEffects.
THEOREM JitRefinement == JitSpec => ActsLikeCalls
<1>1. JitInit => Effects!EffectsInit
  BY InitRefines DEF JitInit
<1>2. JitIInv /\ [JitNext]_jitVars => [Effects!EffectsNext]_(Effects!effectVars)
  BY JitIStep
<1>3. QED
  BY <1>1, <1>2, JitInvariance, PTL DEF JitSpec, ActsLikeCalls, Effects!EffectsSpec

\* The assertion of TLlvmRunner::Run fails only where a finished callee has not
\* been collected, for calls nested to any depth.
THEOREM JitAborts == JitSpec => []AbortsUncollected
<1>1. JitIInv => AbortsUncollected
  BY DEF JitIInv, JitInv, Rejected, AbortsUncollected
<1>2. QED
  BY <1>1, JitInvariance, PTL

\* A program with a coroutine function that has come to its end leaves nothing
\* behind, not even what plain modules or failed programs before it had left.
THEOREM JitFlushes == JitSpec => NothingLeftBehind
<1>1. ASSUME JitIInv, [JitNext]_jitVars
      PROVE  [EndsFlushed]_vars
  <2>1. CASE Rejected
    BY <1>1, <2>1, JitStops
  <2>2. CASE JitInv /\ EndRun
    BY <2>2, EndRunFlushed DEF JitInv, EndsFlushed
  <2>3. CASE JitInv /\ CallThrows
    BY <2>3, RejectionAbandons DEF JitInv, EndsFlushed
  <2>4. CASE JitInv /\ ~EndRun /\ ~CallThrows /\ ~UNCHANGED vars
    <3>1. CASE loop # "plain" /\ (FrameStep \/ ChildStep)
      BY <2>4, <3>1, JitFrameStep DEF EndsFlushed
    <3>2. CASE PlainStep \/ EndPlain
      BY <3>2 DEF PlainStep, EndPlain, InLoop, EndsFlushed
    <3>3. CASE EnsureFails
      <4>1. hi = depth /\ pos[hi] = "run" /\ depth \in Frames /\ 1 \in Frames
        BY <2>4, <3>3, RunningFrame, Constants DEF EnsureFails, Running, JitInv
      <4>2. pos[1] # "done"
        BY <2>4, <4>1, FrameTypes DEF JitInv, RuntimeInv, FrameInv, Frames
      <4>3. QED
        BY <4>2 DEF EndsFlushed
    <3>4. CASE PassStep
      BY <2>4, <3>4, JitPassStep DEF EndsFlushed
    <3>5. CASE StartRun \/ StartPlain \/ Poll
      BY <3>5 DEF StartRun, StartPlain, Poll, AfterPoll, AfterPass, EndsFlushed
    <3>6. QED
      BY <1>1, <2>4, <3>1, <3>2, <3>3, <3>4, <3>5 DEF JitNext, jitVars
  <2>5. QED
    BY <1>1, <2>1, <2>2, <2>3, <2>4 DEF JitIInv
<1>2. QED
  BY <1>1, JitStarts, JitInvariance, PTL DEF JitSpec, NothingLeftBehind
=============================================================================
