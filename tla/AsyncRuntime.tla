---------------------------- MODULE AsyncRuntime ----------------------------
(***************************************************************************)
(* Futures, coroutine frames and the native executors (future.h, runtime/  *)
(* future.cpp, robot.cpp, turtle.cpp, drawer.cpp, painter.cpp, io.cpp), as  *)
(* the two native engines use them: InterpreterRun and JitRun add the loop  *)
(* that drives a program.  Everything is one thread: a frame runs until it *)
(* suspends or returns, and an executor that resolves a promise resumes    *)
(* the awaiting frame inline, from inside its process_events.              *)
(*                                                                         *)
(* The program is any program: wherever a frame runs it may call an        *)
(* operation of an executor, call another coroutine, or finish.  An        *)
(* operation is a number, in program order.  Every call is awaited at once *)
(* (CoroutineAnnotationTransform puts the await around it), so the frames  *)
(* of a program are a chain, 1 the entry, each awaiting the next.          *)
(***************************************************************************)
EXTENDS Integers, Sequences

CONSTANTS
    Order,      \* the executors, as the event loops visit them
    Paired,     \* those with one vector of (callback, future) pairs
    Drawing,    \* those whose void operations are queued without a future
    MaxOps,     \* bound: operations a process executes
    MaxDepth,   \* bound: nested coroutine calls
    MaxRuns,    \* bound: program runs of one process
    BadSheets   \* may painter_new_sheet be called with sizes it rejects?

Executors == {Order[k] : k \in DOMAIN Order}
Ops       == 1..MaxOps
Frames    == 1..MaxDepth

ASSUME RuntimeAssumption ==
    /\ Order \in Seq({Order[k] : k \in DOMAIN Order}) /\ Order # <<>>
    /\ Paired \subseteq Executors
    /\ Drawing \subseteq Executors \ Paired
    /\ MaxOps \in Nat
    /\ MaxDepth \in Nat \ {0}
    /\ MaxRuns \in Nat
    /\ BadSheets \in BOOLEAN

VARIABLES
    issued,       \* number of operations called so far
    execOf,       \* the executor of an operation
    applied,      \* operations whose callback has run
    lost,         \* operations whose callback was thrown away
    calls,        \* g_pendingCalls, or the Callbacks of pendingEvents
    futures,      \* g_pendingFutures, or the Futures of pendingEvents
    fired,        \* promises with ErrorOr set
    callerOf,     \* Promise.Caller: a frame, or 0 for the noop coroutine
    orphans,      \* promises whose awaiting frame was destroyed
    depth,        \* frames that exist: 1..depth
    pos,          \* what a frame is doing
    fut,          \* the operation a frame awaits, or 0
    lo, hi,       \* frames on the native stack, hi running; 0: the loop runs
    loop,         \* what the event loop is doing
    at,           \* ... and for which executor of Order
    todoCalls,    \* process_events: local `calls` still to run
    todoFutures,  \* process_events: local `futures` still to visit
    processed,    \* events counted in this pass
    flushing,     \* the pass is the one after the program's end
    runs          \* programs started

opVars    == <<issued, execOf, applied, lost>>
queueVars == <<calls, futures>>
promVars  == <<fired, callerOf, orphans>>
frameVars == <<depth, pos, fut, lo, hi>>
loopVars  == <<loop, at, todoCalls, todoFutures, processed, flushing, runs>>
vars      == <<opVars, queueVars, promVars, frameVars, loopVars>>

Init ==
    /\ issued = 0
    /\ execOf = [n \in Ops |-> Order[1]]
    /\ applied = {} /\ lost = {}
    /\ calls = [e \in Executors |-> <<>>]
    /\ futures = [e \in Executors |-> <<>>]
    /\ fired = {} /\ orphans = {}
    /\ callerOf = [n \in Ops |-> 0]
    /\ depth = 0 /\ lo = 0 /\ hi = 0
    /\ pos = [f \in Frames |-> "none"]
    /\ fut = [f \in Frames |-> 0]
    /\ loop = "out" /\ at = 1 /\ processed = 0 /\ flushing = FALSE /\ runs = 0
    /\ todoCalls = <<>> /\ todoFutures = <<>>

Stopped(state) == state \in {"aborted", "undefined", "terminated"}

-----------------------------------------------------------------------------
\* The running frame.

Running(p) == hi > 0 /\ pos[hi] = p /\ ~Stopped(loop)

Goes(f, p) == pos' = [pos EXCEPT ![f] = p]

\* Mutant of Issue: the newest operation goes first.
IssueFirst(e) ==
    /\ issued < MaxOps
    /\ issued' = issued + 1
    /\ execOf' = [execOf EXCEPT ![issued + 1] = e]
    /\ calls' = [calls EXCEPT ![e] = <<issued + 1>> \o @]

\* Operation number issued+1, of executor e.
Issue(e) ==
    /\ issued < MaxOps
    /\ issued' = issued + 1
    /\ execOf' = [execOf EXCEPT ![issued + 1] = e]
    /\ calls' = [calls EXCEPT ![e] = Append(@, issued + 1)]

\* Mutant of Call: only the callback is queued.
CallUnresolved(e) ==
    /\ Running("run")
    /\ Issue(e)
    /\ fut' = [fut EXCEPT ![hi] = issued + 1]
    /\ Goes(hi, "check")
    /\ UNCHANGED <<applied, lost, futures, promVars, depth, lo, hi, loopVars>>

\* robot_*, turtle_*, drawer_move_*, painter_new_sheet, qumir_sleep: queue the
\* callback and one of the two futures of a new promise; await the other.
Call(e) ==
    /\ Running("run")
    /\ Issue(e)
    /\ futures' = [futures EXCEPT ![e] = Append(@, issued + 1)]
    /\ fut' = [fut EXCEPT ![hi] = issued + 1]
    /\ Goes(hi, "check")
    /\ UNCHANGED <<applied, lost, promVars, depth, lo, hi, loopVars>>

\* painter_pen, painter_pixel, ...: queue the callback and go on.  (painter_get_pixel
\* queues nothing: it reads the sheet at once and changes nothing here.)
Draw(e) ==
    /\ Running("run")
    /\ Issue(e)
    /\ UNCHANGED <<applied, lost, futures, promVars, frameVars, loopVars>>

Outstanding(e) == {n \in 1..issued : execOf[n] = e} \ (applied \cup lost)

\* A call of a compiled coroutine: the new frame runs at once, on top.
CallChild ==
    /\ Running("run")
    /\ hi < MaxDepth
    /\ depth' = hi + 1
    /\ pos' = [pos EXCEPT ![hi] = "calling", ![hi + 1] = "run"]
    /\ hi' = hi + 1
    /\ UNCHANGED <<opVars, queueVars, promVars, fut, lo, loopVars>>

\* The frame reaches its final suspend point, with a value or with an error of
\* the program (unhandled_exception).
Finish ==
    /\ Running("run")
    /\ Goes(hi, "done")
    /\ UNCHANGED <<opVars, queueVars, promVars, depth, fut, lo, hi, loopVars>>

\* await_ready on an operation's future, true: await_resume, destroy, go on.
AwaitReady ==
    /\ Running("check")
    /\ fut[hi] # 0
    /\ fut[hi] \in fired
    /\ fut' = [fut EXCEPT ![hi] = 0]
    /\ Goes(hi, "run")
    /\ UNCHANGED <<opVars, queueVars, promVars, depth, lo, hi, loopVars>>

\* Mutant of AwaitSuspend: the continuation is not stored.
AwaitSuspendForgetting ==
    /\ Running("check")
    /\ fut[hi] # 0
    /\ fut[hi] \notin fired
    /\ Goes(hi, "suspended")
    /\ UNCHANGED <<opVars, queueVars, promVars, depth, fut, lo, hi, loopVars>>

\* Mutant of AwaitSuspend: the continuation stored is another frame's.
AwaitSuspendOther ==
    /\ Running("check")
    /\ fut[hi] # 0
    /\ fut[hi] \notin fired
    /\ callerOf' = [callerOf EXCEPT ![fut[hi]] = hi + 1]
    /\ Goes(hi, "suspended")
    /\ UNCHANGED <<opVars, queueVars, fired, orphans, depth, fut, lo, hi, loopVars>>

\* ... false: await_suspend stores the frame as the promise's Caller.
AwaitSuspend ==
    /\ Running("check")
    /\ fut[hi] # 0
    /\ fut[hi] \notin fired
    /\ callerOf' = [callerOf EXCEPT ![fut[hi]] = hi]
    /\ Goes(hi, "suspended")
    /\ UNCHANGED <<opVars, queueVars, fired, orphans, depth, fut, lo, hi, loopVars>>

\* await_ready on a wrapped coroutine, true: read its result and destroy it.
ChildReady ==
    /\ Running("check")
    /\ fut[hi] = 0
    /\ pos[hi + 1] = "done"
    /\ depth' = hi
    /\ pos' = [pos EXCEPT ![hi] = "run", ![hi + 1] = "none"]
    /\ UNCHANGED <<opVars, queueVars, promVars, fut, lo, hi, loopVars>>

\* ... false: TWrappedLLVMCoro::await_suspend drives the child one step.
ChildDrive ==
    /\ Running("check")
    /\ fut[hi] = 0
    /\ pos[hi + 1] # "done"
    /\ pos' = [pos EXCEPT ![hi] = "driving", ![hi + 1] = "check"]
    /\ hi' = hi + 1
    /\ UNCHANGED <<opVars, queueVars, promVars, depth, fut, lo, loopVars>>

\* What the frame below does when the running one has given up control: after
\* the call it awaits the new frame; after await_suspend it suspends as well.
Below(p) == IF p = "calling" THEN "check" ELSE "suspended"

\* The running frame has suspended or finished.
Yield ==
    /\ hi > 0 /\ ~Stopped(loop)
    /\ pos[hi] \in {"suspended", "done"}
    /\ IF hi = lo THEN lo' = 0 /\ hi' = 0 /\ UNCHANGED pos
       ELSE /\ hi' = hi - 1
            /\ Goes(hi - 1, Below(pos[hi - 1]))
            /\ UNCHANGED lo
    /\ UNCHANGED <<opVars, queueVars, promVars, depth, fut, loopVars>>

FrameStep ==
    \/ \E e \in Executors : Call(e)
    \/ \E e \in Drawing : Draw(e)
    \/ Finish \/ AwaitReady \/ AwaitSuspend \/ Yield

ChildStep == CallChild \/ ChildReady \/ ChildDrive
-----------------------------------------------------------------------------
\* One pass over the executors' process_events.

InLoop(state) == hi = 0 /\ loop = state

\* The pass begins; the program's end makes it the flush.
BeginPass ==
    /\ InLoop("test")
    /\ flushing' = (pos[1] = "done")
    /\ loop' = "visit" /\ at' = 1 /\ processed' = 0
    /\ UNCHANGED <<opVars, queueVars, promVars, frameVars, todoCalls, todoFutures, runs>>

\* What process_events adds to `processed` for the vector of calls it moved.
\* (io_process_events counts its futures only.)
CountedCalls(e) == IF e \in Paired \cup Drawing THEN Len(calls[e]) ELSE 0

\* std::move of the vector(s): what the callbacks queue waits for a later visit.
Visit ==
    /\ InLoop("visit")
    /\ at \in DOMAIN Order
    /\ LET e == Order[at] IN
       /\ todoCalls' = calls[e]
       /\ calls' = [calls EXCEPT ![e] = <<>>]
       /\ IF e \in Paired
          THEN /\ todoFutures' = futures[e]
               /\ futures' = [futures EXCEPT ![e] = <<>>]
          ELSE UNCHANGED <<todoFutures, futures>>
       /\ processed' = processed + CountedCalls(e)
    /\ loop' = "calls"
    /\ UNCHANGED <<opVars, promVars, frameVars, at, flushing, runs>>

\* A pair's callback runs, then its future is visited, before the next pair.
TurnOfCall ==
    /\ todoCalls # <<>>
    /\ Order[at] \in Paired => Len(todoCalls) = Len(todoFutures)

RunCall ==
    /\ InLoop("calls")
    /\ TurnOfCall
    /\ applied' = applied \cup {Head(todoCalls)}
    /\ todoCalls' = Tail(todoCalls)
    /\ UNCHANGED <<issued, execOf, lost, queueVars, promVars, frameVars, loop, at, todoFutures,
                   processed, flushing, runs>>

\* Painter and io: all calls done, the futures are moved out.
MoveFutures ==
    /\ InLoop("calls")
    /\ Order[at] \notin Paired
    /\ todoCalls = <<>>
    /\ todoFutures' = futures[Order[at]]
    /\ futures' = [futures EXCEPT ![Order[at]] = <<>>]
    /\ processed' = processed + Len(futures[Order[at]])
    /\ loop' = "futures"
    /\ UNCHANGED <<opVars, calls, promVars, frameVars, at, todoCalls, flushing, runs>>

\* Mutant of TurnOfFuture: a pair's future is visited before its callback.
TurnOfFutureFirst ==
    /\ todoFutures # <<>>
    /\ IF Order[at] \in Paired THEN loop = "calls" ELSE loop = "futures"

TurnOfFuture ==
    /\ todoFutures # <<>>
    /\ IF Order[at] \in Paired THEN loop = "calls" /\ Len(todoFutures) > Len(todoCalls)
                               ELSE loop = "futures"

\* future.resume(): return_void, then the caller is resumed inline.  Resuming
\* a frame that was destroyed is undefined behaviour.
RunFuture ==
    /\ hi = 0
    /\ TurnOfFuture
    /\ LET n == Head(todoFutures) IN
       /\ todoFutures' = Tail(todoFutures)
       /\ IF n \in fired THEN UNCHANGED <<promVars, frameVars, loop>>
          ELSE /\ fired' = fired \cup {n}
               /\ callerOf' = [callerOf EXCEPT ![n] = 0]
               /\ UNCHANGED <<orphans, depth, fut>>
               /\ CASE callerOf[n] = 0 -> UNCHANGED <<pos, lo, hi, loop>>
                    [] callerOf[n] # 0 /\ n \in orphans ->
                         loop' = "undefined" /\ UNCHANGED <<pos, lo, hi>>
                    [] OTHER -> /\ Goes(callerOf[n], "check")
                                /\ lo' = callerOf[n] /\ hi' = callerOf[n]
                                /\ UNCHANGED loop
    /\ UNCHANGED <<opVars, queueVars, at, todoCalls, processed, flushing, runs>>

\* process_events returns.
Leave ==
    /\ hi = 0
    /\ todoFutures = <<>>
    /\ \/ loop = "futures"
       \/ loop = "calls" /\ todoCalls = <<>> /\ Order[at] \in Paired
    /\ loop' = "visit" /\ at' = at + 1
    /\ UNCHANGED <<opVars, queueVars, promVars, frameVars, todoCalls, todoFutures,
                   processed, flushing, runs>>

\* Frames and their erased futures are destroyed; promises they registered
\* with keep the Caller.
DestroyFrames ==
    /\ orphans' = orphans \cup {n \in Ops : callerOf[n] # 0}
    /\ depth' = 0 /\ lo' = 0 /\ hi' = 0
    /\ pos' = [f \in Frames |-> "none"]
    /\ fut' = [f \in Frames |-> 0]

Remaining(s) == {s[k] : k \in DOMAIN s}

\* DoPainterNewSheet throws: the exception leaves process_events and the event
\* loop; the local `calls` are gone and g_pendingFutures is not touched.
CallThrows ==
    /\ BadSheets
    /\ InLoop("calls")
    /\ Order[at] \in Drawing
    /\ todoCalls # <<>>
    /\ Head(todoCalls) \in Remaining(futures[Order[at]])
    /\ lost' = lost \cup Remaining(todoCalls)
    /\ todoCalls' = <<>>
    /\ DestroyFrames
    /\ loop' = "out"
    /\ UNCHANGED <<issued, execOf, applied, queueVars, fired, callerOf, at, todoFutures,
                   processed, flushing, runs>>

PassStep == BeginPass \/ Visit \/ RunCall \/ MoveFutures \/ RunFuture \/ Leave \/ CallThrows

PassEnded == InLoop("visit") /\ at \notin DOMAIN Order

\* A run's function is called and runs until it first suspends.  An exception out
\* of process_events ends Eval, or Run, with an error, and the process exits
\* (runner_ir.cpp:189, runner_llvm.cpp:276, bin/interpreter.cpp): nothing is
\* started after a rejection.
StartRun ==
    /\ InLoop("out")
    /\ runs < MaxRuns /\ lost = {}
    /\ runs' = runs + 1
    /\ depth' = 1 /\ lo' = 1 /\ hi' = 1
    /\ Goes(1, "run")
    /\ loop' = "test"
    /\ UNCHANGED <<opVars, queueVars, promVars, fut, at, todoCalls, todoFutures,
                   processed, flushing>>

\* Mutant of EndRun: the program's end skips the flush.
EndRunUnflushed ==
    /\ InLoop("test") /\ pos[1] = "done"
    /\ DestroyFrames
    /\ loop' = "out"
    /\ UNCHANGED <<opVars, queueVars, fired, callerOf, at, todoCalls, todoFutures,
                   processed, flushing, runs>>

\* After the flush the result is taken and the entry frame destroyed.
EndRun ==
    /\ PassEnded
    /\ flushing
    /\ DestroyFrames
    /\ loop' = "out"
    /\ UNCHANGED <<opVars, queueVars, fired, callerOf, at, todoCalls, todoFutures,
                   processed, flushing, runs>>

\* assert(processed > 0 && "coroutine suspended with no pending async events")
AfterPass == IF processed > 0 THEN "test" ELSE "aborted"
-----------------------------------------------------------------------------
FramePos == {"none", "run", "check", "calling", "driving", "suspended", "done"}
LoopPos  == {"out", "plain", "test", "visit", "calls", "futures", "aborted", "undefined", "terminated"}

TypeOK ==
    /\ issued \in 0..MaxOps
    /\ execOf \in [Ops -> Executors]
    /\ applied \subseteq Ops /\ lost \subseteq Ops
    /\ calls \in [Executors -> Seq(Ops)]
    /\ futures \in [Executors -> Seq(Ops)]
    /\ fired \subseteq Ops /\ orphans \subseteq Ops
    /\ callerOf \in [Ops -> 0..MaxDepth]
    /\ depth \in 0..MaxDepth /\ lo \in 0..MaxDepth /\ hi \in 0..MaxDepth
    /\ pos \in [Frames -> FramePos]
    /\ fut \in [Frames -> 0..MaxOps]
    /\ loop \in LoopPos
    /\ at \in 1..(Len(Order) + 1)
    /\ todoCalls \in Seq(Ops) /\ todoFutures \in Seq(Ops)
    /\ processed \in Nat /\ flushing \in BOOLEAN /\ runs \in 0..MaxRuns

\* "In source code this behaves like a normal call" (docs/arch/coroutine.md):
\* while program code runs, every operation it has awaited has taken effect;
\* only void operations of a drawing executor may still be queued.
AwaitedIsApplied ==
    hi > 0 /\ pos[hi] = "run" =>
        \A e \in Executors \ Drawing : Outstanding(e) = {}

\* When a promise is resolved, the frame that is resumed is alive, suspended,
\* and awaits exactly this promise: no spurious, second or late resume.
ResumesTheAwaiter ==
    hi = 0 /\ TurnOfFuture =>
        LET n == Head(todoFutures) IN
        n \notin fired /\ callerOf[n] # 0 =>
            /\ n \notin orphans
            /\ callerOf[n] <= depth
            /\ fut[callerOf[n]] = n
            /\ pos[callerOf[n]] = "suspended"

\* The operation the program waits for: only the deepest frame awaits one.
Effects == INSTANCE ProgramEffects WITH
    waiting <- IF depth = 0 THEN 0 ELSE fut[depth]

\* For the program, an awaited operation is a call, and the operations of one
\* executor take effect once each and in program order, whatever other
\* executors, nested coroutines and moved vectors come in between.
ActsLikeCalls == Effects!EffectsSpec

\* When a program has come to its end and its entry frame is destroyed, every
\* operation called so far has run, by earlier programs too, and neither a call
\* nor a promise is left for the next one: "Flush any remaining batched calls
\* (e.g. painter drawing commands)" (llvm_runner.cpp:545).
EndsFlushed ==
    loop # "plain" /\ pos[1] = "done" /\ loop' = "out" =>
        /\ applied' = 1..issued'
        /\ \A e \in Executors : calls'[e] = <<>> /\ futures'[e] = <<>>

NothingLeftBehind == [][EndsFlushed]_vars

\* Every program that calls finitely many operations and coroutines ends: no
\* wake-up is lost.  (An __ensure that fails without a jump target ends the
\* process.)
EveryRunEnds == <>[][~CallChild]_vars => []<>(loop \in {"out", "terminated"})

\* The event loop is never out of events while the program is suspended.
NeverOutOfEvents == loop # "aborted"

\* No promise resumes a frame that has been destroyed.
NoResumeAfterDestroy == loop # "undefined"
=============================================================================
