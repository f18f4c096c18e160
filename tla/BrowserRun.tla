----------------------------- MODULE BrowserRun -----------------------------
(***************************************************************************)
(* A compiled program in the browser page: the Run and Stop buttons and    *)
(* the loop that drives a WebAssembly coroutine (service/static/app.js),   *)
(* its future table (runtime/future.js) and its keyboard                   *)
(* (runtime/keyboard.js).                                                  *)
(*                                                                         *)
(* The page is one thread.  A task (a click, a key, a timer, an answer of  *)
(* the network) runs to its end, then the runs whose promise it settled go *)
(* on, before the next task.  `turn` is the run whose JavaScript is on the *)
(* stack; while it is 0 the page waits.  future.js and keyboard.js are     *)
(* modules of the page: every run has the same table and the same queue.   *)
(*                                                                         *)
(* The program is any program that calls operations, awaiting each at      *)
(* once, and other coroutines; see AsyncRuntime for its frames.  A frame   *)
(* is named by its address, its depth in the instance's chain.             *)
(***************************************************************************)
EXTENDS Integers, Sequences

CONSTANTS
    MaxRuns,     \* bound: clicks on Run
    MaxOps,      \* bound: operations called, by all runs
    MaxCalls,    \* bound: coroutines called, by all runs
    MaxDepth,    \* bound: nested coroutine calls
    MaxKeys,     \* bound: keys pressed
    DoubleClick  \* may Run be clicked while a run is being compiled?

Runs    == 1..MaxRuns
Ops     == 1..MaxOps
Keys    == 1..MaxKeys
Frames  == 1..MaxDepth
Handles == 1..(MaxOps + MaxCalls + 1)     \* the code's -1, -2, ...
Kinds   == {"step", "sleep", "key"}

ASSUME BrowserAssumption ==
    /\ MaxRuns \in Nat \ {0} /\ MaxOps \in Nat /\ MaxCalls \in Nat
    /\ MaxDepth \in Nat \ {0} /\ MaxKeys \in Nat
    /\ DoubleClick \in BOOLEAN

VARIABLES
    clicks,      \* runs started; the newest made the current stop signal
    signalled,   \* the stop signals that were given, by the run that made them
    runEnabled,  \* the Run button; the Stop button is shown when it is FALSE
    turn, pc,    \* the run on the stack; where each run is
    root,        \* a run's future of its entry frame, or 0
    held, sig,   \* the operation a run awaits; the signal it listens to
    bound,       \* wasmExports: the instance of this run
    table,       \* TABLE: from handles to entries
    nextH,       \* NEXT_H
    pending,     \* pendingOps
    keyQueue, codeWaiters,   \* keys; operations waiting for one
    answer,      \* what the promise of a waiter was resolved with, or 0
    pos, fut,    \* of each instance's frames
    lo, hi,      \* frames on the native stack of the bound instance
    issued, kind, owner,     \* operations 1..issued
    applied,     \* operations that took effect
    calls,       \* coroutines called
    typed,       \* keys 1..typed have been pressed
    base,        \* ... of which 1..base before the last reset of the keyboard
    got,         \* keys the program read since then
    astray       \* was a frame resumed that is not suspended?

pageVars  == <<clicks, signalled, runEnabled>>
runVars   == <<turn, pc, root, held, sig>>
tableVars == <<bound, table, nextH, pending>>
keyVars   == <<keyQueue, codeWaiters, answer, typed, base, got>>
frameVars == <<pos, fut, lo, hi, astray>>
opVars    == <<issued, kind, owner, applied>>
vars      == <<pageVars, runVars, tableVars, keyVars, frameVars, opVars, calls>>

Nothing == [h |-> 0, n |-> 0]

Init ==
    /\ clicks = 0 /\ signalled = {} /\ runEnabled = TRUE
    /\ turn = 0 /\ pc = [r \in Runs |-> "none"] /\ root = [r \in Runs |-> 0]
    /\ held = [r \in Runs |-> Nothing] /\ sig = [r \in Runs |-> 0]
    /\ bound = 0 /\ table = <<>> /\ nextH = 1 /\ pending = <<>>
    /\ keyQueue = <<>> /\ codeWaiters = <<>> /\ answer = [n \in Ops |-> 0]
    /\ typed = 0 /\ base = 0 /\ got = <<>>
    /\ pos = [r \in Runs |-> [f \in Frames |-> "none"]]
    /\ fut = [r \in Runs |-> [f \in Frames |-> 0]]
    /\ lo = 0 /\ hi = 0 /\ astray = FALSE
    /\ issued = 0 /\ kind = [n \in Ops |-> "step"] /\ owner = [n \in Ops |-> 0]
    /\ applied = {} /\ calls = 0
-----------------------------------------------------------------------------
\* future.js

Entry(caller, done, op, coro, result) ==
    [caller |-> caller, done |-> done, op |-> op, coro |-> coro, result |-> result]

Put(h, e) == [x \in DOMAIN table \cup {h} |-> IF x = h THEN e ELSE table[x]]
Drop(h)   == [x \in DOMAIN table \ {h} |-> table[x]]

\* __resetFutures
ResetFutures == table' = <<>> /\ nextH' = 1 /\ pending' = <<>>

\* Mutant of Ready: a coroutine that has suspended counts as done.
ReadyWhenSuspended(h) ==
    h \in DOMAIN table =>
        IF table[h].coro = 0 THEN table[h].done
                             ELSE pos[bound][table[h].coro] \in {"done", "suspended"}

\* __qumir_future_await_ready, __qumir_future_done
Ready(h) ==
    h \in DOMAIN table =>
        IF table[h].coro = 0 THEN table[h].done ELSE pos[bound][table[h].coro] = "done"

\* The frames when the future is destroyed: a wrapped one goes with it.
Freed(h) == IF h \in DOMAIN table /\ table[h].coro # 0
            THEN [pos EXCEPT ![bound][table[h].coro] = "none"] ELSE pos

\* __qumir_future_destroy
Destroy(h) == table' = Drop(h) /\ pos' = Freed(h)

\* __qumir_coro_resume of a frame of the bound instance, with an empty stack.
Resume(f) ==
    IF pos[bound][f] = "suspended"
    THEN pos' = [pos EXCEPT ![bound][f] = "check"] /\ lo' = f /\ hi' = f /\ UNCHANGED astray
    ELSE astray' = TRUE /\ UNCHANGED <<pos, lo, hi>>

\* resolveFuture: stores the result and resumes the caller.
ResolveFuture(h, v) ==
    IF Ready(h) THEN UNCHANGED <<table, pos, lo, hi, astray>>
    ELSE /\ table' = Put(h, Entry(table[h].caller, TRUE, table[h].op, table[h].coro, v))
         /\ IF table[h].caller = 0 THEN UNCHANGED <<pos, lo, hi, astray>>
            ELSE Resume(table[h].caller)
-----------------------------------------------------------------------------
\* keyboard.js

ResetKeyboard == keyQueue' = <<>> /\ codeWaiters' = <<>> /\ base' = typed /\ got' = <<>>

StopRequested == clicks \in signalled

\* A run whose promise is settled goes on before the next task.
Woken(r) == \/ pc[r] = "op" /\ (sig[r] \in signalled \/ answer[held[r].n] # 0)
            \/ pc[r] = "delay" /\ sig[r] \in signalled

Quiet == turn = 0 /\ \A r \in Runs : ~Woken(r)

\* onKeyDown, of a key that has a code.
KeyDown ==
    /\ Quiet
    /\ typed < MaxKeys
    /\ typed' = typed + 1
    /\ IF codeWaiters # <<>>
       THEN /\ answer' = [answer EXCEPT ![Head(codeWaiters)] = typed + 1]
            /\ codeWaiters' = Tail(codeWaiters)
            /\ UNCHANGED keyQueue
       ELSE /\ keyQueue' = Append(keyQueue, typed + 1)
            /\ UNCHANGED <<answer, codeWaiters>>
    /\ UNCHANGED <<pageVars, runVars, tableVars, base, got, frameVars, opVars, calls>>
-----------------------------------------------------------------------------
\* The program: wherever the running frame is in its own code.

Running(p) == hi > 0 /\ pos[bound][hi] = p

Goes(f, p) == pos' = [pos EXCEPT ![bound][f] = p]

Unready(n) == Entry(0, FALSE, n, 0, 0)

Issue(k) ==
    /\ issued < MaxOps
    /\ issued' = issued + 1
    /\ kind' = [kind EXCEPT ![issued + 1] = k]
    /\ owner' = [owner EXCEPT ![issued + 1] = bound]
    /\ nextH' = nextH + 1
    /\ fut' = [fut EXCEPT ![bound][hi] = nextH]
    /\ Goes(hi, "check")

\* robot_*, turtle_*, drawer_*, painter_*, qumir_sleep: a future, queued with
\* the closure that executes the operation.
CallOp(k) ==
    /\ Running("run")
    /\ Issue(k)
    /\ table' = Put(nextH, Unready(issued + 1))
    /\ pending' = Append(pending, [h |-> nextH, n |-> issued + 1])
    /\ UNCHANGED <<pageVars, runVars, bound, keyVars, lo, hi, astray, applied, calls>>

\* Mutant of KeyCode: a key already pressed is not looked for.
KeyCodeAlwaysWaits ==
    /\ Running("run")
    /\ Issue("key")
    /\ table' = Put(nextH, Unready(issued + 1))
    /\ pending' = Append(pending, [h |-> nextH, n |-> issued + 1])
    /\ codeWaiters' = Append(codeWaiters, issued + 1)
    /\ UNCHANGED <<pageVars, runVars, bound, keyQueue, answer, typed, base, got,
                   lo, hi, astray, applied, calls>>

\* keyboard_code
KeyCode ==
    /\ Running("run")
    /\ Issue("key")
    /\ IF keyQueue # <<>>
       THEN /\ table' = Put(nextH, Entry(0, TRUE, issued + 1, 0, Head(keyQueue)))
            /\ keyQueue' = Tail(keyQueue)
            /\ applied' = applied \cup {issued + 1}
            /\ UNCHANGED <<pending, codeWaiters>>
       ELSE /\ table' = Put(nextH, Unready(issued + 1))
            /\ pending' = Append(pending, [h |-> nextH, n |-> issued + 1])
            /\ codeWaiters' = Append(codeWaiters, issued + 1)
            /\ UNCHANGED <<keyQueue, applied>>
    /\ UNCHANGED <<pageVars, runVars, bound, answer, typed, base, got, lo, hi, astray, calls>>

\* keyboard_reset
KeyboardReset ==
    /\ Running("run")
    /\ ResetKeyboard
    /\ UNCHANGED <<pageVars, runVars, tableVars, answer, typed, frameVars, opVars, calls>>

\* A call of a compiled coroutine: its frame runs at once, on top.
CallChild ==
    /\ Running("run")
    /\ hi < MaxDepth
    /\ pos[bound][hi + 1] = "none"
    /\ calls < MaxCalls
    /\ calls' = calls + 1
    /\ pos' = [pos EXCEPT ![bound][hi] = "calling", ![bound][hi + 1] = "run"]
    /\ hi' = hi + 1
    /\ UNCHANGED <<pageVars, runVars, tableVars, keyVars, fut, lo, astray, opVars>>

Finish ==
    /\ Running("run")
    /\ Goes(hi, "done")
    /\ UNCHANGED <<pageVars, runVars, tableVars, keyVars, fut, lo, hi, astray, opVars, calls>>

\* await_ready, true: await_resume, __qumir_future_destroy, and on.
AwaitReady ==
    /\ Running("check")
    /\ LET h == fut[bound][hi] IN
       /\ Ready(h)
       /\ table' = Drop(h)
       /\ pos' = [Freed(h) EXCEPT ![bound][hi] = "run"]
       /\ got' = IF h \in DOMAIN table /\ table[h].result # 0
                 THEN Append(got, table[h].result) ELSE got
       /\ fut' = [fut EXCEPT ![bound][hi] = 0]
    /\ UNCHANGED <<pageVars, runVars, bound, nextH, pending, keyQueue, codeWaiters, answer,
                   typed, base, lo, hi, astray, opVars, calls>>

\* ... false: await_suspend, which drives a child coroutine one step.
AwaitSuspend ==
    /\ Running("check")
    /\ LET h == fut[bound][hi] IN
       /\ ~Ready(h)
       /\ table' = Put(h, Entry(hi, table[h].done, table[h].op, table[h].coro, table[h].result))
       /\ IF table[h].coro = 0 THEN Goes(hi, "suspended") /\ UNCHANGED <<hi, astray>>
          ELSE IF pos[bound][table[h].coro] = "suspended"
          THEN /\ pos' = [pos EXCEPT ![bound][hi] = "driving", ![bound][table[h].coro] = "check"]
               /\ hi' = table[h].coro
               /\ UNCHANGED astray
          ELSE astray' = TRUE /\ UNCHANGED <<pos, hi>>
    /\ UNCHANGED <<pageVars, runVars, bound, nextH, pending, keyVars, fut, lo, opVars, calls>>

\* The running frame has suspended or finished.  A caller wraps the frame it
\* called (__qumir_wrap_coro) and awaits it; one that drove it suspends.
Yield ==
    /\ Running("suspended") \/ Running("done")
    /\ IF hi = lo THEN lo' = 0 /\ hi' = 0 /\ UNCHANGED <<pos, fut, table, nextH>>
       ELSE /\ hi' = hi - 1
            /\ UNCHANGED lo
            /\ IF pos[bound][hi - 1] = "calling"
               THEN /\ Goes(hi - 1, "check")
                    /\ table' = Put(nextH, Entry(0, FALSE, 0, hi, 0))
                    /\ nextH' = nextH + 1
                    /\ fut' = [fut EXCEPT ![bound][hi - 1] = nextH]
               ELSE Goes(hi - 1, "suspended") /\ UNCHANGED <<fut, table, nextH>>
    /\ UNCHANGED <<pageVars, runVars, bound, pending, keyVars, astray, opVars, calls>>

\* A run-time error of the program leaves the instance as an exception.
Trap ==
    /\ Running("run")
    /\ pos' = [pos EXCEPT ![bound] = [f \in Frames |-> "none"]]
    /\ lo' = 0 /\ hi' = 0
    /\ pc' = [pc EXCEPT ![turn] = "finally"]
    /\ UNCHANGED <<pageVars, turn, root, held, sig, tableVars, keyVars, fut, astray, opVars, calls>>

ProgramStep == \/ \E k \in {"step", "sleep"} : CallOp(k)
               \/ KeyCode \/ KeyboardReset \/ CallChild \/ Finish
               \/ AwaitReady \/ AwaitSuspend \/ Yield \/ Trap
-----------------------------------------------------------------------------
\* runWasm

Over(r) == pc[r] \in {"none", "ended"}

\* The click; the compile service is asked for the module.
ClickRun ==
    /\ Quiet
    /\ runEnabled
    /\ DoubleClick \/ \A r \in Runs : Over(r)
    /\ clicks < MaxRuns
    /\ clicks' = clicks + 1
    /\ pc' = [pc EXCEPT ![clicks + 1] = "compile"]
    /\ UNCHANGED <<signalled, runEnabled, turn, root, held, sig, tableVars, keyVars, frameVars,
                   opVars, calls>>

\* Stop, or another project or example is opened (requestStopRunningProgram).
RequestStop ==
    /\ Quiet
    /\ ~StopRequested
    /\ signalled' = signalled \cup {clicks}
    /\ UNCHANGED <<clicks, runEnabled, runVars, tableVars, keyVars, frameVars, opVars, calls>>

\* The service is out of reach, or the program does not compile.
CompileFails(r) ==
    /\ Quiet
    /\ pc[r] = "compile"
    /\ pc' = [pc EXCEPT ![r] = "ended"]
    /\ UNCHANGED <<pageVars, turn, root, held, sig, tableVars, keyVars, frameVars, opVars, calls>>

\* The instance is there: keyboard reset, instance bound, futures reset,
\* buttons switched, and the entry function called.
Begin(r) ==
    /\ Quiet
    /\ pc[r] = "compile"
    /\ turn' = r
    /\ pc' = [pc EXCEPT ![r] = "entry"]
    /\ ResetKeyboard
    /\ bound' = r
    /\ ResetFutures
    /\ runEnabled' = FALSE
    /\ pos' = [pos EXCEPT ![r][1] = "run"]
    /\ lo' = 1 /\ hi' = 1
    /\ UNCHANGED <<clicks, signalled, root, held, sig, answer, typed, fut, astray, opVars, calls>>
-----------------------------------------------------------------------------
\* runWasmCoroutine: the code of run r has the stack for itself.

At(r, p) == turn = r /\ hi = 0 /\ pc[r] = p

\* The entry function has returned its frame.
WrapEntry(r) ==
    /\ At(r, "entry")
    /\ root' = [root EXCEPT ![r] = nextH]
    /\ table' = Put(nextH, Entry(0, FALSE, 0, 1, 0))
    /\ nextH' = nextH + 1
    /\ pc' = [pc EXCEPT ![r] = "loop"]
    /\ UNCHANGED <<pageVars, turn, held, sig, bound, pending, keyVars, frameVars, opVars, calls>>

LeaveLoop(r) ==
    /\ At(r, "loop")
    /\ Ready(root[r]) \/ StopRequested
    /\ pc' = [pc EXCEPT ![r] = "finally"]
    /\ UNCHANGED <<pageVars, turn, root, held, sig, tableVars, keyVars, frameVars, opVars, calls>>

\* Mutant of InLoop: the end of the program is not looked for.
InLoopAfterEnd(r) == At(r, "loop") /\ ~StopRequested

InLoop(r) == At(r, "loop") /\ ~Ready(root[r]) /\ ~StopRequested

Shift == pending # <<>> /\ pending' = Tail(pending)

\* A pending operation without a promise of its own is executed and resolved.
ExecuteStep(r) ==
    /\ InLoop(r)
    /\ Shift
    /\ kind[Head(pending).n] = "step"
    /\ applied' = applied \cup {Head(pending).n}
    /\ ResolveFuture(Head(pending).h, 0)
    /\ pc' = [pc EXCEPT ![r] = "after"]
    /\ UNCHANGED <<pageVars, turn, root, held, sig, bound, nextH, keyVars, fut, issued, kind, owner,
                   calls>>

\* robotError and the like: the exception leaves the loop.
ExecuteThrows(r) ==
    /\ InLoop(r)
    /\ Shift
    /\ kind[Head(pending).n] = "step"
    /\ pc' = [pc EXCEPT ![r] = "finally"]
    /\ UNCHANGED <<pageVars, turn, root, held, sig, bound, table, nextH, keyVars, frameVars, opVars,
                   calls>>

\* A sleep or a key: the run waits for the promise, unless stopped.
ExecuteAsync(r) ==
    /\ InLoop(r)
    /\ Shift
    /\ kind[Head(pending).n] # "step"
    /\ held' = [held EXCEPT ![r] = Head(pending)]
    /\ sig' = [sig EXCEPT ![r] = clicks]
    /\ pc' = [pc EXCEPT ![r] = "op"]
    /\ turn' = 0
    /\ UNCHANGED <<pageVars, root, bound, table, nextH, keyVars, frameVars, opVars, calls>>

Interrupted(r) == sig[r] \in signalled \/ StopRequested

\* Mutant of ContinueOp: a stop is not looked for.
ContinueOpAnyway(r) ==
    /\ turn = 0
    /\ pc[r] = "op"
    /\ Woken(r) \/ (Quiet /\ kind[held[r].n] = "sleep")
    /\ turn' = r
    /\ applied' = applied \cup {held[r].n}
    /\ ResolveFuture(held[r].h, answer[held[r].n])
    /\ pc' = [pc EXCEPT ![r] = "after"]
    /\ held' = [held EXCEPT ![r] = Nothing]
    /\ UNCHANGED <<pageVars, root, sig, bound, nextH, pending, keyVars, fut, issued, kind, owner, calls>>

\* The promise is settled (a sleep's timer fires: a task), or Stop is.
ContinueOp(r) ==
    /\ turn = 0
    /\ pc[r] = "op"
    /\ Woken(r) \/ (Quiet /\ kind[held[r].n] = "sleep")
    /\ turn' = r
    /\ IF Interrupted(r)
       THEN /\ Destroy(held[r].h)
            /\ pc' = [pc EXCEPT ![r] = "finally"]
            /\ UNCHANGED <<lo, hi, astray, applied>>
       ELSE /\ applied' = applied \cup {held[r].n}
            /\ ResolveFuture(held[r].h, answer[held[r].n])
            /\ pc' = [pc EXCEPT ![r] = "after"]
    /\ held' = [held EXCEPT ![r] = Nothing]
    /\ UNCHANGED <<pageVars, root, sig, bound, nextH, pending, keyVars, fut, issued, kind, owner, calls>>

\* Mutant of PollRoot: with nothing to execute, the entry frame is left alone.
PollNothing(r) ==
    /\ InLoop(r)
    /\ pending = <<>>
    /\ pc' = [pc EXCEPT ![r] = "after"]
    /\ UNCHANGED <<pageVars, turn, root, held, sig, tableVars, keyVars, frameVars, opVars, calls>>

\* Nothing to execute: __qumir_future_resume of the entry frame.
PollRoot(r) ==
    /\ InLoop(r)
    /\ pending = <<>>
    /\ IF table[root[r]].coro = 0 THEN UNCHANGED <<pos, lo, hi, astray>>
       ELSE Resume(table[root[r]].coro)
    /\ pc' = [pc EXCEPT ![r] = "after"]
    /\ UNCHANGED <<pageVars, turn, root, held, sig, tableVars, keyVars, fut, opVars, calls>>

\* Pacing: at once, or let the page paint, or wait for the animation.
Pace(r) ==
    /\ At(r, "after")
    /\ \/ pc' = [pc EXCEPT ![r] = "loop"] /\ UNCHANGED <<turn, sig>>
       \/ pc' = [pc EXCEPT ![r] = "flush"] /\ turn' = 0 /\ UNCHANGED sig
       \/ /\ pc' = [pc EXCEPT ![r] = "delay"] /\ turn' = 0
          /\ sig' = [sig EXCEPT ![r] = clicks]
    /\ UNCHANGED <<pageVars, root, held, tableVars, keyVars, frameVars, opVars, calls>>

\* The timer of the pace fires, or Stop interrupts the animation's.
ContinuePace(r) ==
    /\ turn = 0
    /\ \/ pc[r] \in {"flush", "delay"} /\ Quiet
       \/ pc[r] = "delay" /\ Woken(r)
    /\ turn' = r
    /\ pc' = [pc EXCEPT ![r] = IF pc[r] = "delay" /\ Interrupted(r) THEN "finally" ELSE "loop"]
    /\ UNCHANGED <<pageVars, root, held, sig, tableVars, keyVars, frameVars, opVars, calls>>

\* finally: the entry frame is destroyed; a stop empties keyboard and futures.
Finally(r) ==
    /\ At(r, "finally")
    /\ pos' = Freed(root[r])
    /\ IF StopRequested
       THEN ResetKeyboard /\ ResetFutures
       ELSE table' = Drop(root[r]) /\ UNCHANGED <<nextH, pending, keyQueue, codeWaiters, base, got>>
    /\ runEnabled' = TRUE
    /\ turn' = 0
    /\ pc' = [pc EXCEPT ![r] = "ended"]
    /\ root' = [root EXCEPT ![r] = 0]
    /\ UNCHANGED <<clicks, signalled, held, sig, bound, answer, typed, fut, lo, hi, astray,
                   opVars, calls>>

RunStep(r) ==
    \/ WrapEntry(r) \/ LeaveLoop(r)
    \/ ExecuteStep(r) \/ ExecuteThrows(r) \/ ExecuteAsync(r) \/ ContinueOp(r)
    \/ PollRoot(r) \/ Pace(r) \/ ContinuePace(r) \/ Finally(r)

Next ==
    \/ KeyDown \/ ClickRun \/ RequestStop
    \/ \E r \in Runs : CompileFails(r) \/ Begin(r)
    \/ ~astray /\ (ProgramStep \/ \E r \in Runs : RunStep(r))

Spec == Init /\ [][Next]_vars

\* Once the page has work for a run, it does it; the user owes nothing.
FairSpec == Spec /\ WF_vars(~astray /\ (ProgramStep \/ \E r \in Runs : RunStep(r)))
-----------------------------------------------------------------------------
Phases == {"none", "compile", "entry", "loop", "op", "after", "flush", "delay", "finally", "ended"}

TypeOK ==
    /\ clicks \in 0..MaxRuns /\ signalled \subseteq 0..MaxRuns /\ runEnabled \in BOOLEAN
    /\ turn \in 0..MaxRuns /\ pc \in [Runs -> Phases] /\ root \in [Runs -> Handles \cup {0}]
    /\ held \in [Runs -> [h : Handles \cup {0}, n : Ops \cup {0}]] /\ sig \in [Runs -> 0..MaxRuns]
    /\ bound \in 0..MaxRuns /\ nextH \in Handles \cup {MaxOps + MaxCalls + 2}
    /\ DOMAIN table \subseteq 1..(nextH - 1)
    /\ \A h \in DOMAIN table :
         table[h] \in [caller : Frames \cup {0}, done : BOOLEAN, op : Ops \cup {0},
                      coro : Frames \cup {0}, result : Keys \cup {0}]
    /\ pending \in Seq([h : Handles, n : Ops])
    /\ keyQueue \in Seq(Keys) /\ codeWaiters \in Seq(Ops) /\ answer \in [Ops -> Keys \cup {0}]
    /\ pos \in [Runs -> [Frames -> {"none", "run", "check", "calling", "driving", "suspended", "done"}]]
    /\ fut \in [Runs -> [Frames -> Handles \cup {0}]]
    /\ lo \in 0..MaxDepth /\ hi \in 0..MaxDepth /\ astray \in BOOLEAN
    /\ issued \in 0..MaxOps /\ kind \in [Ops -> Kinds] /\ owner \in [Ops -> 0..MaxRuns]
    /\ applied \subseteq Ops /\ calls \in 0..MaxCalls
    /\ typed \in 0..MaxKeys /\ base \in 0..typed /\ got \in Seq(Keys)

\* "In source code this behaves like a normal call" (docs/arch/coroutine.md):
\* while a program runs, every operation it called before has taken effect.
AwaitedIsApplied ==
    Running("run") => \A n \in 1..issued : owner[n] = bound => n \in applied

\* A frame is resumed only where it is suspended: by the operation it awaits,
\* by the caller that polls it or by the loop, whichever comes first, and
\* never after it was destroyed.
ResumesSuspended == ~astray

\* Keys the program was answered, or will be, and has not read yet.
InFlight ==
    {k \in ({answer[n] : n \in Ops} \cup {table[h].result : h \in DOMAIN table}) \ {0} :
        k > base /\ \A i \in DOMAIN got : got[i] # k}

\* Every key pressed since the keyboard was reset is read once, in the order
\* typed, or is still to come: waiters and queue never swallow, double or
\* swap one, whether it comes before the call, between the call and the
\* loop's turn, or while the loop waits.
KeysInOrder ==
    \E flight \in {<<>>} \cup {<<k>> : k \in InFlight} :
        /\ InFlight \subseteq {flight[i] : i \in DOMAIN flight}
        /\ got \o flight \o keyQueue = [k \in 1..(typed - base) |-> base + k]

\* After Stop no operation of the program takes effect, until Run is clicked.
StopIsFinal == [][StopRequested => applied' = applied]_vars

\* Stop ends the run, whatever its loop waits for: a key, a timer, a paint.
\* Without Stop too it ends or comes to wait for a key: a coroutine that has
\* finished is noticed by its caller, though nothing resumes that caller.
EveryRunEnds ==
    \A r \in Runs :
        /\ StopRequested /\ pc[r] \notin {"none", "compile"} ~> pc[r] = "ended"
        /\ pc[r] = "loop" ~> pc[r] = "ended" \/ (pc[r] = "op" /\ kind[held[r].n] = "key")
=============================================================================
