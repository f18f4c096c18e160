------------------------- MODULE AsyncRuntimeProofs -------------------------
(***************************************************************************)
(* Proofs about AsyncRuntime that InterpreterRun and JitRun share, for any *)
(* executors in any order, any numbers of operations, runs and nested      *)
(* coroutine calls, up to the moment when a sheet is rejected, which ends  *)
(* the last run; that step is proved here too (RejectionAbandons).         *)
(*                                                                         *)
(* A program awaits every operation at once, so at most one operation is   *)
(* awaited, by the deepest frame, and its promise is in exactly one place. *)
(* The invariant says which.                                               *)
(***************************************************************************)
EXTENDS AsyncRuntime, TLAPS

\* The operation the program waits for, and whether it still has to.
WaitsFor == IF depth = 0 THEN 0 ELSE fut[depth]
Pending  == WaitsFor # 0 /\ WaitsFor \notin fired

\* Frames form a chain 1..depth.  Those from lo to hi are on the native stack,
\* hi runs, the others wait for the frame above; the last one may be done.
FrameInv ==
    /\ lo = 0 <=> hi = 0
    /\ lo <= hi
    /\ hi <= depth
    /\ \A f \in Frames :
         /\ pos[f] = "none" <=> f > depth
         /\ f < depth => pos[f] \in {"suspended", "check", "calling", "driving"}
         /\ pos[f] \in {"calling", "driving"} <=> lo <= f /\ f < hi
         /\ pos[f] \in {"run", "check"} => f = hi
         /\ fut[f] # 0 => f = depth /\ pos[f] \in {"check", "suspended"} /\ fut[f] <= issued
         /\ f = depth /\ pos[f] \in {"check", "suspended"} => fut[f] # 0

\* A promise with a Caller is the awaited one, its Caller the deepest frame.
PromiseInv ==
    /\ orphans = {} /\ lost = {}
    /\ fired \subseteq applied
    /\ applied \subseteq 1..issued
    /\ \A n \in Ops : callerOf[n] # 0 =>
         callerOf[n] = depth /\ fut[depth] = n /\ n \notin fired
    /\ depth # 0 /\ pos[depth] = "suspended" => callerOf[fut[depth]] = depth

Increasing(s) == \A j, k \in DOMAIN s : j < k => s[j] < s[k]

\* What process_events of executor e has moved out and not run yet.
InHand(e) == IF at \in DOMAIN Order /\ Order[at] = e THEN Remaining(todoCalls) ELSE {}

\* The vectors hold the outstanding operations, each once, oldest first.
QueueInv ==
    /\ Increasing(todoCalls)
    /\ \A e \in Executors :
         /\ Increasing(calls[e])
         /\ Outstanding(e) = Remaining(calls[e]) \cup InHand(e)
         /\ \A m \in InHand(e) : \A n \in Remaining(calls[e]) : m < n

\* The awaited operation's promise, and nothing else, is in one of the vectors
\* of futures; only drawing executors have outstanding operations besides.
AwaitInv ==
    /\ \A e \in Executors \ Drawing : \A n \in Outstanding(e) : Pending /\ n = WaitsFor
    /\ \A e \in Executors : futures[e] # <<>> =>
         /\ Pending /\ futures[e] = <<WaitsFor>> /\ execOf[WaitsFor] = e
         /\ todoFutures = <<>>
         /\ e \in Paired => calls[e] = <<WaitsFor>>
    /\ todoFutures # <<>> =>
         /\ Pending /\ todoFutures = <<WaitsFor>> /\ execOf[WaitsFor] = Order[at]
         /\ hi = 0
         /\ loop = IF Order[at] \in Paired THEN "calls" ELSE "futures"
         /\ WaitsFor \notin Remaining(calls[Order[at]])
    /\ Pending => todoFutures # <<>> \/ futures[execOf[WaitsFor]] # <<>>

InPass == loop \in {"visit", "calls", "futures"}

\* Where the loop is, and when a frame can run.
LoopInv ==
    /\ loop = "out" <=> depth = 0
    /\ loop = "plain" => depth = 1 /\ fut[1] = 0
    /\ hi > 0 => /\ loop \notin {"out", "visit", "aborted", "undefined"}
                 /\ loop = "calls" => Order[at] \in Paired
    /\ loop \in {"calls", "futures"} => at \in DOMAIN Order
    /\ loop = "futures" => Order[at] \notin Paired
    /\ loop = "calls" /\ Order[at] \in Paired => todoCalls = <<>> \/ todoCalls = todoFutures
    /\ loop = "calls" /\ Order[at] \notin Paired => calls[Order[at]] = <<>>
    /\ todoCalls # <<>> => loop = "calls" /\ hi = 0
    /\ InPass /\ flushing => pos[1] = "done" /\ hi = 0
    /\ loop # "undefined"

RuntimeInv ==
    TypeOK /\ FrameInv /\ PromiseInv /\ QueueInv /\ AwaitInv /\ LoopInv
-----------------------------------------------------------------------------
(* Sequences of operations. *)

LEMMA EmptySequence ==
    /\ Remaining(<<>>) = {}
    /\ Increasing(<<>>)
    /\ <<>> \in Seq(Ops)
BY DEF Remaining, Increasing

\* A sequence of one operation.
LEMMA OneElement ==
    ASSUME NEW n \in Ops
    PROVE  /\ Remaining(<<n>>) = {n} /\ Increasing(<<n>>)
           /\ <<n>> \in Seq(Ops) /\ <<n>> # <<>>
           /\ Len(<<n>>) = 1 /\ Head(<<n>>) = n /\ Tail(<<n>>) = <<>>
BY DEF Remaining, Increasing

\* A new element goes to the end.
LEMMA AppendSequence ==
    ASSUME NEW s \in Seq(Ops), NEW n \in Ops
    PROVE  /\ Append(s, n) \in Seq(Ops)
           /\ Remaining(Append(s, n)) = Remaining(s) \cup {n}
           /\ Increasing(s) /\ (\A m \in Remaining(s) : m < n) => Increasing(Append(s, n))
<1>1. /\ Append(s, n) \in Seq(Ops)
      /\ Len(Append(s, n)) = Len(s) + 1
      /\ \A k \in 1..Len(s) : Append(s, n)[k] = s[k]
      /\ Append(s, n)[Len(s) + 1] = n
  OBVIOUS
<1>2. DOMAIN s = 1..Len(s) /\ DOMAIN Append(s, n) = 1..(Len(s) + 1) /\ Len(s) \in Nat
  BY <1>1
<1>3. Remaining(Append(s, n)) = Remaining(s) \cup {n}
  BY <1>1, <1>2 DEF Remaining
<1>4. Increasing(s) /\ (\A m \in Remaining(s) : m < n) => Increasing(Append(s, n))
  BY <1>1, <1>2 DEF Increasing, Remaining
<1>5. QED
  BY <1>1, <1>3, <1>4

\* The first element is taken off.
LEMMA TailSequence ==
    ASSUME NEW s \in Seq(Ops), s # <<>>
    PROVE  /\ Head(s) \in Ops /\ Tail(s) \in Seq(Ops)
           /\ Len(s) = Len(Tail(s)) + 1
           /\ Head(s) \in Remaining(s)
           /\ Remaining(s) = {Head(s)} \cup Remaining(Tail(s))
           /\ Increasing(s) => /\ Increasing(Tail(s))
                               /\ \A m \in Remaining(Tail(s)) : Head(s) < m
<1>1. /\ Len(s) \in Nat \ {0} /\ DOMAIN s = 1..Len(s)
      /\ Head(s) = s[1] /\ Head(s) \in Ops
      /\ Tail(s) \in Seq(Ops) /\ Len(Tail(s)) = Len(s) - 1
      /\ \A k \in 1..(Len(s) - 1) : Tail(s)[k] = s[k + 1]
  OBVIOUS
<1>2. DOMAIN Tail(s) = 1..(Len(s) - 1)
  BY <1>1
<1>3. Remaining(s) \subseteq {Head(s)} \cup Remaining(Tail(s))
  <2>1. SUFFICES ASSUME NEW k \in 1..Len(s), k # 1
                 PROVE  s[k] \in Remaining(Tail(s))
    BY <1>1 DEF Remaining
  <2>2. k - 1 \in 1..(Len(s) - 1) /\ Tail(s)[k - 1] = s[k]
    BY <1>1, <2>1
  <2>3. QED
    BY <1>2, <2>2 DEF Remaining
<1>4. {Head(s)} \cup Remaining(Tail(s)) \subseteq Remaining(s)
  BY <1>1, <1>2 DEF Remaining
<1>5. Increasing(s) => Increasing(Tail(s)) /\ \A m \in Remaining(Tail(s)) : Head(s) < m
  BY <1>1, <1>2 DEF Increasing, Remaining
<1>6. QED
  BY <1>1, <1>3, <1>4, <1>5
-----------------------------------------------------------------------------
(* What the invariant says of the running frame and of the awaited operation. *)

LEMMA Constants ==
    /\ Order \in Seq(Executors) /\ Order # <<>>
    /\ Len(Order) \in Nat \ {0} /\ DOMAIN Order = 1..Len(Order)
    /\ \A k \in DOMAIN Order : Order[k] \in Executors
    /\ Drawing \cap Paired = {} /\ Drawing \subseteq Executors
    /\ MaxOps \in Nat /\ MaxDepth \in Nat \ {0} /\ MaxRuns \in Nat
    /\ 0 \notin Ops /\ 1 \in Frames
BY RuntimeAssumption DEF Executors, Ops, Frames

\* An operation that is waited for is one.
LEMMA PendingOperation ==
    ASSUME RuntimeInv, Pending
    PROVE  depth \in Frames /\ WaitsFor = fut[depth] /\ WaitsFor \in Ops /\ execOf[WaitsFor] \in Executors
<1>1. depth \in Frames /\ WaitsFor = fut[depth] /\ WaitsFor # 0
  BY Constants DEF Pending, WaitsFor, RuntimeInv, TypeOK, Frames
<1>2. fut[depth] \in 0..MaxOps
  BY <1>1 DEF RuntimeInv, TypeOK
<1>3. WaitsFor \in Ops
  BY <1>1, <1>2, Constants DEF Ops
<1>4. QED
  BY <1>1, <1>3 DEF RuntimeInv, TypeOK

\* The frame that runs program code awaits nothing.
LEMMA RunningFrame ==
    ASSUME RuntimeInv, Running("run")
    PROVE  /\ hi \in Frames /\ hi = depth /\ fut[hi] = 0
           /\ WaitsFor = 0 /\ ~Pending /\ todoFutures = <<>> /\ todoCalls = <<>>
           /\ \A e \in Executors : futures[e] = <<>>
           /\ \A e \in Executors \ Drawing : Outstanding(e) = {} /\ calls[e] = <<>>
<1> USE DEF RuntimeInv
<1>1. hi \in Frames /\ hi <= depth /\ pos[hi] = "run"
  BY Constants DEF TypeOK, FrameInv, Running, Frames
<1>2. hi = depth /\ fut[hi] = 0
  <2>1. hi \in Nat /\ depth \in Nat
    BY Constants DEF TypeOK
  <2>2. hi < depth => pos[hi] \in {"suspended", "check", "calling", "driving"}
    BY <1>1 DEF FrameInv
  <2>3. fut[hi] # 0 => pos[hi] \in {"check", "suspended"}
    BY <1>1 DEF FrameInv
  <2>4. QED
    BY <1>1, <2>1, <2>2, <2>3
<1>3. WaitsFor = 0 /\ ~Pending
  BY <1>1, <1>2 DEF WaitsFor, Pending, Running
<1>4. todoFutures = <<>> /\ \A e \in Executors : futures[e] = <<>>
  BY <1>3 DEF AwaitInv
<1>5. todoCalls = <<>>
  BY <1>1 DEF LoopInv, Running
<1>6. \A e \in Executors \ Drawing : Outstanding(e) = {}
  BY <1>3 DEF AwaitInv
<1>7. \A e \in Executors \ Drawing : calls[e] = <<>>
  <2>1. TAKE e \in Executors \ Drawing
  <2>2. Remaining(calls[e]) = {} /\ calls[e] \in Seq(Ops)
    BY <1>6 DEF QueueInv, TypeOK
  <2>3. QED
    BY <2>2, TailSequence
<1>8. QED
  BY <1>1, <1>2, <1>3, <1>4, <1>5, <1>6, <1>7

\* A promise that waits to be visited is the awaited one, its callback has run,
\* and the deepest frame is suspended on it.
LEMMA VisitedPromise ==
    ASSUME RuntimeInv, hi = 0, TurnOfFuture
    PROVE  /\ todoFutures = <<WaitsFor>> /\ Head(todoFutures) = WaitsFor
           /\ Tail(todoFutures) = <<>> /\ todoCalls = <<>>
           /\ Pending /\ WaitsFor \in Ops /\ WaitsFor \in applied
           /\ depth \in Frames /\ fut[depth] = WaitsFor /\ pos[depth] = "suspended"
           /\ callerOf[WaitsFor] = depth /\ at \in DOMAIN Order
<1> USE DEF RuntimeInv
<1>1. /\ todoFutures = <<WaitsFor>> /\ Pending /\ execOf[WaitsFor] = Order[at]
      /\ WaitsFor \notin Remaining(calls[Order[at]])
      /\ loop \in {"calls", "futures"} /\ at \in DOMAIN Order
  BY DEF TurnOfFuture, AwaitInv, LoopInv
<1>2. depth \in Frames /\ fut[depth] = WaitsFor /\ WaitsFor \in 1..issued /\ WaitsFor \in Ops
  BY <1>1, Constants DEF Pending, WaitsFor, TypeOK, FrameInv, Frames, Ops
<1>3. pos[depth] = "suspended"
  <2>1. pos[depth] \in {"check", "suspended"}
    BY <1>1, <1>2 DEF Pending, FrameInv
  <2>2. pos[depth] = "check" => depth = hi
    BY <1>2 DEF FrameInv
  <2>3. QED
    BY <1>2, <2>1, <2>2 DEF Frames
<1>4. callerOf[WaitsFor] = depth
  BY <1>2, <1>3, Constants DEF PromiseInv, Frames
<1>5. Head(todoFutures) = WaitsFor /\ Tail(todoFutures) = <<>> /\ Len(todoFutures) = 1
  BY <1>1, <1>2, OneElement
<1>6. todoCalls = <<>>
  <2>1. CASE loop = "calls"
    <3>1. todoCalls = <<>> \/ todoCalls = todoFutures
      BY <2>1, <1>1 DEF TurnOfFuture, LoopInv
    <3>2. todoCalls # todoFutures
      BY <2>1, <1>5 DEF TurnOfFuture
    <3>3. QED
      BY <3>1, <3>2
  <2>2. CASE loop = "futures"
    BY <2>2 DEF LoopInv
  <2>3. QED
    BY <1>1, <2>1, <2>2
<1>7. WaitsFor \in applied
  <2>1. Order[at] \in Executors
    BY <1>1, Constants
  <2>2. InHand(Order[at]) = {}
    BY <1>6, EmptySequence DEF InHand
  <2>3. WaitsFor \notin Outstanding(Order[at])
    BY <1>1, <2>1, <2>2 DEF QueueInv
  <2>4. QED
    BY <1>1, <1>2, <2>3 DEF Outstanding, PromiseInv
<1>8. QED
  BY <1>1, <1>2, <1>3, <1>4, <1>5, <1>6, <1>7
-----------------------------------------------------------------------------
(* The running frame calls operations. *)

\* A new operation is outstanding and goes behind the ones of its executor.
LEMMA IssueKeepsOrder ==
    ASSUME RuntimeInv, NEW e \in Executors, Issue(e), todoCalls = <<>>,
           UNCHANGED <<applied, lost, at, todoCalls>>
    PROVE  /\ QueueInv'
           /\ issued + 1 \in Ops /\ issued' = issued + 1 /\ execOf'[issued + 1] = e
           /\ issued \in Nat
           /\ \A n \in 1..issued : execOf'[n] = execOf[n]
           /\ \A x \in Executors \ {e} : calls'[x] = calls[x] /\ Outstanding(x)' = Outstanding(x)
           /\ Outstanding(e)' = Outstanding(e) \cup {issued + 1}
           /\ calls'[e] = Append(calls[e], issued + 1)
           /\ issued' \in 0..MaxOps /\ execOf' \in [Ops -> Executors]
           /\ calls' \in [Executors -> Seq(Ops)]
<1> USE DEF RuntimeInv
<1>1. /\ issued \in 0..MaxOps /\ issued < MaxOps /\ issued' = issued + 1 /\ issued + 1 \in Ops
      /\ execOf \in [Ops -> Executors] /\ calls \in [Executors -> Seq(Ops)]
      /\ \A n \in 1..issued : n \in Ops /\ n # issued + 1
  <2>1. /\ issued \in 0..MaxOps /\ issued < MaxOps /\ issued' = issued + 1
        /\ execOf \in [Ops -> Executors] /\ calls \in [Executors -> Seq(Ops)]
    BY DEF TypeOK, Issue
  <2>2. issued + 1 \in Ops /\ \A n \in 1..issued : n \in Ops /\ n # issued + 1
    BY <2>1, Constants DEF Ops
  <2>3. QED
    BY <2>1, <2>2
<1>2. /\ execOf' \in [Ops -> Executors] /\ execOf'[issued + 1] = e
      /\ \A n \in 1..issued : execOf'[n] = execOf[n]
  BY <1>1 DEF Issue
<1>3. /\ calls'[e] = Append(calls[e], issued + 1)
      /\ \A x \in Executors \ {e} : calls'[x] = calls[x]
      /\ calls' \in [Executors -> Seq(Ops)]
  BY <1>1, AppendSequence DEF Issue
<1>4. applied \cup lost \subseteq 1..issued
  BY DEF PromiseInv
<1>5. \A x \in Executors \ {e} : Outstanding(x)' = Outstanding(x)
  BY <1>1, <1>2 DEF Outstanding
<1>6. Outstanding(e)' = Outstanding(e) \cup {issued + 1}
  <2>1. 1..(issued + 1) = (1..issued) \cup {issued + 1}
    BY <1>1
  <2>2. QED
    BY <1>1, <1>2, <1>4, <2>1 DEF Outstanding
<1>7. Remaining(calls[e]) \subseteq 1..issued
  BY DEF QueueInv, Outstanding
<1>8. \A x \in Executors : InHand(x) = {} /\ InHand(x)' = {}
  BY EmptySequence DEF InHand
<1>9. /\ Remaining(calls'[e]) = Remaining(calls[e]) \cup {issued + 1}
      /\ Increasing(calls'[e])
  <2>1. \A m \in Remaining(calls[e]) : m < issued + 1
    BY <1>1, <1>7
  <2>2. Increasing(calls[e])
    BY DEF QueueInv
  <2>3. QED
    BY <1>1, <1>3, <2>1, <2>2, AppendSequence
<1>10. QueueInv'
  <2>1. Increasing(todoCalls')
    BY EmptySequence
  <2>2. \A x \in Executors : Increasing(calls'[x]) /\ Outstanding(x)' = Remaining(calls'[x]) \cup InHand(x)'
    BY <1>3, <1>5, <1>6, <1>8, <1>9 DEF QueueInv
  <2>3. QED
    BY <2>1, <2>2, <1>8 DEF QueueInv
<1>11. issued \in Nat /\ issued' \in 0..MaxOps
  BY <1>1, Constants
<1>12. QED
  BY <1>1, <1>2, <1>3, <1>5, <1>6, <1>10, <1>11

\* An awaited call: its operation is the only outstanding one that is not drawing.
LEMMA CallKeeps ==
    ASSUME RuntimeInv, NEW e \in Executors, Call(e), loop # "plain"
    PROVE  RuntimeInv'
<1> USE DEF RuntimeInv
<1>1. /\ hi \in Frames /\ hi = depth /\ fut[hi] = 0 /\ ~Pending /\ todoFutures = <<>> /\ todoCalls = <<>>
      /\ \A x \in Executors : futures[x] = <<>>
      /\ \A x \in Executors \ Drawing : Outstanding(x) = {} /\ calls[x] = <<>>
  BY RunningFrame DEF Call
<1>2. Running("run") /\ Issue(e) /\ UNCHANGED <<applied, lost, at, todoCalls>>
  BY DEF Call, loopVars
<1>3. /\ QueueInv'
      /\ issued + 1 \in Ops /\ issued' = issued + 1 /\ execOf'[issued + 1] = e /\ issued \in Nat
      /\ \A x \in Executors \ {e} : calls'[x] = calls[x] /\ Outstanding(x)' = Outstanding(x)
      /\ Outstanding(e)' = Outstanding(e) \cup {issued + 1}
      /\ calls'[e] = Append(calls[e], issued + 1)
      /\ issued' \in 0..MaxOps /\ execOf' \in [Ops -> Executors] /\ calls' \in [Executors -> Seq(Ops)]
  BY <1>1, <1>2, IssueKeepsOrder
<1>4. /\ fut' = [fut EXCEPT ![hi] = issued + 1] /\ pos' = [pos EXCEPT ![hi] = "check"]
      /\ futures' = [futures EXCEPT ![e] = Append(@, issued + 1)]
      /\ UNCHANGED <<applied, lost, promVars, depth, lo, hi, loopVars>>
  BY DEF Call, Goes
<1>5. /\ futures'[e] = <<issued + 1>> /\ \A x \in Executors \ {e} : futures'[x] = <<>>
      /\ futures' \in [Executors -> Seq(Ops)]
  <2>1. futures \in [Executors -> Seq(Ops)] /\ futures[e] = <<>> /\ <<issued + 1>> \in Seq(Ops)
    BY <1>1, <1>3, OneElement DEF TypeOK
  <2>2. Append(<<>>, issued + 1) = <<issued + 1>>
    OBVIOUS
  <2>3. futures' = [futures EXCEPT ![e] = <<issued + 1>>]
    BY <1>4, <2>1, <2>2
  <2>4. QED
    BY <1>1, <2>1, <2>3
<1>6. TypeOK'
  BY <1>1, <1>3, <1>4, <1>5, Constants DEF TypeOK, FramePos, promVars, loopVars, Ops
<1>7. FrameInv'
  <2>1. UNCHANGED <<lo, hi, depth>> /\ issued' = issued + 1 /\ issued \in Nat
    BY <1>3, <1>4
  <2>2. /\ pos'[hi] = "check" /\ fut'[hi] = issued + 1 /\ issued + 1 # 0
        /\ \A f \in Frames \ {hi} : pos'[f] = pos[f] /\ fut'[f] = fut[f]
    BY <1>1, <1>3, <1>4 DEF TypeOK
  <2>3. pos[hi] = "run" /\ hi \in Nat /\ depth \in Nat
    BY <1>1, <1>2, Constants DEF Running, Frames
  <2>4. \A f \in Frames \ {hi} : f # depth /\ fut[f] = 0
    BY <1>1 DEF FrameInv
  <2>5. QED
    BY <1>1, <2>1, <2>2, <2>3, <2>4 DEF FrameInv
<1>8. issued + 1 \notin fired /\ (depth # 0) /\ (depth \in Frames)
  BY <1>1, <1>3, Constants DEF PromiseInv, Frames
<1>9. PromiseInv'
  <2>1. \A n \in Ops : callerOf[n] = 0
    BY <1>1, Constants DEF PromiseInv, Frames
  <2>2. pos'[depth] = "check"
    BY <1>1, <1>4 DEF TypeOK
  <2>3. QED
    BY <1>3, <1>4, <2>1, <2>2 DEF PromiseInv, promVars
<1>10. Pending' /\ WaitsFor' = issued + 1
  BY <1>1, <1>3, <1>4, <1>8 DEF Pending, WaitsFor, TypeOK, promVars, Ops
<1>11. AwaitInv'
  <2>1. \A x \in Executors \ Drawing : \A n \in Outstanding(x)' : Pending' /\ n = WaitsFor'
    <3>1. ASSUME NEW x \in Executors \ Drawing
          PROVE  Outstanding(x)' \subseteq {issued + 1}
      <4>1. Outstanding(x) = {}
        BY <1>1
      <4>2. CASE x = e
        BY <1>3, <4>1, <4>2
      <4>3. CASE x # e
        BY <1>3, <4>1, <4>3
      <4>4. QED
        BY <4>2, <4>3
    <3>2. QED
      BY <1>10, <3>1
  <2>2. e \in Paired => calls'[e] = <<issued + 1>>
    <3>1. Append(<<>>, issued + 1) = <<issued + 1>>
      OBVIOUS
    <3>2. e \in Paired => calls[e] = <<>>
      BY <1>1, Constants
    <3>3. QED
      BY <1>3, <3>1, <3>2
  <2>3. \A x \in Executors : futures'[x] # <<>> =>
           /\ Pending' /\ futures'[x] = <<WaitsFor'>> /\ execOf'[WaitsFor'] = x
           /\ todoFutures' = <<>>
           /\ x \in Paired => calls'[x] = <<WaitsFor'>>
    BY <1>1, <1>3, <1>4, <1>5, <1>10, <2>2 DEF loopVars
  <2>4. todoFutures' = <<>> /\ futures'[execOf'[WaitsFor']] # <<>>
    BY <1>1, <1>3, <1>4, <1>5, <1>10 DEF loopVars
  <2>5. QED
    BY <2>1, <2>3, <2>4 DEF AwaitInv
<1>12. LoopInv'
  <2>1. loop = "calls" => Order[at] \in Paired
    BY <1>2 DEF LoopInv, Running
  <2>2. InPass /\ flushing => FALSE
    BY <1>2 DEF LoopInv, Running
  <2>3. QED
    BY <1>1, <1>2, <1>4, <2>1, <2>2, EmptySequence DEF LoopInv, InPass, Running, loopVars
<1>13. QED
  BY <1>3, <1>6, <1>7, <1>9, <1>11, <1>12

\* A drawing operation joins its vector of calls and nothing waits for it.
LEMMA DrawKeeps ==
    ASSUME RuntimeInv, NEW e \in Drawing, Draw(e)
    PROVE  RuntimeInv'
<1> USE DEF RuntimeInv
<1>1. /\ ~Pending /\ WaitsFor = 0 /\ todoFutures = <<>> /\ todoCalls = <<>> /\ hi # 0
      /\ \A x \in Executors : futures[x] = <<>>
      /\ \A x \in Executors \ Drawing : Outstanding(x) = {}
      /\ e \in Executors
  BY RunningFrame, Constants DEF Draw, Frames, Running
<1>2. Issue(e) /\ UNCHANGED <<applied, lost, futures, promVars, frameVars, loopVars>>
  BY DEF Draw
<1>3. UNCHANGED <<applied, lost, at, todoCalls>>
  BY <1>2 DEF loopVars
<1>4. /\ QueueInv'
      /\ issued' = issued + 1 /\ issued \in Nat
      /\ \A x \in Executors \ {e} : calls'[x] = calls[x] /\ Outstanding(x)' = Outstanding(x)
      /\ issued' \in 0..MaxOps /\ execOf' \in [Ops -> Executors] /\ calls' \in [Executors -> Seq(Ops)]
  BY <1>1, <1>2, <1>3, IssueKeepsOrder
<1>5. TypeOK'
  BY <1>2, <1>4 DEF TypeOK, promVars, frameVars, loopVars
<1>6. FrameInv'
  BY <1>2, <1>4, Constants DEF FrameInv, frameVars, TypeOK, Ops
<1>7. PromiseInv'
  BY <1>2, <1>4 DEF PromiseInv, promVars, frameVars
<1>8. ~Pending' /\ WaitsFor' = 0
  BY <1>1, <1>2 DEF Pending, WaitsFor, promVars, frameVars
<1>9. AwaitInv'
  BY <1>1, <1>2, <1>4, <1>8 DEF AwaitInv, loopVars
<1>10. LoopInv'
  <2>1. loop = "calls" => Order[at] \in Paired
    BY <1>1, Constants DEF LoopInv, TypeOK, Draw, Running
  <2>2. QED
    BY <1>1, <1>2, <2>1 DEF LoopInv, InPass, frameVars, loopVars
<1>11. QED
  BY <1>4, <1>5, <1>6, <1>7, <1>9, <1>10
-----------------------------------------------------------------------------
(* The running frame goes on, suspends, or drives another one. *)

\* Such a step only has to keep the chain of frames and what is awaited.
LEMMA FrameStepKeeps ==
    ASSUME RuntimeInv, hi # 0, depth' # 0,
           UNCHANGED <<opVars, queueVars, fired, loopVars>>,
           Pending' <=> Pending, Pending => WaitsFor' = WaitsFor,
           loop = "plain" => depth' = 1 /\ fut'[1] = 0,
           TypeOK', FrameInv', PromiseInv'
    PROVE  RuntimeInv'
<1> USE DEF RuntimeInv
<1>1. todoCalls = <<>> /\ todoFutures = <<>> /\ ~(InPass /\ flushing)
      /\ loop \notin {"out", "visit", "aborted", "undefined"}
      /\ (loop = "calls" => Order[at] \in Paired)
  <2>1. hi > 0
    BY Constants DEF TypeOK
  <2>2. todoCalls = <<>> /\ todoFutures = <<>>
    BY <2>1 DEF LoopInv, AwaitInv
  <2>3. QED
    BY <2>1, <2>2 DEF LoopInv
<1>2. QueueInv'
  BY DEF QueueInv, InHand, Outstanding, opVars, queueVars, loopVars
<1>3. AwaitInv'
  BY <1>1 DEF AwaitInv, Outstanding, opVars, queueVars, loopVars
<1>4. LoopInv'
  BY <1>1 DEF LoopInv, InPass, queueVars, loopVars
<1>5. QED
  BY <1>2, <1>3, <1>4

\* The types of the chain.
LEMMA FrameTypes ==
    ASSUME RuntimeInv
    PROVE  /\ MaxDepth \in Nat /\ depth \in 0..MaxDepth /\ lo \in 0..MaxDepth /\ hi \in 0..MaxDepth
           /\ pos \in [Frames -> FramePos] /\ fut \in [Frames -> 0..MaxOps]
           /\ Frames = 1..MaxDepth /\ 0 \notin Ops /\ Ops = 1..MaxOps
           /\ hi # 0 => hi \in Frames /\ lo \in Frames /\ depth \in Frames /\ lo <= hi
                         /\ pos[hi] \in {"run", "check", "suspended", "done"}
<1>1. /\ MaxDepth \in Nat /\ depth \in 0..MaxDepth /\ lo \in 0..MaxDepth /\ hi \in 0..MaxDepth
      /\ pos \in [Frames -> FramePos] /\ fut \in [Frames -> 0..MaxOps]
      /\ Frames = 1..MaxDepth /\ 0 \notin Ops /\ Ops = 1..MaxOps
  BY Constants DEF RuntimeInv, TypeOK, Frames, Ops
<1>2. hi # 0 => hi \in Frames /\ lo \in Frames /\ depth \in Frames /\ lo <= hi /\ hi <= depth
  BY <1>1 DEF RuntimeInv, FrameInv
<1>3. hi # 0 => pos[hi] \in {"run", "check", "suspended", "done"}
  <2>1. hi # 0 => pos[hi] \notin {"none", "calling", "driving"}
    BY <1>1, <1>2 DEF RuntimeInv, FrameInv
  <2>2. QED
    BY <1>1, <1>2, <2>1 DEF FramePos
<1>4. QED
  BY <1>1, <1>2, <1>3

\* A new frame goes on top of the running one.
LEMMA CallChildKeeps ==
    ASSUME RuntimeInv, CallChild, loop # "plain"
    PROVE  RuntimeInv'
<1> USE DEF RuntimeInv
<1>1. /\ hi \in Frames /\ hi = depth /\ fut[hi] = 0 /\ WaitsFor = 0 /\ hi # 0
  BY RunningFrame, FrameTypes DEF CallChild
<1>2. /\ hi + 1 \in Frames /\ depth' = hi + 1 /\ hi' = hi + 1 /\ lo' = lo
      /\ pos' = [pos EXCEPT ![hi] = "calling", ![hi + 1] = "run"]
      /\ UNCHANGED <<opVars, queueVars, promVars, fut, loopVars>>
  BY <1>1, FrameTypes DEF CallChild
<1>3. /\ pos'[hi] = "calling" /\ pos'[hi + 1] = "run" /\ fut[hi + 1] = 0
      /\ \A f \in Frames \ {hi, hi + 1} : pos'[f] = pos[f]
      /\ pos' \in [Frames -> FramePos]
  BY <1>1, <1>2, FrameTypes DEF FrameInv, FramePos
<1>4. TypeOK'
  <2>1. depth' \in 0..MaxDepth /\ hi' \in 0..MaxDepth /\ lo' \in 0..MaxDepth
    BY <1>1, <1>2, FrameTypes
  <2>2. QED
    BY <1>2, <1>3, <2>1 DEF TypeOK, opVars, queueVars, promVars, loopVars
<1>5. FrameInv'
  <2>1. lo' # 0 /\ hi' # 0 /\ lo' <= hi' /\ hi' <= depth'
    BY <1>1, <1>2, FrameTypes
  <2>2. ASSUME NEW f \in Frames
        PROVE  /\ pos'[f] = "none" <=> f > depth'
               /\ f < depth' => pos'[f] \in {"suspended", "check", "calling", "driving"}
               /\ pos'[f] \in {"calling", "driving"} <=> lo' <= f /\ f < hi'
               /\ pos'[f] \in {"run", "check"} => f = hi'
               /\ fut'[f] # 0 => f = depth' /\ pos'[f] \in {"check", "suspended"} /\ fut'[f] <= issued'
               /\ f = depth' /\ pos'[f] \in {"check", "suspended"} => fut'[f] # 0
    <3>1. fut'[f] = 0
      BY <1>1, <1>2 DEF FrameInv
    <3>2. QED
      BY <1>1, <1>2, <1>3, <3>1, FrameTypes DEF FrameInv
  <2>3. QED
    BY <2>1, <2>2 DEF FrameInv
<1>6. \A n \in Ops : callerOf[n] = 0
  BY <1>1, FrameTypes DEF PromiseInv
<1>7. PromiseInv'
  BY <1>1, <1>2, <1>3, <1>6 DEF PromiseInv, promVars, opVars
<1>8. WaitsFor' = 0
  BY <1>1, <1>2, <1>3 DEF WaitsFor
<1>9. QED
  BY <1>1, <1>2, <1>4, <1>5, <1>7, <1>8, FrameTypes, FrameStepKeeps DEF Pending, promVars

\* Neither the caller nor the new frame awaits an operation.
LEMMA CallChildWaits ==
    ASSUME RuntimeInv, CallChild
    PROVE  WaitsFor = 0 /\ WaitsFor' = 0
<1>1. hi \in Frames /\ hi = depth /\ WaitsFor = 0 /\ hi + 1 \in Frames /\ hi + 1 # depth
  BY RunningFrame, FrameTypes DEF CallChild
<1>2. fut[hi + 1] = 0
  BY <1>1 DEF RuntimeInv, FrameInv
<1>3. QED
  BY <1>1, <1>2 DEF CallChild, WaitsFor

\* The running frame reaches its end.
LEMMA FinishKeeps ==
    ASSUME RuntimeInv, Finish
    PROVE  RuntimeInv'
<1> USE DEF RuntimeInv
<1>1. /\ hi \in Frames /\ hi = depth /\ fut[hi] = 0 /\ WaitsFor = 0 /\ hi # 0
  BY RunningFrame, FrameTypes DEF Finish
<1>2. /\ pos'[hi] = "done" /\ \A f \in Frames \ {hi} : pos'[f] = pos[f]
      /\ pos' \in [Frames -> FramePos]
      /\ UNCHANGED <<opVars, queueVars, promVars, depth, fut, lo, hi, loopVars>>
  BY <1>1, FrameTypes DEF Finish, Goes, FramePos
<1>3. TypeOK'
  BY <1>2 DEF TypeOK, opVars, queueVars, promVars, loopVars
<1>4. FrameInv'
  <2>1. pos[hi] = "run"
    BY DEF Finish, Running
  <2>2. UNCHANGED issued
    BY <1>2 DEF opVars
  <2>3. QED
    BY <1>1, <1>2, <2>1, <2>2, FrameTypes DEF FrameInv
<1>5. PromiseInv'
  BY <1>1, <1>2, FrameTypes DEF PromiseInv, promVars, opVars
<1>6. (Pending' <=> Pending) /\ WaitsFor' = WaitsFor
  BY <1>1, <1>2 DEF WaitsFor, Pending, promVars
<1>7. QED
  BY <1>1, <1>2, <1>3, <1>4, <1>5, <1>6, FrameStepKeeps DEF promVars, LoopInv

\* A frame goes on only after the operation it awaited was applied.
LEMMA AwaitReadyKeeps ==
    ASSUME RuntimeInv, AwaitReady
    PROVE  RuntimeInv' /\ hi = depth /\ WaitsFor # 0 /\ WaitsFor \in applied /\ WaitsFor' = 0
<1> USE DEF RuntimeInv
<1>1. /\ hi \in Frames /\ pos[hi] = "check" /\ fut[hi] # 0 /\ fut[hi] \in fired /\ hi # 0
  BY FrameTypes DEF AwaitReady, Running
<1>2. hi = depth
  BY <1>1 DEF FrameInv
<1>3. /\ pos'[hi] = "run" /\ \A f \in Frames \ {hi} : pos'[f] = pos[f]
      /\ fut'[hi] = 0 /\ \A f \in Frames \ {hi} : fut'[f] = fut[f]
      /\ pos' \in [Frames -> FramePos] /\ fut' \in [Frames -> 0..MaxOps]
      /\ UNCHANGED <<opVars, queueVars, promVars, depth, lo, hi, loopVars>>
  BY <1>1, FrameTypes, Constants DEF AwaitReady, Goes, FramePos
<1>4. TypeOK'
  BY <1>3 DEF TypeOK, opVars, queueVars, promVars, loopVars
<1>5. FrameInv'
  BY <1>1, <1>2, <1>3, FrameTypes DEF FrameInv
<1>6. \A n \in Ops : callerOf[n] = 0
  BY <1>1, <1>2, FrameTypes DEF PromiseInv
<1>7. PromiseInv'
  BY <1>1, <1>2, <1>3, <1>6 DEF PromiseInv, promVars, opVars
<1>8. ~Pending /\ ~Pending' /\ WaitsFor = fut[hi] /\ WaitsFor' = 0
  BY <1>1, <1>2, <1>3 DEF WaitsFor, Pending
<1>9. loop = "plain" => depth' = 1 /\ fut'[1] = 0
  BY <1>1, <1>2, <1>3 DEF LoopInv
<1>10. RuntimeInv'
  BY <1>1, <1>2, <1>3, <1>4, <1>5, <1>7, <1>8, <1>9, FrameStepKeeps DEF promVars
<1>11. QED
  BY <1>1, <1>2, <1>8, <1>10 DEF PromiseInv

\* The promise learns the frame that awaits it.
LEMMA AwaitSuspendKeeps ==
    ASSUME RuntimeInv, AwaitSuspend
    PROVE  RuntimeInv'
<1> USE DEF RuntimeInv
<1>1. /\ hi \in Frames /\ pos[hi] = "check" /\ fut[hi] # 0 /\ fut[hi] \notin fired /\ hi # 0
      /\ fut[hi] \in Ops
  BY FrameTypes, Constants DEF AwaitSuspend, Running
<1>2. hi = depth
  BY <1>1 DEF FrameInv
<1>3. /\ pos'[hi] = "suspended" /\ \A f \in Frames \ {hi} : pos'[f] = pos[f]
      /\ pos' \in [Frames -> FramePos]
      /\ UNCHANGED <<opVars, queueVars, fired, orphans, depth, fut, lo, hi, loopVars>>
  BY <1>1, FrameTypes DEF AwaitSuspend, Goes, FramePos
<1>4. /\ callerOf'[fut[hi]] = hi /\ \A n \in Ops \ {fut[hi]} : callerOf'[n] = callerOf[n]
      /\ callerOf' \in [Ops -> 0..MaxDepth]
  BY <1>1, FrameTypes DEF AwaitSuspend, TypeOK
<1>5. TypeOK'
  BY <1>3, <1>4 DEF TypeOK, opVars, queueVars, loopVars
<1>6. FrameInv'
  <2>1. UNCHANGED issued
    BY <1>3 DEF opVars
  <2>2. QED
    BY <1>1, <1>2, <1>3, <2>1, FrameTypes DEF FrameInv
<1>7. PromiseInv'
  <2>1. \A n \in Ops : callerOf'[n] # 0 => n = fut[hi]
    BY <1>2, <1>4 DEF PromiseInv
  <2>2. QED
    BY <1>1, <1>2, <1>3, <1>4, <2>1 DEF PromiseInv, opVars
<1>8. (Pending' <=> Pending) /\ WaitsFor' = WaitsFor
  BY <1>1, <1>2, <1>3 DEF WaitsFor, Pending
<1>9. loop = "plain" => depth' = 1 /\ fut'[1] = 0
  BY <1>1, <1>2, <1>3 DEF LoopInv
<1>10. QED
  BY <1>1, <1>2, <1>3, <1>5, <1>6, <1>7, <1>8, <1>9, FrameStepKeeps

\* A finished child is destroyed; its parent is the deepest frame again.
LEMMA ChildReadyKeeps ==
    ASSUME RuntimeInv, ChildReady, loop # "plain"
    PROVE  RuntimeInv' /\ WaitsFor = 0 /\ WaitsFor' = 0
<1> USE DEF RuntimeInv
<1>1. /\ hi \in Frames /\ pos[hi] = "check" /\ fut[hi] = 0 /\ pos[hi + 1] = "done" /\ hi # 0
  BY FrameTypes DEF ChildReady, Running
<1>2. hi < depth /\ hi + 1 \in Frames
  BY <1>1, FrameTypes DEF FrameInv
<1>3. hi + 1 = depth /\ fut[hi + 1] = 0
  <2>1. hi + 1 < depth => pos[hi + 1] \in {"suspended", "check", "calling", "driving"}
    BY <1>2 DEF FrameInv
  <2>2. fut[hi + 1] # 0 => pos[hi + 1] \in {"check", "suspended"}
    BY <1>2 DEF FrameInv
  <2>3. QED
    BY <1>1, <1>2, <2>1, <2>2, FrameTypes
<1>4. /\ pos'[hi] = "run" /\ pos'[hi + 1] = "none" /\ depth' = hi
      /\ \A f \in Frames \ {hi, hi + 1} : pos'[f] = pos[f]
      /\ pos' \in [Frames -> FramePos]
      /\ UNCHANGED <<opVars, queueVars, promVars, fut, lo, hi, loopVars>>
  BY <1>1, <1>2, FrameTypes DEF ChildReady, FramePos
<1>5. TypeOK'
  BY <1>1, <1>4, FrameTypes DEF TypeOK, opVars, queueVars, promVars, loopVars
<1>6. \A f \in Frames : fut'[f] = 0
  BY <1>3, <1>4 DEF FrameInv
<1>7. FrameInv'
  BY <1>1, <1>2, <1>3, <1>4, <1>6, FrameTypes DEF FrameInv
<1>8. \A n \in Ops : callerOf[n] = 0
  BY <1>3, FrameTypes DEF PromiseInv
<1>9. PromiseInv'
  BY <1>1, <1>4, <1>8 DEF PromiseInv, promVars, opVars
<1>10. WaitsFor = 0 /\ WaitsFor' = 0
  BY <1>1, <1>2, <1>3, <1>4, <1>6 DEF WaitsFor
<1>11. RuntimeInv'
  BY <1>1, <1>4, <1>5, <1>7, <1>9, <1>10, FrameStepKeeps DEF Pending, promVars
<1>12. QED
  BY <1>10, <1>11

\* A parent resumes its child to check again.
LEMMA ChildDriveKeeps ==
    ASSUME RuntimeInv, ChildDrive, loop # "plain"
    PROVE  RuntimeInv' /\ (hi + 1 \in Frames /\ pos[hi + 1] = "suspended")
<1> USE DEF RuntimeInv
<1>1. /\ hi \in Frames /\ pos[hi] = "check" /\ fut[hi] = 0 /\ pos[hi + 1] # "done" /\ hi # 0
  BY FrameTypes DEF ChildDrive, Running
<1>2. hi < depth /\ hi + 1 \in Frames
  BY <1>1, FrameTypes DEF FrameInv
<1>3. pos[hi + 1] = "suspended"
  <2>1. pos[hi + 1] \notin {"none", "calling", "driving", "run", "check"}
    BY <1>1, <1>2, FrameTypes DEF FrameInv
  <2>2. QED
    BY <1>1, <1>2, <2>1, FrameTypes DEF FramePos
<1>4. /\ pos'[hi] = "driving" /\ pos'[hi + 1] = "check" /\ hi' = hi + 1 /\ lo' = lo
      /\ \A f \in Frames \ {hi, hi + 1} : pos'[f] = pos[f]
      /\ pos' \in [Frames -> FramePos]
      /\ UNCHANGED <<opVars, queueVars, promVars, depth, fut, loopVars>>
  <2>1. /\ pos' = [pos EXCEPT ![hi] = "driving", ![hi + 1] = "check"] /\ hi' = hi + 1 /\ lo' = lo
        /\ UNCHANGED <<opVars, queueVars, promVars, depth, fut, loopVars>>
    BY DEF ChildDrive
  <2>2. pos \in [Frames -> FramePos] /\ hi # hi + 1
    BY <1>1, FrameTypes
  <2>3. pos' \in [Frames -> FramePos]
    BY <2>1, <2>2 DEF FramePos
  <2>4. QED
    BY <1>1, <1>2, <2>1, <2>2, <2>3
<1>5. TypeOK'
  <2>1. hi' \in 0..MaxDepth /\ lo' \in 0..MaxDepth
    BY <1>2, <1>4, FrameTypes
  <2>2. QED
    BY <1>4, <2>1 DEF TypeOK, opVars, queueVars, promVars, loopVars
<1>6. FrameInv'
  <2>1. lo' # 0 /\ hi' # 0 /\ lo' <= hi' /\ hi' <= depth' /\ issued' = issued
    BY <1>1, <1>2, <1>4, FrameTypes DEF opVars, FrameInv
  <2>2. ASSUME NEW f \in Frames
        PROVE  /\ pos'[f] = "none" <=> f > depth'
               /\ f < depth' => pos'[f] \in {"suspended", "check", "calling", "driving"}
               /\ pos'[f] \in {"calling", "driving"} <=> lo' <= f /\ f < hi'
               /\ pos'[f] \in {"run", "check"} => f = hi'
               /\ fut'[f] # 0 => f = depth' /\ pos'[f] \in {"check", "suspended"} /\ fut'[f] <= issued'
               /\ f = depth' /\ pos'[f] \in {"check", "suspended"} => fut'[f] # 0
    <3>1. fut[hi + 1] # 0 => hi + 1 = depth /\ fut[hi + 1] <= issued
      BY <1>2 DEF FrameInv
    <3>2. hi + 1 = depth => fut[hi + 1] # 0
      BY <1>2, <1>3 DEF FrameInv
    <3>3. CASE f = hi
      BY <1>1, <1>2, <1>4, <2>1, <3>3, FrameTypes
    <3>4. CASE f = hi + 1
      BY <1>2, <1>4, <2>1, <3>1, <3>2, <3>4, FrameTypes
    <3>5. CASE f # hi /\ f # hi + 1
      <4>1. pos'[f] = pos[f] /\ fut'[f] = fut[f] /\ (lo <= f /\ f < hi <=> lo' <= f /\ f < hi')
        BY <1>1, <1>2, <1>4, <3>5, FrameTypes
      <4>2. pos[f] \notin {"run", "check"}
        BY <3>5 DEF FrameInv
      <4>3. QED
        BY <1>4, <2>1, <4>1, <4>2 DEF FrameInv
    <3>6. QED
      BY <3>3, <3>4, <3>5
  <2>3. QED
    BY <2>1, <2>2 DEF FrameInv
<1>7. PromiseInv'
  <2>1. depth' # 0 /\ pos'[depth'] = "suspended" => depth # 0 /\ pos[depth] = "suspended"
    BY <1>1, <1>2, <1>4, FrameTypes
  <2>2. QED
    BY <1>4, <2>1 DEF PromiseInv, promVars, opVars
<1>8. (Pending' <=> Pending) /\ WaitsFor' = WaitsFor
  BY <1>4 DEF WaitsFor, Pending, promVars
<1>9. depth' # 0
  BY <1>1, <1>2, <1>4, FrameTypes
<1>10. RuntimeInv'
  BY <1>1, <1>4, <1>5, <1>6, <1>7, <1>8, <1>9, FrameStepKeeps DEF promVars
<1>11. QED
  BY <1>2, <1>3, <1>10

\* Control goes down the native stack.
LEMMA YieldKeeps ==
    ASSUME RuntimeInv, Yield
    PROVE  RuntimeInv'
<1> USE DEF RuntimeInv
<1>1. /\ hi \in Frames /\ lo \in Frames /\ depth \in Frames /\ lo <= hi /\ hi <= depth /\ hi # 0
      /\ pos[hi] \in {"suspended", "done"}
      /\ UNCHANGED <<opVars, queueVars, promVars, depth, fut, loopVars>>
  BY FrameTypes DEF Yield, FrameInv
<1>2. issued' = issued /\ UNCHANGED <<fired, callerOf, orphans, applied, lost>>
  BY <1>1 DEF opVars, promVars
<1>3. ASSUME TypeOK', FrameInv', PromiseInv'
      PROVE  RuntimeInv'
  <2>1. (Pending' <=> Pending) /\ WaitsFor' = WaitsFor
    BY <1>1 DEF WaitsFor, Pending, promVars
  <2>2. depth' # 0 /\ (loop = "plain" => depth' = 1 /\ fut'[1] = 0)
    BY <1>1, FrameTypes DEF LoopInv
  <2>3. QED
    BY <1>1, <1>3, <2>1, <2>2, FrameStepKeeps DEF promVars
<1>4. CASE hi = lo
  <2>1. lo' = 0 /\ hi' = 0 /\ UNCHANGED pos
    BY <1>4 DEF Yield
  <2>2. TypeOK'
    <3>1. hi' \in 0..MaxDepth /\ lo' \in 0..MaxDepth
      BY <2>1, FrameTypes
    <3>2. QED
      BY <1>1, <2>1, <3>1 DEF TypeOK, opVars, queueVars, promVars, loopVars
  <2>3. FrameInv'
    BY <1>1, <1>2, <1>4, <2>1, FrameTypes DEF FrameInv
  <2>4. PromiseInv'
    BY <1>1, <1>2, <2>1 DEF PromiseInv
  <2>5. QED
    BY <1>3, <2>2, <2>3, <2>4
<1>5. CASE hi # lo
  <2>1. hi - 1 \in Frames /\ lo <= hi - 1
    BY <1>1, <1>5, FrameTypes
  <2>2. /\ pos'[hi - 1] \in {"check", "suspended"} /\ hi' = hi - 1 /\ lo' = lo
        /\ \A f \in Frames \ {hi - 1} : pos'[f] = pos[f]
        /\ pos' \in [Frames -> FramePos]
    BY <1>5, <2>1, FrameTypes DEF Yield, Goes, Below, FramePos
  <2>3. TypeOK'
    <3>1. hi' \in 0..MaxDepth /\ lo' \in 0..MaxDepth
      BY <2>1, <2>2, FrameTypes
    <3>2. QED
      BY <1>1, <2>2, <3>1 DEF TypeOK, opVars, queueVars, promVars, loopVars
  <2>4. FrameInv'
    <3>1. ASSUME NEW f \in Frames
          PROVE  /\ pos'[f] = "none" <=> f > depth'
                 /\ f < depth' => pos'[f] \in {"suspended", "check", "calling", "driving"}
                 /\ pos'[f] \in {"calling", "driving"} <=> lo' <= f /\ f < hi'
                 /\ pos'[f] \in {"run", "check"} => f = hi'
                 /\ fut'[f] # 0 => f = depth' /\ pos'[f] \in {"check", "suspended"} /\ fut'[f] <= issued'
                 /\ f = depth' /\ pos'[f] \in {"check", "suspended"} => fut'[f] # 0
      <4>1. CASE f = hi - 1
        BY <1>1, <1>2, <2>1, <2>2, <4>1, FrameTypes DEF FrameInv
      <4>2. CASE f # hi - 1
        <5>1. pos'[f] = pos[f] /\ fut'[f] = fut[f] /\ (f = hi => pos[f] \in {"suspended", "done"})
          BY <1>1, <2>2, <4>2
        <5>2. pos'[f] \in {"calling", "driving"} <=> lo' <= f /\ f < hi'
          <6>1. pos[f] \in {"calling", "driving"} <=> lo <= f /\ f < hi
            BY DEF FrameInv
          <6>2. f < hi - 1 <=> f < hi /\ f # hi - 1
            BY <1>1, FrameTypes
          <6>3. QED
            BY <2>2, <4>2, <5>1, <6>1, <6>2
        <5>3. QED
          BY <1>1, <1>2, <5>1, <5>2 DEF FrameInv
      <4>3. QED
        BY <4>1, <4>2
    <3>2. lo' # 0 /\ hi' # 0 /\ lo' <= hi' /\ hi' <= depth'
      BY <1>1, <2>1, <2>2, FrameTypes
    <3>3. QED
      BY <3>1, <3>2 DEF FrameInv
  <2>5. PromiseInv'
    <3>1. pos'[depth] = "suspended" => pos[depth] = "suspended"
      BY <1>1, <2>1, <2>2, FrameTypes
    <3>2. QED
      BY <1>1, <1>2, <3>1 DEF PromiseInv
  <2>6. QED
    BY <1>3, <2>3, <2>4, <2>5
<1>6. QED
  BY <1>4, <1>5
-----------------------------------------------------------------------------
(* The pass over the executors. *)

\* A step of the loop that leaves frames and promises alone.
LEMMA LoopStepKeeps ==
    ASSUME RuntimeInv, UNCHANGED <<issued, lost, promVars, frameVars>>,
           applied \subseteq applied', applied' \subseteq 1..issued,
           TypeOK', QueueInv', AwaitInv', LoopInv'
    PROVE  RuntimeInv'
<1>1. FrameInv'
  BY DEF RuntimeInv, FrameInv, frameVars
<1>2. PromiseInv'
  BY DEF RuntimeInv, PromiseInv, promVars, frameVars
<1>3. QED
  BY <1>1, <1>2 DEF RuntimeInv

\* Between two executors nothing is in hand.
LEMMA BetweenVisits ==
    ASSUME RuntimeInv, loop \notin {"calls", "futures"}
    PROVE  /\ todoCalls = <<>> /\ todoFutures = <<>>
           /\ \A x \in Executors : InHand(x) = {} /\ Outstanding(x) = Remaining(calls[x])
<1>1. todoCalls = <<>> /\ todoFutures = <<>>
  BY DEF RuntimeInv, LoopInv, AwaitInv
<1>2. QED
  BY <1>1, EmptySequence DEF RuntimeInv, QueueInv, InHand

\* Only the loop's place changes, between two executors.
LEMMA MoveKeeps ==
    ASSUME RuntimeInv, hi = 0, UNCHANGED <<opVars, queueVars, promVars, frameVars>>,
           todoCalls = <<>>, todoFutures = <<>>, UNCHANGED <<todoCalls, todoFutures>>,
           loop \notin {"out", "plain"}, loop' \in {"test", "visit", "aborted"},
           loop' = "visit" /\ flushing' => pos[1] = "done",
           TypeOK'
    PROVE  RuntimeInv'
<1> USE DEF RuntimeInv
<1>1. \A x \in Executors : InHand(x) = {} /\ InHand(x)' = {} /\ Outstanding(x)' = Outstanding(x)
  BY EmptySequence DEF InHand, Outstanding, opVars
<1>2. QueueInv'
  BY <1>1, EmptySequence DEF QueueInv, queueVars
<1>3. AwaitInv'
  BY <1>1 DEF AwaitInv, Pending, WaitsFor, opVars, queueVars, promVars, frameVars
<1>4. LoopInv'
  BY DEF LoopInv, InPass, frameVars
<1>5. QED
  BY <1>2, <1>3, <1>4, LoopStepKeeps DEF opVars, PromiseInv

\* A pass begins at the first executor.
LEMMA BeginPassKeeps ==
    ASSUME RuntimeInv, BeginPass
    PROVE  RuntimeInv'
<1>1. todoCalls = <<>> /\ todoFutures = <<>>
  BY BetweenVisits DEF BeginPass, InLoop
<1>2. 1 \in 1..(Len(Order) + 1)
  BY Constants
<1>3. TypeOK'
  BY <1>2 DEF RuntimeInv, TypeOK, BeginPass, LoopPos, opVars, queueVars, promVars, frameVars
<1>4. QED
  BY <1>1, <1>3, MoveKeeps DEF BeginPass, InLoop

\* The next executor is visited with nothing in hand.
LEMMA LeaveKeeps ==
    ASSUME RuntimeInv, Leave
    PROVE  RuntimeInv'
<1> USE DEF RuntimeInv
<1>1. todoCalls = <<>> /\ todoFutures = <<>> /\ hi = 0 /\ loop \in {"calls", "futures"}
  BY DEF Leave, LoopInv
<1>2. at \in DOMAIN Order /\ at + 1 \in 1..(Len(Order) + 1)
  BY <1>1, Constants DEF LoopInv
<1>3. TypeOK'
  BY <1>2 DEF TypeOK, Leave, LoopPos, opVars, queueVars, promVars, frameVars
<1>4. flushing' => pos[1] = "done"
  BY <1>1 DEF Leave, LoopInv, InPass
<1>5. QED
  BY <1>1, <1>3, <1>4, MoveKeeps DEF Leave

\* What was in the vectors is now in hand.
LEMMA VisitKeeps ==
    ASSUME RuntimeInv, Visit
    PROVE  RuntimeInv'
<1> USE DEF RuntimeInv
<1>e. PICK e \in Executors : e = Order[at]
  BY Constants DEF Visit, InLoop
<1>1. /\ at \in DOMAIN Order /\ e \in Executors /\ hi = 0 /\ loop = "visit" /\ loop' = "calls"
      /\ todoCalls' = calls[e] /\ calls' = [calls EXCEPT ![e] = <<>>]
      /\ UNCHANGED <<opVars, promVars, frameVars, at, flushing, runs>>
  BY <1>e, Constants DEF Visit, InLoop
<1>2. /\ todoCalls = <<>> /\ todoFutures = <<>>
      /\ \A x \in Executors : InHand(x) = {} /\ Outstanding(x) = Remaining(calls[x])
  BY <1>e, <1>1, BetweenVisits
<1>3. /\ calls \in [Executors -> Seq(Ops)] /\ futures \in [Executors -> Seq(Ops)]
      /\ calls'[e] = <<>> /\ \A x \in Executors \ {e} : calls'[x] = calls[x]
      /\ calls' \in [Executors -> Seq(Ops)] /\ todoCalls' \in Seq(Ops)
  BY <1>e, <1>1, EmptySequence DEF TypeOK
<1>4. \/ /\ e \in Paired /\ todoFutures' = futures[e]
         /\ futures'[e] = <<>> /\ \A x \in Executors \ {e} : futures'[x] = futures[x]
         /\ futures' \in [Executors -> Seq(Ops)] /\ todoFutures' \in Seq(Ops)
      \/ /\ e \notin Paired /\ todoFutures' = <<>> /\ futures' = futures
  <2>1. CASE e \in Paired
    <3>1. todoFutures' = futures[e] /\ futures' = [futures EXCEPT ![e] = <<>>]
      BY <1>e, <2>1 DEF Visit
    <3>2. QED
      BY <1>e, <1>1, <1>3, <2>1, <3>1, EmptySequence
  <2>2. CASE e \notin Paired
    BY <1>e, <1>2, <2>2 DEF Visit
  <2>3. QED
    BY <2>1, <2>2
<1>5. TypeOK'
  <2>1. processed' \in Nat
    BY <1>3, <1>1 DEF Visit, CountedCalls, TypeOK
  <2>2. futures' \in [Executors -> Seq(Ops)] /\ todoFutures' \in Seq(Ops)
    BY <1>3, <1>4, EmptySequence
  <2>3. QED
    BY <1>e, <1>1, <1>3, <2>1, <2>2 DEF TypeOK, LoopPos, opVars, promVars, frameVars
<1>6. /\ \A x \in Executors : Outstanding(x)' = Outstanding(x)
      /\ InHand(e)' = Remaining(calls[e]) /\ \A x \in Executors \ {e} : InHand(x)' = {}
  BY <1>e, <1>1 DEF InHand, Outstanding, opVars
<1>7. QueueInv'
  <2>1. Increasing(todoCalls') /\ \A x \in Executors : Increasing(calls'[x])
    BY <1>e, <1>1, <1>3, EmptySequence DEF QueueInv
  <2>2. \A x \in Executors : Outstanding(x)' = Remaining(calls'[x]) \cup InHand(x)'
    <3>1. Outstanding(e)' = Remaining(calls'[e]) \cup InHand(e)'
      BY <1>e, <1>1, <1>2, <1>3, <1>6, EmptySequence
    <3>2. \A x \in Executors \ {e} : Outstanding(x)' = Remaining(calls'[x]) \cup InHand(x)'
      BY <1>2, <1>3, <1>6
    <3>3. QED
      BY <3>1, <3>2
  <2>3. \A x \in Executors : \A m \in InHand(x)' : \A n \in Remaining(calls'[x]) : m < n
    BY <1>3, <1>6, EmptySequence
  <2>4. QED
    BY <2>1, <2>2, <2>3 DEF QueueInv
<1>8. (Pending' <=> Pending) /\ WaitsFor' = WaitsFor /\ execOf' = execOf
  BY <1>e, <1>1 DEF Pending, WaitsFor, opVars, promVars, frameVars
<1>9. AwaitInv'
  <2>1. \A x \in Executors \ Drawing : \A n \in Outstanding(x)' : Pending' /\ n = WaitsFor'
    BY <1>6, <1>8 DEF AwaitInv
  <2>2. \A x \in Executors : futures'[x] # <<>> =>
           /\ futures[x] # <<>> /\ futures'[x] = futures[x]
           /\ Pending' /\ futures'[x] = <<WaitsFor'>> /\ execOf'[WaitsFor'] = x
           /\ x \in Paired => calls'[x] = <<WaitsFor'>>
    BY <1>3, <1>4, <1>8 DEF AwaitInv
  <2>3. todoFutures' # <<>> =>
           /\ e \in Paired /\ futures[e] # <<>>
           /\ Pending' /\ todoFutures' = <<WaitsFor'>> /\ execOf'[WaitsFor'] = e
    BY <1>e, <1>1, <1>4, <1>8 DEF AwaitInv
  <2>4. WaitsFor' \notin Remaining(calls'[e])
    BY <1>3, EmptySequence
  <2>5. \A x \in Executors : futures'[x] # <<>> => todoFutures' = <<>>
    BY <1>3, <1>4, <2>2, <2>3
  <2>6. Pending => todoFutures' # <<>> \/ futures'[execOf[WaitsFor]] # <<>>
    <3>1. Pending => futures[execOf[WaitsFor]] # <<>>
      BY <1>2 DEF AwaitInv
    <3>2. Pending => execOf[WaitsFor] \in Executors
      BY PendingOperation
    <3>3. execOf[WaitsFor] = e => todoFutures' = futures[e] \/ futures'[execOf[WaitsFor]] = futures[execOf[WaitsFor]]
      BY <1>4
    <3>4. Pending /\ execOf[WaitsFor] # e => futures'[execOf[WaitsFor]] = futures[execOf[WaitsFor]]
      BY <1>4, <3>2
    <3>5. QED
      BY <3>1, <3>3, <3>4
  <2>7. UNCHANGED <<hi, at>>
    BY <1>e, <1>1 DEF frameVars
  <2>8. QED
    BY <1>e, <1>1, <1>8, <2>1, <2>2, <2>3, <2>4, <2>5, <2>6, <2>7 DEF AwaitInv
<1>10. LoopInv'
  <2>1. e \in Paired => todoCalls' = <<>> \/ todoCalls' = todoFutures'
    <3>1. CASE futures[e] # <<>>
      BY <1>e, <1>1, <1>4, <3>1 DEF AwaitInv
    <3>2. CASE futures[e] = <<>> /\ e \in Paired
      <4>1. Outstanding(e) = {}
        <5>1. e \notin Drawing
          BY <3>2, Constants
        <5>2. \A n \in Outstanding(e) : Pending /\ n = WaitsFor /\ execOf[n] = e
          BY <1>e, <1>1, <5>1 DEF AwaitInv, Outstanding
        <5>3. Pending => futures[execOf[WaitsFor]] # <<>>
          BY <1>2 DEF AwaitInv
        <5>4. QED
          BY <3>2, <5>2, <5>3
      <4>2. calls[e] = <<>>
        <5>1. calls[e] \in Seq(Ops) /\ Remaining(calls[e]) = {}
          BY <1>e, <1>1, <1>2, <1>3, <4>1
        <5>2. QED
          BY <5>1, TailSequence
      <4>3. QED
        BY <1>e, <1>1, <4>2
    <3>3. QED
      BY <3>1, <3>2
  <2>2. InPass /\ flushing => pos[1] = "done" /\ hi = 0
    BY DEF LoopInv
  <2>3. QED
    BY <1>e, <1>1, <1>3, <2>1, <2>2 DEF LoopInv, InPass, frameVars
<1>11. QED
  BY <1>e, <1>1, <1>5, <1>7, <1>9, <1>10, LoopStepKeeps DEF opVars, PromiseInv

\* A callback takes effect when all earlier ones of its executor have.
LEMMA RunCallKeeps ==
    ASSUME RuntimeInv, RunCall
    PROVE  /\ RuntimeInv'
           /\ Head(todoCalls) \in 1..issued /\ Head(todoCalls) \notin applied
           /\ \A m \in 1..issued : m < Head(todoCalls) /\ execOf[m] = execOf[Head(todoCalls)]
                                     => m \in applied
<1> USE DEF RuntimeInv
<1>e. PICK e \in Executors : e = Order[at]
  BY Constants DEF RunCall, InLoop, TurnOfCall, LoopInv
<1>n. PICK n : n = Head(todoCalls)
  OBVIOUS
<1>1. /\ todoCalls # <<>> /\ loop = "calls" /\ hi = 0 /\ at \in DOMAIN Order /\ e \in Executors
      /\ todoCalls \in Seq(Ops)
      /\ applied' = applied \cup {n} /\ todoCalls' = Tail(todoCalls)
      /\ UNCHANGED <<issued, execOf, lost, queueVars, promVars, frameVars, loop, at, todoFutures,
                     processed, flushing, runs>>
  BY <1>e, <1>n, Constants DEF RunCall, InLoop, TurnOfCall, LoopInv, TypeOK
<1>2. /\ n \in Ops /\ todoCalls' \in Seq(Ops)
      /\ Remaining(todoCalls) = {n} \cup Remaining(todoCalls')
      /\ Increasing(todoCalls') /\ \A m \in Remaining(todoCalls') : n < m
  BY <1>e, <1>n, <1>1, TailSequence DEF QueueInv
<1>3. /\ InHand(e) = Remaining(todoCalls) /\ InHand(e)' = Remaining(todoCalls')
      /\ \A x \in Executors \ {e} : InHand(x) = {} /\ InHand(x)' = {}
  BY <1>e, <1>n, <1>1 DEF InHand
<1>4. n \in Outstanding(e) /\ (\A m \in Outstanding(e) : m = n \/ n < m)
  BY <1>e, <1>n, <1>1, <1>2, <1>3 DEF QueueInv
<1>5. n \in 1..issued /\ execOf[n] = e /\ n \notin applied
  BY <1>4 DEF Outstanding
<1>6. \A m \in 1..issued : m < n /\ execOf[m] = e => m \in applied
  <2>1. SUFFICES ASSUME NEW m \in 1..issued, m < n, execOf[m] = e, m \notin applied
                 PROVE  FALSE
    OBVIOUS
  <2>2. m \in Outstanding(e)
    BY <2>1 DEF Outstanding, PromiseInv
  <2>3. n \in Int /\ m \in Int /\ (m = n \/ n < m)
    BY <1>4, <1>5, <2>1, <2>2
  <2>4. QED
    BY <2>1, <2>3
<1>7. /\ Outstanding(e)' = Outstanding(e) \ {n}
      /\ \A x \in Executors \ {e} : Outstanding(x)' = Outstanding(x)
  BY <1>e, <1>n, <1>1, <1>5 DEF Outstanding
<1>8. QueueInv'
  <2>1. \A x \in Executors : Increasing(calls'[x]) /\ calls'[x] = calls[x]
    BY <1>e, <1>n, <1>1 DEF QueueInv, queueVars
  <2>2. n \notin Remaining(calls[e]) /\ n \notin Remaining(todoCalls')
    <3>1. \A m \in Remaining(calls[e]) : n < m
      <4>1. n \in InHand(e)
        BY <1>2, <1>3
      <4>2. QED
        BY <1>e, <1>n, <1>1, <4>1 DEF QueueInv
    <3>2. n \in Int /\ ~(n < n)
      BY <1>5
    <3>3. QED
      BY <1>2, <3>1, <3>2
  <2>3. Outstanding(e)' = Remaining(calls'[e]) \cup InHand(e)'
    <3>1. Outstanding(e) = Remaining(calls[e]) \cup Remaining(todoCalls)
      BY <1>e, <1>n, <1>1, <1>3 DEF QueueInv
    <3>2. QED
      BY <1>e, <1>n, <1>1, <1>2, <1>3, <1>7, <2>1, <2>2, <3>1
  <2>4. \A x \in Executors \ {e} : Outstanding(x)' = Remaining(calls'[x]) \cup InHand(x)'
    BY <1>3, <1>7, <2>1 DEF QueueInv
  <2>5. \A x \in Executors : \A m \in InHand(x)' : \A k \in Remaining(calls'[x]) : m < k
    <3>1. InHand(e)' \subseteq InHand(e) /\ \A x \in Executors \ {e} : InHand(x)' \subseteq InHand(x)
      BY <1>2, <1>3
    <3>2. \A x \in Executors : InHand(x)' \subseteq InHand(x)
      BY <3>1
    <3>3. QED
      BY <2>1, <3>2 DEF QueueInv
  <2>6. \A x \in Executors : Outstanding(x)' = Remaining(calls'[x]) \cup InHand(x)'
    BY <2>3, <2>4
  <2>7. QED
    BY <1>2, <2>1, <2>5, <2>6 DEF QueueInv
<1>9. (Pending' <=> Pending) /\ WaitsFor' = WaitsFor
  BY <1>e, <1>n, <1>1 DEF Pending, WaitsFor, promVars, frameVars
<1>10. AwaitInv'
  <2>1. \A x \in Executors : Outstanding(x)' \subseteq Outstanding(x)
    BY <1>e, <1>n, <1>1 DEF Outstanding
  <2>2. \A x \in Executors \ Drawing : \A m \in Outstanding(x)' : Pending' /\ m = WaitsFor'
    BY <1>9, <2>1 DEF AwaitInv
  <2>3. QED
    BY <1>e, <1>n, <1>1, <1>9, <2>2 DEF AwaitInv, queueVars, frameVars
<1>11. LoopInv'
  <2>1. e \in Paired => todoCalls' = <<>>
    <3>1. e \in Paired => todoCalls = <<WaitsFor>> /\ Pending
      BY <1>e, <1>n, <1>1 DEF LoopInv, AwaitInv
    <3>2. QED
      BY <1>e, <1>n, <1>1, <3>1, PendingOperation, OneElement
  <2>2. QED
    BY <1>e, <1>n, <1>1, <2>1 DEF LoopInv, InPass, queueVars, frameVars
<1>12. TypeOK'
  BY <1>e, <1>n, <1>1, <1>2 DEF TypeOK, queueVars, promVars, frameVars
<1>13. RuntimeInv'
  BY <1>e, <1>n, <1>1, <1>5, <1>8, <1>10, <1>11, <1>12, LoopStepKeeps DEF PromiseInv
<1>14. QED
  BY <1>e, <1>n, <1>5, <1>6, <1>13

\* The awaited promise, if it is there, is now in hand.
LEMMA MoveFuturesKeeps ==
    ASSUME RuntimeInv, MoveFutures
    PROVE  RuntimeInv'
<1> USE DEF RuntimeInv
<1>e. PICK e \in Executors : e = Order[at]
  BY Constants DEF MoveFutures, InLoop, LoopInv
<1>1. /\ loop = "calls" /\ loop' = "futures" /\ hi = 0 /\ e \notin Paired /\ todoCalls = <<>>
      /\ at \in DOMAIN Order /\ e \in Executors /\ calls[e] = <<>>
      /\ todoFutures' = futures[e] /\ futures' = [futures EXCEPT ![e] = <<>>]
      /\ processed' = processed + Len(futures[e])
      /\ UNCHANGED <<opVars, calls, promVars, frameVars, at, todoCalls, flushing, runs>>
  BY <1>e, Constants DEF MoveFutures, InLoop, LoopInv
<1>2. todoFutures = <<>>
  BY <1>e, <1>1 DEF AwaitInv
<1>3. /\ futures'[e] = <<>> /\ \A x \in Executors \ {e} : futures'[x] = futures[x]
      /\ futures' \in [Executors -> Seq(Ops)] /\ todoFutures' \in Seq(Ops)
      /\ processed' \in Nat
  BY <1>e, <1>1, EmptySequence DEF TypeOK
<1>4. TypeOK'
  BY <1>e, <1>1, <1>3 DEF TypeOK, LoopPos, opVars, promVars, frameVars
<1>5. \A x \in Executors : Outstanding(x)' = Outstanding(x) /\ InHand(x)' = InHand(x)
  BY <1>e, <1>1 DEF InHand, Outstanding, opVars
<1>6. QueueInv'
  BY <1>e, <1>1, <1>5 DEF QueueInv
<1>7. (Pending' <=> Pending) /\ WaitsFor' = WaitsFor /\ execOf' = execOf /\ hi' = 0
  BY <1>e, <1>1 DEF Pending, WaitsFor, opVars, promVars, frameVars
<1>8. AwaitInv'
  <2>1. \A x \in Executors \ Drawing : \A n \in Outstanding(x)' : Pending' /\ n = WaitsFor'
    BY <1>5, <1>7 DEF AwaitInv
  <2>2. \A x \in Executors : futures'[x] # <<>> =>
           /\ x # e /\ Pending' /\ futures'[x] = <<WaitsFor'>> /\ execOf'[WaitsFor'] = x
           /\ x \in Paired => calls'[x] = <<WaitsFor'>>
    BY <1>e, <1>1, <1>3, <1>7 DEF AwaitInv
  <2>3. todoFutures' # <<>> =>
           Pending' /\ todoFutures' = <<WaitsFor'>> /\ execOf'[WaitsFor'] = e
    BY <1>e, <1>1, <1>7 DEF AwaitInv
  <2>4. WaitsFor' \notin Remaining(calls'[e])
    BY <1>e, <1>1, EmptySequence
  <2>5. Pending => todoFutures' # <<>> \/ futures'[execOf[WaitsFor]] # <<>>
    <3>1. Pending => futures[execOf[WaitsFor]] # <<>> /\ execOf[WaitsFor] \in Executors
      BY <1>2, PendingOperation DEF AwaitInv
    <3>2. QED
      BY <1>e, <1>1, <1>3, <3>1
  <2>6. QED
    BY <1>e, <1>1, <1>7, <2>1, <2>2, <2>3, <2>4, <2>5 DEF AwaitInv
<1>9. LoopInv'
  BY <1>e, <1>1, <1>7 DEF LoopInv, InPass, frameVars
<1>10. QED
  BY <1>e, <1>1, <1>4, <1>6, <1>8, <1>9, LoopStepKeeps DEF opVars, PromiseInv

\* The awaited promise is resolved and its frame goes on, on top of the loop.
LEMMA RunFutureKeeps ==
    ASSUME RuntimeInv, RunFuture
    PROVE  RuntimeInv' /\ WaitsFor' = WaitsFor /\ UNCHANGED opVars /\ hi' # 0
           /\ Pending /\ todoFutures = <<WaitsFor>>
<1> USE DEF RuntimeInv
<1>n. PICK n \in Ops : n = WaitsFor
  BY VisitedPromise DEF RunFuture
<1>d. PICK d \in Frames : d = depth
  BY VisitedPromise DEF RunFuture
<1>1. /\ hi = 0 /\ TurnOfFuture /\ Pending
      /\ todoFutures = <<n>> /\ Head(todoFutures) = n /\ Tail(todoFutures) = <<>> /\ todoCalls = <<>>
      /\ n \in applied /\ n \notin fired
      /\ fut[d] = n /\ pos[d] = "suspended" /\ callerOf[n] = d /\ at \in DOMAIN Order
      /\ n \notin orphans /\ d # 0 /\ loop \in {"calls", "futures"}
  BY <1>n, <1>d, VisitedPromise, FrameTypes DEF RunFuture, Pending, PromiseInv, LoopInv, TurnOfFuture
<1>2. /\ todoFutures' = <<>> /\ fired' = fired \cup {n}
      /\ callerOf' = [callerOf EXCEPT ![n] = 0]
      /\ pos' = [pos EXCEPT ![d] = "check"] /\ lo' = d /\ hi' = d
      /\ UNCHANGED <<orphans, depth, fut, loop>>
      /\ UNCHANGED <<opVars, queueVars, at, todoCalls, processed, flushing, runs>>
  BY <1>1 DEF RunFuture, Goes
<1>3. /\ pos'[d] = "check" /\ \A f \in Frames \ {d} : pos'[f] = pos[f]
      /\ pos' \in [Frames -> FramePos]
      /\ callerOf'[n] = 0 /\ \A m \in Ops \ {n} : callerOf'[m] = callerOf[m]
      /\ callerOf' \in [Ops -> 0..MaxDepth] /\ todoFutures' \in Seq(Ops)
  BY <1>1, <1>2, FrameTypes, EmptySequence DEF TypeOK, FramePos
<1>4. TypeOK'
  <2>1. lo' \in 0..MaxDepth /\ hi' \in 0..MaxDepth
    BY <1>2, FrameTypes
  <2>2. QED
    BY <1>2, <1>3, <2>1 DEF TypeOK, opVars, queueVars
<1>5. FrameInv'
  <2>1. issued' = issued /\ lo' # 0 /\ hi' # 0 /\ lo' <= hi' /\ hi' <= depth'
    BY <1>d, <1>1, <1>2, FrameTypes DEF opVars
  <2>2. ASSUME NEW f \in Frames
        PROVE  /\ pos'[f] = "none" <=> f > depth'
               /\ f < depth' => pos'[f] \in {"suspended", "check", "calling", "driving"}
               /\ pos'[f] \in {"calling", "driving"} <=> lo' <= f /\ f < hi'
               /\ pos'[f] \in {"run", "check"} => f = hi'
               /\ fut'[f] # 0 => f = depth' /\ pos'[f] \in {"check", "suspended"} /\ fut'[f] <= issued'
               /\ f = depth' /\ pos'[f] \in {"check", "suspended"} => fut'[f] # 0
    BY <1>d, <1>1, <1>2, <1>3, <2>1, FrameTypes DEF FrameInv
  <2>3. QED
    BY <2>1, <2>2 DEF FrameInv
<1>6. PromiseInv'
  <2>1. \A m \in Ops : callerOf'[m] = 0
    BY <1>d, <1>1, <1>3 DEF PromiseInv
  <2>2. pos'[depth'] = "check"
    BY <1>d, <1>2, <1>3
  <2>3. QED
    BY <1>1, <1>2, <2>1, <2>2 DEF PromiseInv, opVars
<1>7. WaitsFor' = WaitsFor /\ ~Pending'
  BY <1>n, <1>d, <1>1, <1>2 DEF Pending, WaitsFor
<1>8. \A x \in Executors : Outstanding(x)' = Outstanding(x) /\ InHand(x)' = InHand(x)
  BY <1>2 DEF InHand, Outstanding, opVars
<1>9. QueueInv'
  BY <1>2, <1>8 DEF QueueInv, queueVars
<1>10. AwaitInv'
  <2>1. \A x \in Executors \ Drawing : Outstanding(x)' = {}
    BY <1>n, <1>1, <1>8 DEF AwaitInv, Outstanding
  <2>2. \A x \in Executors : futures'[x] = <<>>
    BY <1>1, <1>2 DEF AwaitInv, queueVars
  <2>3. QED
    BY <1>2, <1>7, <2>1, <2>2 DEF AwaitInv
<1>11. LoopInv'
  <2>1. loop = "calls" => Order[at] \in Paired
    BY <1>1 DEF AwaitInv
  <2>2. pos[1] # "done"
    <3>1. 1 < d => pos[1] \in {"suspended", "check", "calling", "driving"}
      BY <1>d, Constants DEF FrameInv
    <3>2. QED
      BY <1>1, <3>1, FrameTypes
  <2>3. ~(InPass /\ flushing)
    BY <2>2 DEF LoopInv
  <2>4. QED
    BY <1>1, <1>2, <2>1, <2>3 DEF LoopInv, InPass, queueVars
<1>12. QED
  BY <1>n, <1>1, <1>2, <1>4, <1>5, <1>6, <1>7, <1>9, <1>10, <1>11
-----------------------------------------------------------------------------
(* Runs begin and end. *)

LEMMA InitKeeps == Init => RuntimeInv
<1> SUFFICES ASSUME Init PROVE RuntimeInv
  OBVIOUS
<1>1. /\ \A f \in Frames : pos[f] = "none" /\ fut[f] = 0
      /\ depth = 0 /\ lo = 0 /\ hi = 0 /\ loop = "out" /\ issued = 0
      /\ todoCalls = <<>> /\ todoFutures = <<>> /\ fired = {} /\ applied = {} /\ lost = {} /\ orphans = {}
      /\ \A n \in Ops : callerOf[n] = 0
      /\ \A e \in Executors : calls[e] = <<>> /\ futures[e] = <<>>
  BY DEF Init
<1>2. 1 \in DOMAIN Order /\ Order[1] \in Executors /\ 1 \in 1..(Len(Order) + 1)
  BY Constants
<1>3. TypeOK
  <2>1. calls \in [Executors -> Seq(Ops)] /\ futures \in [Executors -> Seq(Ops)]
    BY EmptySequence DEF Init
  <2>2. pos \in [Frames -> FramePos] /\ fut \in [Frames -> 0..MaxOps] /\ callerOf \in [Ops -> 0..MaxDepth]
    BY Constants DEF Init, FramePos
  <2>3. execOf \in [Ops -> Executors] /\ at \in 1..(Len(Order) + 1)
    BY <1>2 DEF Init
  <2>4. issued \in 0..MaxOps /\ depth \in 0..MaxDepth /\ lo \in 0..MaxDepth /\ hi \in 0..MaxDepth
        /\ runs \in 0..MaxRuns /\ processed \in Nat
    BY <1>1, Constants DEF Init
  <2>5. loop \in LoopPos /\ flushing \in BOOLEAN
        /\ todoCalls \in Seq(Ops) /\ todoFutures \in Seq(Ops)
        /\ applied \subseteq Ops /\ lost \subseteq Ops /\ fired \subseteq Ops /\ orphans \subseteq Ops
    BY EmptySequence DEF Init, LoopPos
  <2>6. QED
    BY <2>1, <2>2, <2>3, <2>4, <2>5 DEF TypeOK
<1>4. FrameInv
  BY <1>1 DEF FrameInv, Frames
<1>5. PromiseInv
  BY <1>1 DEF PromiseInv
<1>6. \A e \in Executors : Outstanding(e) = {} /\ InHand(e) = {}
  BY <1>1, EmptySequence DEF Outstanding, InHand
<1>7. QueueInv
  BY <1>1, <1>6, EmptySequence DEF QueueInv
<1>8. ~Pending
  BY <1>1 DEF Pending, WaitsFor
<1>9. AwaitInv
  BY <1>1, <1>6, <1>8 DEF AwaitInv
<1>10. LoopInv
  BY <1>1, Constants DEF LoopInv, InPass
<1>11. QED
  BY <1>3, <1>4, <1>5, <1>7, <1>9, <1>10 DEF RuntimeInv

\* A new entry frame runs; the module of the JIT may be one without coroutines.
LEMMA StartKeeps ==
    ASSUME RuntimeInv, hi = 0, loop = "out", loop' \in {"test", "plain"},
           depth' = 1, lo' = 1, hi' = 1, Goes(1, "run"), runs' \in 0..MaxRuns,
           UNCHANGED <<opVars, queueVars, promVars, fut, at, todoCalls, todoFutures,
                       processed, flushing>>
    PROVE  RuntimeInv' /\ WaitsFor = 0 /\ WaitsFor' = 0
<1> USE DEF RuntimeInv
<1>1. /\ depth = 0 /\ \A f \in Frames : pos[f] = "none" /\ fut[f] = 0
      /\ todoCalls = <<>> /\ todoFutures = <<>>
      /\ \A x \in Executors : InHand(x) = {} /\ Outstanding(x) = Remaining(calls[x])
  <2>1. depth = 0
    BY DEF LoopInv
  <2>2. \A f \in Frames : pos[f] = "none" /\ fut[f] = 0
    BY <2>1, FrameTypes DEF FrameInv
  <2>3. QED
    BY <2>1, <2>2, BetweenVisits
<1>2. /\ pos'[1] = "run" /\ \A f \in Frames \ {1} : pos'[f] = "none"
      /\ pos' \in [Frames -> FramePos] /\ fut' = fut /\ 1 \in Frames /\ 1 \in 0..MaxDepth
  BY <1>1, FrameTypes, Constants DEF Goes, FramePos
<1>3. TypeOK'
  BY <1>2 DEF TypeOK, LoopPos, opVars, queueVars, promVars
<1>4. FrameInv'
  BY <1>1, <1>2, FrameTypes DEF FrameInv
<1>5. \A n \in Ops : callerOf[n] = 0
  BY <1>1, FrameTypes DEF PromiseInv
<1>6. PromiseInv'
  BY <1>2, <1>5 DEF PromiseInv, opVars, promVars
<1>7. WaitsFor = 0 /\ WaitsFor' = 0 /\ ~Pending /\ ~Pending'
  BY <1>1, <1>2 DEF Pending, WaitsFor
<1>8. \A x \in Executors : Outstanding(x)' = Outstanding(x) /\ InHand(x)' = InHand(x)
  BY DEF InHand, Outstanding, opVars
<1>9. QueueInv'
  BY <1>8 DEF QueueInv, queueVars
<1>10. AwaitInv'
  BY <1>1, <1>7, <1>8 DEF AwaitInv, queueVars, opVars
<1>11. LoopInv'
  BY <1>1, <1>2 DEF LoopInv, InPass
<1>12. QED
  BY <1>3, <1>4, <1>6, <1>7, <1>9, <1>10, <1>11

\* The frames are destroyed when the program awaits nothing.
LEMMA DestroyKeeps ==
    ASSUME RuntimeInv, WaitsFor = 0, todoCalls = <<>>, todoFutures = <<>>,
           DestroyFrames, loop' = "out",
           UNCHANGED <<opVars, queueVars, fired, callerOf, at, todoCalls, todoFutures,
                       processed, flushing, runs>>
    PROVE  RuntimeInv' /\ WaitsFor' = 0
<1> USE DEF RuntimeInv
<1>1. \A n \in Ops : callerOf[n] = 0
  BY FrameTypes DEF PromiseInv, WaitsFor, TypeOK
<1>2. /\ orphans' = {} /\ depth' = 0 /\ lo' = 0 /\ hi' = 0
      /\ \A f \in Frames : pos'[f] = "none" /\ fut'[f] = 0
      /\ pos' \in [Frames -> FramePos] /\ fut' \in [Frames -> 0..MaxOps]
  BY <1>1, Constants DEF DestroyFrames, PromiseInv, FramePos
<1>3. TypeOK'
  <2>1. 0 \in 0..MaxDepth
    BY FrameTypes
  <2>2. QED
    BY <1>2, <2>1 DEF TypeOK, LoopPos, opVars, queueVars
<1>4. FrameInv'
  BY <1>2, FrameTypes DEF FrameInv
<1>5. PromiseInv'
  BY <1>1, <1>2 DEF PromiseInv, opVars
<1>6. ~Pending /\ ~Pending' /\ WaitsFor' = 0
  BY <1>2 DEF Pending, WaitsFor
<1>7. \A x \in Executors : Outstanding(x)' = Outstanding(x) /\ InHand(x)' = InHand(x)
  BY DEF InHand, Outstanding, opVars
<1>8. QueueInv'
  BY <1>7 DEF QueueInv, queueVars
<1>9. AwaitInv'
  BY <1>6, <1>7 DEF AwaitInv, queueVars, opVars
<1>10. LoopInv'
  BY <1>2 DEF LoopInv, InPass
<1>11. QED
  BY <1>3, <1>4, <1>5, <1>6, <1>8, <1>9, <1>10
-----------------------------------------------------------------------------
(* All steps of frames and of the pass. *)

RuntimeStep == FrameStep \/ ChildStep \/ PassStep

\* The invariant under every step of frames and of the pass but a rejection.
LEMMA RuntimeStepKeeps ==
    ASSUME RuntimeInv, ~CallThrows, loop # "plain", RuntimeStep
    PROVE  RuntimeInv'
<1>1. ASSUME NEW e \in Executors, Call(e) PROVE RuntimeInv'
  BY <1>1, CallKeeps
<1>2. ASSUME NEW e \in Drawing, Draw(e) PROVE RuntimeInv'
  BY <1>2, DrawKeeps
<1>3. CASE Finish \/ AwaitReady \/ AwaitSuspend \/ Yield
  BY <1>3, FinishKeeps, AwaitReadyKeeps, AwaitSuspendKeeps, YieldKeeps
<1>4. CASE ChildStep
  BY <1>4, CallChildKeeps, ChildReadyKeeps, ChildDriveKeeps DEF ChildStep
<1>5. CASE BeginPass \/ Visit \/ RunCall \/ MoveFutures \/ RunFuture \/ Leave
  BY <1>5, BeginPassKeeps, VisitKeeps, RunCallKeeps, MoveFuturesKeeps, RunFutureKeeps, LeaveKeeps
<1>6. QED
  BY <1>1, <1>2, <1>3, <1>4, <1>5 DEF RuntimeStep, FrameStep, PassStep

\* Program code runs only when all it awaited has taken effect, and a resolved
\* promise resumes the frame that awaits it.
LEMMA RuntimeSafety == RuntimeInv => AwaitedIsApplied /\ ResumesTheAwaiter
<1> SUFFICES ASSUME RuntimeInv PROVE AwaitedIsApplied /\ ResumesTheAwaiter
  OBVIOUS
<1>1. ASSUME hi > 0, pos[hi] = "run"
      PROVE  \A e \in Executors \ Drawing : Outstanding(e) = {}
  <2>1. depth \in Frames /\ hi \in Frames
    BY <1>1, FrameTypes
  <2>2. hi = depth /\ fut[depth] = 0
    BY <1>1, <2>1, FrameTypes DEF RuntimeInv, FrameInv
  <2>3. ~Pending
    BY <2>2 DEF Pending, WaitsFor
  <2>4. QED
    BY <2>3 DEF RuntimeInv, AwaitInv
<1>2. ASSUME hi = 0, TurnOfFuture
      PROVE  LET n == Head(todoFutures) IN
             n \notin fired /\ callerOf[n] # 0 =>
                /\ n \notin orphans /\ callerOf[n] <= depth
                /\ fut[callerOf[n]] = n /\ pos[callerOf[n]] = "suspended"
  <2>1. Head(todoFutures) = WaitsFor /\ callerOf[WaitsFor] = depth /\ fut[depth] = WaitsFor
        /\ pos[depth] = "suspended" /\ depth \in Nat
    BY <1>2, VisitedPromise, FrameTypes
  <2>2. orphans = {}
    BY DEF RuntimeInv, PromiseInv
  <2>3. QED
    BY <2>1, <2>2
<1>3. QED
  BY <1>1, <1>2 DEF AwaitedIsApplied, ResumesTheAwaiter
-----------------------------------------------------------------------------
(* The refinement of ProgramEffects. *)

LEMMA IssuedBounds ==
    ASSUME RuntimeInv
    PROVE  /\ issued \in Nat
           /\ \A n \in 1..issued : n \in Ops /\ n \in Nat /\ n <= issued
           /\ issued < MaxOps => issued + 1 \in Ops
<1>1. issued \in 0..MaxOps
  BY DEF RuntimeInv, TypeOK
<1>2. QED
  BY <1>1, Constants DEF Ops

\* A step that changes no operation and not what is waited for.
LEMMA QuietRefines ==
    ASSUME UNCHANGED opVars, WaitsFor' = WaitsFor
    PROVE  [Effects!EffectsNext]_(Effects!effectVars)
BY DEF opVars, WaitsFor, Effects!effectVars

\* The initial states are those of ProgramEffects.
LEMMA InitRefines == Init => Effects!EffectsInit
<1> SUFFICES ASSUME Init PROVE Effects!EffectsInit
  OBVIOUS
<1>1. execOf \in [Ops -> Executors]
  BY InitKeeps DEF RuntimeInv, TypeOK
<1>2. QED
  BY <1>1 DEF Init, Effects!EffectsInit

\* An awaited call is ProgramEffects!Call.
LEMMA CallRefines ==
    ASSUME RuntimeInv, NEW e \in Executors, Call(e)
    PROVE  [Effects!EffectsNext]_(Effects!effectVars)
<1>1. hi \in Frames /\ hi = depth /\ WaitsFor = 0 /\ todoCalls = <<>> /\ fut \in [Frames -> 0..MaxOps]
  BY RunningFrame, FrameTypes DEF Call
<1>2. issued + 1 \in Ops
  BY IssuedBounds DEF Call, Issue
<1>3. WaitsFor' = issued + 1
  BY <1>1, FrameTypes DEF Call, WaitsFor
<1>4. Effects!Call(e)
  BY <1>1, <1>2, <1>3 DEF Effects!Call, Effects!Issue, Call, Issue, WaitsFor
<1>5. QED
  BY <1>4 DEF Effects!EffectsNext

\* A drawing operation is ProgramEffects!Draw.
LEMMA DrawRefines ==
    ASSUME RuntimeInv, NEW e \in Drawing, Draw(e)
    PROVE  [Effects!EffectsNext]_(Effects!effectVars)
<1>1. WaitsFor = 0 /\ WaitsFor' = 0
  BY RunningFrame DEF Draw, WaitsFor, frameVars
<1>2. issued + 1 \in Ops
  BY IssuedBounds DEF Draw, Issue
<1>3. Effects!Draw(e)
  BY <1>1, <1>2 DEF Effects!Draw, Effects!Issue, Draw, Issue, WaitsFor
<1>4. QED
  BY <1>3 DEF Effects!EffectsNext

\* Running a callback is ProgramEffects!Apply: its turn has come.
LEMMA RunCallRefines ==
    ASSUME RuntimeInv, RunCall
    PROVE  [Effects!EffectsNext]_(Effects!effectVars)
<1>n. PICK n : n = Head(todoCalls)
  OBVIOUS
<1>1. /\ n \in 1..issued /\ n \notin applied
      /\ \A m \in 1..issued : m < n /\ execOf[m] = execOf[n] => m \in applied
  BY <1>n, RunCallKeeps
<1>2. issued \in Nat /\ n \in Ops /\ n <= issued /\ n \in Nat
  BY <1>1, IssuedBounds
<1>3. \A m \in Ops : m < n /\ execOf[m] = execOf[n] => m \in applied
  BY <1>1, <1>2, FrameTypes
<1>4. /\ applied' = applied \cup {n} /\ UNCHANGED <<issued, execOf, lost>> /\ WaitsFor' = WaitsFor
      /\ lost = {}
  BY <1>n DEF RunCall, WaitsFor, frameVars, RuntimeInv, PromiseInv
<1>5. Effects!Apply(n)
  BY <1>1, <1>2, <1>3, <1>4 DEF Effects!Apply, Effects!Settled, WaitsFor
<1>6. QED
  BY <1>2, <1>5 DEF Effects!EffectsNext

\* Going on after an await is ProgramEffects!Return.
LEMMA AwaitReadyRefines ==
    ASSUME RuntimeInv, AwaitReady
    PROVE  [Effects!EffectsNext]_(Effects!effectVars)
<1>1. WaitsFor \in applied /\ WaitsFor' = 0
  BY AwaitReadyKeeps
<1>2. Effects!Return
  BY <1>1 DEF Effects!Return, AwaitReady, opVars, WaitsFor
<1>3. QED
  BY <1>2 DEF Effects!EffectsNext

\* Every step of frames and of the pass maps to a step or a stutter.
LEMMA RuntimeStepRefines ==
    ASSUME RuntimeInv, ~CallThrows, loop # "plain", RuntimeStep
    PROVE  [Effects!EffectsNext]_(Effects!effectVars)
<1>1. ASSUME NEW e \in Executors, Call(e) PROVE [Effects!EffectsNext]_(Effects!effectVars)
  BY <1>1, CallRefines
<1>2. ASSUME NEW e \in Drawing, Draw(e) PROVE [Effects!EffectsNext]_(Effects!effectVars)
  BY <1>2, DrawRefines
<1>3. CASE AwaitReady
  BY <1>3, AwaitReadyRefines
<1>4. CASE Finish \/ AwaitSuspend \/ Yield \/ ChildDrive
  BY <1>4, QuietRefines DEF Finish, AwaitSuspend, Yield, ChildDrive, WaitsFor
<1>5. CASE CallChild
  <2>1. WaitsFor = 0 /\ WaitsFor' = 0
    BY <1>5, CallChildWaits
  <2>2. QED
    BY <1>5, <2>1, QuietRefines DEF CallChild
<1>6. CASE ChildReady
  BY <1>6, ChildReadyKeeps, QuietRefines DEF ChildReady
<1>7. CASE RunCall
  BY <1>7, RunCallRefines
<1>8. CASE BeginPass \/ Visit \/ MoveFutures \/ Leave
  <2>1. UNCHANGED opVars /\ UNCHANGED frameVars
    BY <1>8 DEF BeginPass, Visit, MoveFutures, Leave
  <2>2. QED
    BY <2>1, QuietRefines DEF frameVars, WaitsFor
<1>9. CASE RunFuture
  BY <1>9, RunFutureKeeps, QuietRefines
<1>10. QED
  BY <1>1, <1>2, <1>3, <1>4, <1>5, <1>6, <1>7, <1>8, <1>9
     DEF RuntimeStep, FrameStep, ChildStep, PassStep
-----------------------------------------------------------------------------
(* A pass over the executors meets the awaited operation. *)

\* A pass that has processed nothing so far has the awaited operation, if there
\* is one, ahead, and no frame has run in it.
EventInv ==
    InPass /\ ~flushing /\ processed = 0 =>
        /\ hi = 0 /\ todoFutures = <<>> /\ pos[1] # "done"
        /\ Pending => \E k \in DOMAIN Order :
             /\ Order[k] = execOf[WaitsFor]
             /\ k > at \/ (k = at /\ (loop = "visit" \/ (loop = "calls" /\ Order[k] \notin Paired)))

\* A frame that runs during a pass was resumed by an event of it.
LEMMA EventFrameStep ==
    ASSUME RuntimeInv, EventInv, FrameStep \/ ChildStep
    PROVE  EventInv'
<1>1. hi # 0 /\ UNCHANGED loopVars
  BY DEF FrameStep, ChildStep, Call, Draw, Finish, AwaitReady, AwaitSuspend, Yield,
         CallChild, ChildReady, ChildDrive, Running
<1>2. QED
  BY <1>1 DEF EventInv, InPass, loopVars

\* Visiting an executor either counts the awaited operation or leaves it ahead.
LEMMA EventPassStep ==
    ASSUME RuntimeInv, ~CallThrows, EventInv, PassStep
    PROVE  EventInv'
<1> USE DEF RuntimeInv
<1>1. CASE BeginPass
  <2>1. flushing' = (pos[1] = "done") /\ at' = 1 /\ todoFutures' = <<>> /\ hi' = 0 /\ loop' = "visit"
        /\ (Pending' <=> Pending) /\ WaitsFor' = WaitsFor /\ execOf' = execOf /\ pos' = pos
    BY <1>1, BetweenVisits DEF BeginPass, InLoop, Pending, WaitsFor, opVars, promVars, frameVars
  <2>2. Pending => \E k \in DOMAIN Order : Order[k] = execOf[WaitsFor]
    BY PendingOperation DEF Executors
  <2>3. \A k \in DOMAIN Order : k > 1 \/ k = 1
    BY Constants
  <2>4. QED
    BY <2>1, <2>2, <2>3 DEF EventInv
<1>2. CASE Visit
  <2>1. /\ loop = "visit" /\ loop' = "calls" /\ at \in DOMAIN Order /\ at' = at /\ hi' = hi /\ pos' = pos
        /\ flushing' = flushing /\ processed' = processed + CountedCalls(Order[at])
        /\ (Pending' <=> Pending) /\ WaitsFor' = WaitsFor /\ execOf' = execOf
    BY <1>2 DEF Visit, InLoop, Pending, WaitsFor, opVars, promVars, frameVars
  <2>2. calls[Order[at]] \in Seq(Ops) /\ processed \in Nat
    BY <2>1, Constants DEF TypeOK
  <2>3. ASSUME ~flushing, processed' = 0
        PROVE  EventInv'
    <3>1. processed = 0 /\ CountedCalls(Order[at]) = 0 /\ hi = 0 /\ pos[1] # "done" /\ todoFutures = <<>>
      <4>1. processed = 0 /\ CountedCalls(Order[at]) = 0
        BY <2>1, <2>2, <2>3 DEF CountedCalls
      <4>2. QED
        BY <2>1, <2>3, <4>1 DEF EventInv, InPass
    <3>2. CASE ~Pending
      <4>1. futures[Order[at]] = <<>>
        BY <2>1, <3>2, Constants DEF AwaitInv
      <4>2. todoFutures' = <<>>
        BY <1>2, <3>1, <4>1 DEF Visit
      <4>3. QED
        BY <2>1, <3>1, <3>2, <4>2 DEF EventInv
    <3>3. CASE Pending
      <4>1. futures[execOf[WaitsFor]] # <<>> /\ execOf[WaitsFor] \in Executors /\ WaitsFor \in Ops
        BY <3>1, <3>3, PendingOperation DEF AwaitInv
      <4>2. PICK k \in DOMAIN Order : Order[k] = execOf[WaitsFor] /\ (k > at \/ k = at)
        BY <2>1, <2>3, <3>1, <3>3 DEF EventInv, InPass
      <4>3. execOf[WaitsFor] = Order[at] => Order[at] \notin Paired
        <5>1. execOf[WaitsFor] \in Paired => calls[execOf[WaitsFor]] = <<WaitsFor>>
          BY <4>1 DEF AwaitInv
        <5>2. Len(<<WaitsFor>>) = 1
          BY <4>1, OneElement
        <5>3. Order[at] \in Paired => Len(calls[Order[at]]) = 0
          BY <3>1 DEF CountedCalls
        <5>4. QED
          BY <5>1, <5>2, <5>3
      <4>4. todoFutures' = <<>>
        <5>1. CASE Order[at] \in Paired
          <6>1. futures[Order[at]] = <<>>
            BY <2>1, <4>1, <4>3, <5>1, Constants DEF AwaitInv
          <6>2. QED
            BY <1>2, <5>1, <6>1 DEF Visit
        <5>2. CASE Order[at] \notin Paired
          BY <1>2, <3>1, <5>2 DEF Visit
        <5>3. QED
          BY <5>1, <5>2
      <4>5. QED
        BY <2>1, <3>1, <3>3, <4>2, <4>3, <4>4 DEF EventInv
    <3>4. QED
      BY <3>2, <3>3
  <2>4. QED
    BY <2>1, <2>3 DEF EventInv
<1>3. CASE RunCall
  BY <1>3 DEF RunCall, EventInv, InPass, InLoop, Pending, WaitsFor, promVars, frameVars
<1>4. CASE MoveFutures
  <2>1. /\ loop = "calls" /\ loop' = "futures" /\ at \in DOMAIN Order /\ at' = at /\ hi' = hi /\ pos' = pos
        /\ flushing' = flushing /\ processed' = processed + Len(futures[Order[at]])
        /\ todoFutures' = futures[Order[at]]
        /\ (Pending' <=> Pending) /\ WaitsFor' = WaitsFor /\ execOf' = execOf
    BY <1>4 DEF MoveFutures, InLoop, LoopInv, Pending, WaitsFor, opVars, promVars, frameVars
  <2>2. futures[Order[at]] \in Seq(Ops) /\ processed \in Nat
    BY <2>1, Constants DEF TypeOK
  <2>3. ASSUME ~flushing, processed' = 0
        PROVE  EventInv'
    <3>1. processed = 0 /\ futures[Order[at]] = <<>>
      BY <2>1, <2>2, <2>3
    <3>2. hi = 0 /\ pos[1] # "done"
      BY <2>1, <2>3, <3>1 DEF EventInv, InPass
    <3>3. ASSUME Pending
          PROVE  \E k \in DOMAIN Order : Order[k] = execOf[WaitsFor] /\ k > at
      <4>1. futures[execOf[WaitsFor]] # <<>>
        BY <2>1, <2>3, <3>1, <3>3 DEF EventInv, InPass, AwaitInv
      <4>2. QED
        BY <2>1, <2>3, <3>1, <3>3, <4>1 DEF EventInv, InPass
    <3>4. QED
      BY <2>1, <3>1, <3>2, <3>3 DEF EventInv
  <2>4. QED
    BY <2>1, <2>3 DEF EventInv
<1>5. CASE RunFuture
  <2>1. todoFutures # <<>> /\ UNCHANGED <<flushing, processed>> /\ InPass /\ (InPass' => InPass)
    BY <1>5 DEF RunFuture, TurnOfFuture, LoopInv, InPass, AwaitInv
  <2>2. QED
    BY <2>1 DEF EventInv
<1>6. CASE Leave
  <2>1. /\ loop \in {"calls", "futures"} /\ loop' = "visit" /\ at' = at + 1 /\ hi' = hi
        /\ at \in DOMAIN Order /\ pos' = pos
        /\ (loop = "calls" => Order[at] \in Paired)
        /\ UNCHANGED <<flushing, processed, todoFutures, execOf>>
        /\ (Pending' <=> Pending) /\ WaitsFor' = WaitsFor
    BY <1>6 DEF Leave, Pending, WaitsFor, LoopInv, opVars, promVars, frameVars
  <2>2. \A k \in DOMAIN Order : k \in Int /\ at \in Int /\ (k > at => k > at + 1 \/ k = at + 1)
    BY <2>1, Constants
  <2>3. QED
    BY <2>1, <2>2 DEF EventInv, InPass
<1>7. QED
  BY <1>1, <1>2, <1>3, <1>4, <1>5, <1>6 DEF PassStep

\* After the last executor, something was processed, or the program does not wait
\* for an operation.
LEMMA PassHasEvents ==
    ASSUME RuntimeInv, EventInv, PassEnded, ~flushing
    PROVE  processed > 0 \/ (processed = 0 /\ ~Pending /\ pos[1] # "done")
<1>1. processed \in Nat /\ at \in 1..(Len(Order) + 1) /\ at \notin DOMAIN Order
  BY DEF RuntimeInv, TypeOK, PassEnded
<1>2. \A k \in DOMAIN Order : ~(k > at) /\ k # at
  BY <1>1, Constants
<1>3. processed = 0 => ~Pending /\ pos[1] # "done"
  BY <1>2 DEF EventInv, InPass, PassEnded, InLoop
<1>4. QED
  BY <1>1, <1>3
-----------------------------------------------------------------------------
(* The flush leaves nothing behind. *)

\* The executors the flush has visited have no calls queued.
FlushInv ==
    InPass /\ flushing => \A k \in DOMAIN Order :
        k < at \/ (k = at /\ loop # "visit") => calls[Order[k]] = <<>>

\* No frame runs during the flush.
LEMMA FlushFrameStep ==
    ASSUME RuntimeInv, FlushInv, FrameStep \/ ChildStep
    PROVE  FlushInv'
<1>1. hi # 0 /\ UNCHANGED loopVars
  BY DEF FrameStep, ChildStep, Call, Draw, Finish, AwaitReady, AwaitSuspend, Yield,
         CallChild, ChildReady, ChildDrive, Running
<1>2. ~(InPass /\ flushing)
  BY <1>1, FrameTypes DEF RuntimeInv, LoopInv, Frames
<1>3. QED
  BY <1>1, <1>2 DEF FlushInv, InPass, loopVars

\* The flush empties one vector of calls after another.
LEMMA FlushPassStep ==
    ASSUME RuntimeInv, ~CallThrows, FlushInv, PassStep
    PROVE  FlushInv'
<1> USE DEF RuntimeInv
<1>1. CASE BeginPass
  <2>1. loop' = "visit" /\ at' = 1
    BY <1>1 DEF BeginPass
  <2>2. \A k \in DOMAIN Order : ~(k < 1)
    BY Constants
  <2>3. QED
    BY <2>1, <2>2 DEF FlushInv
<1>2. CASE Visit
  <2>e. PICK e \in Executors : e = Order[at] /\ at \in DOMAIN Order
    BY <1>2, Constants DEF Visit
  <2>1. /\ loop = "visit" /\ loop' = "calls" /\ UNCHANGED <<at, flushing>>
        /\ calls'[e] = <<>> /\ \A x \in Executors \ {e} : calls'[x] = calls[x]
    BY <1>2, <2>e DEF Visit, InLoop, TypeOK
  <2>2. \A k \in DOMAIN Order : Order[k] \in Executors
    BY Constants
  <2>3. QED
    BY <2>e, <2>1, <2>2 DEF FlushInv, InPass
<1>3. CASE RunCall
  BY <1>3 DEF RunCall, FlushInv, InPass, queueVars
<1>4. CASE MoveFutures
  BY <1>4 DEF MoveFutures, InLoop, FlushInv, InPass
<1>5. CASE RunFuture
  <2>1. hi' # 0 /\ RuntimeInv'
    BY <1>5, RunFutureKeeps
  <2>2. ~(InPass' /\ flushing')
    BY <1>5, <2>1 DEF LoopInv, RunFuture, TurnOfFuture, VisitedPromise, AwaitInv
  <2>3. QED
    BY <2>2 DEF FlushInv
<1>6. CASE Leave
  <2>1. /\ loop \in {"calls", "futures"} /\ loop' = "visit" /\ at' = at + 1 /\ at \in DOMAIN Order
        /\ UNCHANGED <<flushing, calls>>
    BY <1>6 DEF Leave, LoopInv, queueVars
  <2>2. \A k \in DOMAIN Order : k < at + 1 => k < at \/ k = at
    BY <2>1, Constants
  <2>3. QED
    BY <2>1, <2>2 DEF FlushInv, InPass
<1>7. QED
  BY <1>1, <1>2, <1>3, <1>4, <1>5, <1>6 DEF PassStep

\* After the flush no executor has calls queued.
LEMMA FlushEnds ==
    ASSUME RuntimeInv, FlushInv, PassEnded, flushing
    PROVE  \A e \in Executors : calls[e] = <<>>
<1>1. at \in 1..(Len(Order) + 1) /\ at \notin DOMAIN Order
  BY DEF RuntimeInv, TypeOK, PassEnded
<1>2. \A k \in DOMAIN Order : k < at
  BY <1>1, Constants
<1>3. \A k \in DOMAIN Order : calls[Order[k]] = <<>>
  BY <1>2 DEF FlushInv, InPass, PassEnded, InLoop
<1>4. QED
  BY <1>3 DEF Executors

-----------------------------------------------------------------------------
(* What the specifications of the two engines share. *)

LEMMA StutterKeeps ==
    ASSUME RuntimeInv, UNCHANGED vars
    PROVE  RuntimeInv' /\ (EventInv => EventInv') /\ (FlushInv => FlushInv')
           /\ UNCHANGED opVars /\ WaitsFor' = WaitsFor
<1>1. UNCHANGED <<opVars, queueVars, promVars, frameVars, loopVars>>
  BY DEF vars
<1>2. TypeOK' /\ FrameInv' /\ PromiseInv'
  BY <1>1 DEF RuntimeInv, TypeOK, FrameInv, PromiseInv, opVars, queueVars, promVars, frameVars, loopVars
<1>3. \A x \in Executors : Outstanding(x)' = Outstanding(x) /\ InHand(x)' = InHand(x)
  BY <1>1 DEF Outstanding, InHand, opVars, loopVars
<1>4. (Pending' <=> Pending) /\ WaitsFor' = WaitsFor
  BY <1>1 DEF Pending, WaitsFor, promVars, frameVars
<1>5. QueueInv' /\ AwaitInv'
  <2>1. QueueInv'
    BY <1>1, <1>3 DEF RuntimeInv, QueueInv, queueVars, loopVars
  <2>2. AwaitInv'
    BY <1>1, <1>3, <1>4 DEF RuntimeInv, AwaitInv, opVars, queueVars, frameVars, loopVars
  <2>3. QED
    BY <2>1, <2>2
<1>6. LoopInv'
  BY <1>1 DEF RuntimeInv, LoopInv, InPass, queueVars, frameVars, loopVars
<1>7. (EventInv => EventInv') /\ (FlushInv => FlushInv')
  BY <1>1, <1>4 DEF EventInv, FlushInv, InPass, opVars, queueVars, frameVars, loopVars
<1>8. QED
  BY <1>1, <1>2, <1>4, <1>5, <1>6, <1>7 DEF RuntimeInv

\* While the loop runs, the deepest frame is done or waits for its operation.
LEMMA DeepestFrame ==
    ASSUME RuntimeInv, hi = 0, depth # 0
    PROVE  /\ depth \in Frames /\ pos[depth] \in {"suspended", "done"}
           /\ pos[depth] = "suspended" => Pending
<1>1. depth \in Frames
  BY FrameTypes
<1>2. pos[depth] \in {"suspended", "done"}
  <2>1. pos[depth] \notin {"none", "calling", "driving", "run", "check"}
    BY <1>1, FrameTypes DEF RuntimeInv, FrameInv
  <2>2. QED
    BY <1>1, <2>1, FrameTypes DEF FramePos
<1>3. ASSUME pos[depth] = "suspended"
      PROVE  Pending
  <2>1. fut[depth] # 0 /\ fut[depth] \in Ops
    BY <1>1, <1>3, FrameTypes, Constants DEF RuntimeInv, FrameInv
  <2>2. callerOf[fut[depth]] = depth
    BY <1>3 DEF RuntimeInv, PromiseInv
  <2>3. fut[depth] \notin fired
    BY <2>1, <2>2 DEF RuntimeInv, PromiseInv
  <2>4. QED
    BY <2>1, <2>3 DEF Pending, WaitsFor
<1>4. QED
  BY <1>1, <1>2, <1>3

\* When the flush is over the program awaits nothing.
LEMMA FlushedProgram ==
    ASSUME RuntimeInv, PassEnded, flushing
    PROVE  WaitsFor = 0 /\ todoCalls = <<>> /\ todoFutures = <<>>
<1>1. hi = 0 /\ depth # 0 /\ pos[1] = "done"
  BY DEF RuntimeInv, LoopInv, InPass, PassEnded, InLoop
<1>2. depth \in Frames /\ 1 \in Frames /\ ~(1 < depth)
  BY <1>1, FrameTypes, Constants DEF RuntimeInv, FrameInv
<1>3. depth = 1
  BY <1>2, FrameTypes
<1>4. fut[1] = 0
  BY <1>1, <1>2 DEF RuntimeInv, FrameInv
<1>5. QED
  BY <1>3, <1>4, BetweenVisits DEF WaitsFor, PassEnded, InLoop

\* A run starts.
LEMMA StartRunKeeps ==
    ASSUME RuntimeInv, StartRun
    PROVE  RuntimeInv' /\ WaitsFor = 0 /\ WaitsFor' = 0 /\ EventInv' /\ FlushInv'
<1>1. runs' \in 0..MaxRuns
  BY Constants DEF StartRun, RuntimeInv, TypeOK
<1>2. QED
  BY <1>1, StartKeeps DEF StartRun, InLoop, EventInv, FlushInv, InPass

\* A run ends after its flush.
LEMMA EndRunKeeps ==
    ASSUME RuntimeInv, EndRun
    PROVE  RuntimeInv' /\ WaitsFor = 0 /\ WaitsFor' = 0 /\ EventInv' /\ FlushInv'
<1>1. RuntimeInv' /\ WaitsFor = 0 /\ WaitsFor' = 0
  BY FlushedProgram, DestroyKeeps DEF EndRun
<1>2. EventInv' /\ FlushInv'
  BY DEF EndRun, EventInv, FlushInv, InPass
<1>3. QED
  BY <1>1, <1>2

\* ... and leaves nothing behind.
LEMMA EndRunFlushed ==
    ASSUME RuntimeInv, FlushInv, EndRun
    PROVE  /\ applied' = 1..issued'
           /\ \A e \in Executors : calls'[e] = <<>> /\ futures'[e] = <<>>
<1>1. UNCHANGED <<opVars, queueVars>> /\ WaitsFor = 0 /\ loop = "visit"
  BY FlushedProgram DEF EndRun, PassEnded, InLoop
<1>2. \A e \in Executors : calls[e] = <<>> /\ futures[e] = <<>>
  BY <1>1, FlushEnds DEF EndRun, RuntimeInv, AwaitInv, Pending
<1>3. \A e \in Executors : Outstanding(e) = {}
  BY <1>1, <1>2, BetweenVisits, EmptySequence
<1>4. ASSUME NEW n \in 1..issued
      PROVE  n \in applied
  <2>1. execOf[n] \in Executors
    BY IssuedBounds DEF RuntimeInv, TypeOK
  <2>2. QED
    BY <1>3, <2>1 DEF Outstanding, RuntimeInv, PromiseInv
<1>5. applied = 1..issued
  BY <1>4 DEF RuntimeInv, PromiseInv
<1>6. QED
  BY <1>1, <1>2, <1>5 DEF opVars, queueVars
-----------------------------------------------------------------------------
(* A rejected sheet. *)

\* After a rejection the loop is left, and no promise is still to be visited.
Rejected == TypeOK /\ lost # {} /\ loop = "out" /\ hi = 0 /\ todoFutures = <<>>

\* The operation that is rejected is the one the program waits for: a step of
\* ProgramEffects that abandons it and the drawing queued behind it, before the
\* program's end, and leaves no frame and no promise to visit.
LEMMA RejectionAbandons ==
    ASSUME RuntimeInv, CallThrows
    PROVE  [Effects!EffectsNext]_(Effects!effectVars) /\ Rejected' /\ pos[1] # "done"
<1> USE DEF RuntimeInv
<1>e. PICK e \in Executors : e = Order[at]
  BY Constants DEF CallThrows, InLoop, LoopInv
<1>S. PICK S : S = Remaining(todoCalls)
  OBVIOUS
<1>1. /\ loop = "calls" /\ e \in Drawing /\ e \notin Paired /\ at \in DOMAIN Order
      /\ todoCalls # <<>> /\ todoCalls \in Seq(Ops) /\ calls[e] = <<>>
      /\ Head(todoCalls) \in Remaining(futures[e])
      /\ lost' = lost \cup S /\ depth' = 0 /\ hi' = 0 /\ hi = 0 /\ loop' = "out"
      /\ UNCHANGED <<issued, execOf, applied, queueVars, fired, callerOf, at, todoFutures,
                     processed, flushing, runs>>
      /\ todoCalls' = <<>> /\ DestroyFrames
  BY <1>e, <1>S, Constants DEF CallThrows, InLoop, LoopInv, DestroyFrames, TypeOK
<1>2. Pending /\ futures[e] = <<WaitsFor>> /\ execOf[WaitsFor] = e /\ todoFutures = <<>>
  <2>1. futures[e] # <<>>
    BY <1>1, EmptySequence
  <2>2. QED
    BY <2>1 DEF AwaitInv
<1>3. WaitsFor \in S
  <2>1. WaitsFor \in Ops
    BY <1>2, PendingOperation
  <2>2. Head(todoCalls) = WaitsFor
    BY <1>1, <1>2, <2>1, OneElement
  <2>3. QED
    BY <1>S, <1>1, <2>2, TailSequence
<1>4. Outstanding(e) = S
  <2>1. InHand(e) = S
    BY <1>e, <1>S, <1>1 DEF InHand
  <2>2. QED
    BY <1>1, <2>1, EmptySequence DEF QueueInv
<1>5. \A n \in S : n \in Ops /\ n <= issued /\ n \notin applied \cup lost
  BY <1>4, IssuedBounds DEF Outstanding
<1>6. Effects!Abandon(S)
  BY <1>1, <1>3, <1>5 DEF Effects!Abandon, Effects!Settled, WaitsFor
<1>7. S \in SUBSET Ops
  BY <1>5
<1>8. [Effects!EffectsNext]_(Effects!effectVars)
  BY <1>6, <1>7 DEF Effects!EffectsNext
<1>9. TypeOK'
  <2>1. /\ lost' \subseteq Ops /\ orphans' \subseteq Ops
        /\ depth' \in 0..MaxDepth /\ lo' \in 0..MaxDepth /\ hi' \in 0..MaxDepth
        /\ pos' \in [Frames -> FramePos] /\ fut' \in [Frames -> 0..MaxOps]
    <3>1. lost' \subseteq Ops /\ orphans' \subseteq Ops
      BY <1>1, <1>7 DEF DestroyFrames, TypeOK
    <3>2. 0 \in 0..MaxDepth /\ 0 \in 0..MaxOps
      BY Constants
    <3>3. depth' = 0 /\ lo' = 0 /\ hi' = 0
      BY <1>1 DEF DestroyFrames
    <3>4. pos' = [f \in Frames |-> "none"] /\ fut' = [f \in Frames |-> 0]
      BY <1>1 DEF DestroyFrames
    <3>5. QED
      BY <3>1, <3>2, <3>3, <3>4 DEF FramePos
  <2>2. todoCalls' \in Seq(Ops) /\ loop' \in LoopPos
    BY <1>1, EmptySequence DEF LoopPos
  <2>3. QED
    BY <1>1, <2>1, <2>2 DEF TypeOK, queueVars
<1>10. pos[1] # "done"
  <2>1. depth \in Frames /\ fut[depth] # 0 /\ 1 \in Frames
    BY <1>2, PendingOperation, Constants
  <2>2. pos[depth] # "done"
    BY <2>1 DEF FrameInv
  <2>3. 1 < depth => pos[1] # "done"
    BY <2>1 DEF FrameInv
  <2>4. QED
    BY <2>1, <2>2, <2>3, FrameTypes
<1>11. QED
  BY <1>1, <1>2, <1>3, <1>8, <1>9, <1>10 DEF Rejected

\* From there no frame runs and no executor is visited.
LEMMA RejectedIsFinal ==
    ASSUME Rejected
    PROVE  /\ ~StartRun /\ ~FrameStep /\ ~ChildStep /\ ~PassStep /\ ~EndRun /\ ~PassEnded
           /\ ~Running("run")
<1>1. ~Running("run") /\ ~FrameStep /\ ~ChildStep
  BY DEF Rejected, FrameStep, ChildStep, Call, Draw, Finish, AwaitReady, AwaitSuspend, Yield,
         CallChild, ChildReady, ChildDrive, Running
<1>2. ~PassStep
  BY DEF Rejected, PassStep, BeginPass, Visit, RunCall, MoveFutures, RunFuture, Leave,
         CallThrows, InLoop, TurnOfFuture
<1>3. ~PassEnded /\ ~EndRun /\ ~StartRun
  BY DEF Rejected, EndRun, PassEnded, InLoop, StartRun
<1>4. QED
  BY <1>1, <1>2, <1>3
=============================================================================
