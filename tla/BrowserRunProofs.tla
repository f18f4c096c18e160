--------------------------- MODULE BrowserRunProofs ---------------------------
(***************************************************************************)
(* Proofs about BrowserRun, for any program, any keys and stops and any    *)
(* number of runs, operations, calls and nested frames, when Run is not    *)
(* clicked while a run goes on (OneClick).                                 *)
(*                                                                         *)
(* Then only the newest run is at work, the frames of its instance form a  *)
(* chain, only the deepest one awaits an operation, and every table entry, *)
(* queued operation, waiter and key in flight belongs to that operation.   *)
(***************************************************************************)
EXTENDS BrowserRun, TLAPS

OneClick == DoubleClick = FALSE

AlivePhases == {"entry", "loop", "op", "after", "flush", "delay"}

\* The newest run is at work, with its instance bound.
Alive == clicks # 0 /\ pc[clicks] \in AlivePhases

Positions == {"none", "run", "check", "calling", "driving", "suspended", "done"}
Entries == [caller : Frames \cup {0}, done : BOOLEAN, op : Ops \cup {0},
            coro : Frames \cup {0}, result : Keys \cup {0}]

RunTypes ==
    /\ clicks \in 0..MaxRuns /\ turn \in 0..MaxRuns
    /\ pc \in [Runs -> Phases] /\ root \in [Runs -> Nat] /\ sig \in [Runs -> Nat]
    /\ held \in [Runs -> [h : Nat, n : Nat]]
TableTypes ==
    /\ bound \in 0..MaxRuns /\ nextH \in Nat \ {0}
    /\ DOMAIN table \subseteq 1..(nextH - 1)
    /\ \A h \in DOMAIN table : table[h] \in Entries
KeyTypes ==
    /\ keyQueue \in Seq(Keys) /\ answer \in [Ops -> Keys \cup {0}]
    /\ typed \in 0..MaxKeys /\ base \in 0..typed /\ got \in Seq(Keys)
FrameTypes ==
    /\ pos \in [Runs -> [Frames -> Positions]]
    /\ fut \in [Runs -> [Frames -> Nat]]
    /\ lo \in 0..MaxDepth /\ hi \in 0..MaxDepth
OpTypes ==
    /\ issued \in 0..MaxOps /\ kind \in [Ops -> Kinds] /\ owner \in [Ops -> 0..MaxRuns]
    /\ applied \subseteq Ops

Types == RunTypes /\ TableTypes /\ KeyTypes /\ FrameTypes /\ OpTypes

\* Older runs have ended, newer ones have not begun; the newest has the stack
\* in some phases, and the frames only while it is in its entry or a resume.
PageInv ==
    /\ \A r \in Runs : /\ r < clicks => pc[r] = "ended"
                       /\ r > clicks => pc[r] = "none"
    /\ clicks # 0 => /\ pc[clicks] # "none"
                     /\ pc[clicks] \in AlivePhases \cup {"finally"} => bound = clicks
                     /\ pc[clicks] = "compile" => bound < clicks
                     /\ pc[clicks] \in {"entry", "loop", "after", "finally"} => turn = clicks
                     /\ pc[clicks] \in {"op", "delay"} => sig[clicks] = clicks
    /\ bound <= clicks
    /\ turn # 0 => turn = clicks /\ pc[clicks] \in {"entry", "loop", "after", "finally"}
    /\ hi # 0 => turn # 0 /\ pc[clicks] \in {"entry", "after"}
    /\ lo = 0 <=> hi = 0
    /\ \A n \in 1..issued : owner[n] <= bound
    /\ \A r \in Runs : r > bound => \A f \in Frames : pos[r][f] = "none"

P(f) == pos[bound][f]
H(f) == fut[bound][f]

\* Frames 1..d exist.  Those from lo to hi are on the native stack, hi runs,
\* the others wait for the frame above; the deepest may be done.
ChainInv(d) ==
    /\ lo <= hi /\ hi <= d
    /\ \A f \in Frames :
         /\ P(f) = "none" <=> f > d
         /\ f < d => P(f) \in {"suspended", "check", "calling", "driving"}
         /\ P(f) \in {"calling", "driving"} <=> lo <= f /\ f < hi
         /\ P(f) \in {"run", "check"} => f = hi

\* A frame that awaits the one above holds its future; the loop holds frame 1's.
HandleInv(d) ==
    /\ \A f \in Frames : f < d /\ P(f) \in {"suspended", "check", "driving"} =>
         H(f) \in DOMAIN table /\ table[H(f)].coro = f + 1 /\ table[H(f)].result = 0
    /\ pc[bound] # "entry" => root[bound] \in DOMAIN table /\ table[root[bound]].coro = 1

Awaits(d)  == P(d) \in {"check", "suspended"}
Op(d)      == table[H(d)].op
Blocked(d) == Awaits(d) /\ ~table[H(d)].done

\* The deepest frame awaits the only operation that may not have taken effect,
\* and that is queued, or in the hands of the loop.
OpInv(d) ==
    /\ Awaits(d) => /\ H(d) \in DOMAIN table /\ table[H(d)].coro = 0
                    /\ Op(d) \in 1..issued
    /\ P(d) = "suspended" => table[H(d)].caller = d /\ Blocked(d)
    /\ \A n \in 1..issued : owner[n] = bound /\ n \notin applied => Blocked(d) /\ n = Op(d)
    /\ pending = IF Blocked(d) /\ pc[bound] # "op" THEN <<[h |-> H(d), n |-> Op(d)]>> ELSE <<>>
    /\ pc[bound] = "op" => Blocked(d) /\ held[bound] = [h |-> H(d), n |-> Op(d)]

Read == base + Len(got)

\* The keys since the reset: those read, j in flight, those in the queue.
KeysInv(j) ==
    /\ Read + j + Len(keyQueue) = typed
    /\ \A i \in DOMAIN got : got[i] = base + i
    /\ \A i \in DOMAIN keyQueue : keyQueue[i] = Read + j + i
    /\ \A n \in Ops : /\ answer[n] <= Read + j
                      /\ answer[n] # 0 => n <= issued /\ kind[n] = "key"
    /\ \A h \in DOMAIN table : table[h].result <= Read + j
    /\ j = 1 => \/ \E n \in Ops : answer[n] = Read + 1
                \/ \E h \in DOMAIN table : table[h].result = Read + 1

\* The key in flight is the one the awaited operation is or will be answered;
\* an operation still waiting for one is the only waiter, and no key is queued.
FlightInv(d, j) ==
    /\ j = 1 => Awaits(d)
    /\ Awaits(d) => LET v == IF table[H(d)].done THEN table[H(d)].result ELSE answer[Op(d)]
                    IN v = IF j = 1 THEN Read + 1 ELSE 0
    /\ Blocked(d) => table[H(d)].result = 0
    /\ codeWaiters = IF Blocked(d) /\ kind[Op(d)] = "key" /\ j = 0 THEN <<Op(d)>> ELSE <<>>
    /\ codeWaiters # <<>> => keyQueue = <<>>

RunInv(d, j) == ChainInv(d) /\ HandleInv(d) /\ OpInv(d) /\ FlightInv(d, j)

LiveInv(j) == \E d \in Frames : RunInv(d, j)

\* No run is at work: nobody waits for a key, unless Stop is about to say so.
DeadInv(j) ==
    /\ hi = 0
    /\ (j = 0 /\ codeWaiters = <<>>) \/ (clicks # 0 /\ pc[clicks] = "finally" /\ StopRequested)

IInv ==
    /\ Types
    /\ PageInv
    /\ ~astray
    /\ \E j \in {0, 1} : KeysInv(j) /\ IF Alive THEN LiveInv(j) ELSE DeadInv(j)
-----------------------------------------------------------------------------
(* What follows from the invariant. *)

\* Two sequences of consecutive numbers, one after the other.
LEMMA Consecutive ==
    ASSUME NEW s \in Seq(Keys), NEW u \in Seq(Keys), NEW b \in Nat,
           \A i \in DOMAIN s : s[i] = b + i,
           \A i \in DOMAIN u : u[i] = b + Len(s) + i
    PROVE  /\ s \o u \in Seq(Keys) /\ Len(s \o u) = Len(s) + Len(u)
           /\ \A i \in DOMAIN (s \o u) : (s \o u)[i] = b + i
<1>1. s \o u \in Seq(Keys) /\ Len(s \o u) = Len(s) + Len(u)
  OBVIOUS
<1>2. \A i \in 1..(Len(s) + Len(u)) : (s \o u)[i] = b + i
  <2>1. \A i \in 1..(Len(s) + Len(u)) :
           (s \o u)[i] = IF i <= Len(s) THEN s[i] ELSE u[i - Len(s)]
    OBVIOUS
  <2>2. (\A i \in 1..Len(s) : s[i] = b + i) /\ (\A i \in 1..Len(u) : u[i] = b + Len(s) + i)
    OBVIOUS
  <2>3. Len(s) \in Nat /\ Len(u) \in Nat
    OBVIOUS
  <2>4. QED
    BY <2>1, <2>2, <2>3
<1>3. QED
  BY <1>1, <1>2

\* A sequence of consecutive numbers is the function that counts them.
LEMMA Counting ==
    ASSUME NEW s \in Seq(Keys), NEW b \in Nat, \A i \in DOMAIN s : s[i] = b + i
    PROVE  s = [k \in 1..Len(s) |-> b + k]
OBVIOUS

\* While frames are on the stack, the newest run executes in its instance.
LEMMA OnStack ==
    ASSUME IInv, hi # 0
    PROVE  /\ Alive /\ clicks \in Runs /\ bound = clicks /\ turn = clicks
           /\ pc[bound] \in {"entry", "after"} /\ hi \in Frames /\ lo \in Frames
<1>1. turn = clicks /\ clicks # 0 /\ pc[clicks] \in {"entry", "after"}
  BY DEF IInv, PageInv
<1>2. clicks \in Runs /\ Alive /\ bound = clicks
  BY <1>1 DEF IInv, PageInv, Types, RunTypes, Runs, Alive, AlivePhases
<1>3. hi \in Frames /\ lo \in Frames
  BY DEF IInv, PageInv, Types, FrameTypes, Frames
<1>4. QED
  BY <1>1, <1>2, <1>3

\* A frame that runs the program's own code is the deepest one.
LEMMA OwnCode ==
    ASSUME NEW d \in Frames, ChainInv(d), hi \in Frames, P(hi) \in {"run", "done"}
    PROVE  hi = d
BY DEF ChainInv, Frames

\* Where the program is in its own code, its operations have taken effect.
LEMMA InvAwaited == IInv => AwaitedIsApplied
<1> SUFFICES ASSUME IInv, Running("run"), NEW n \in 1..issued, owner[n] = bound
             PROVE  n \in applied
  BY DEF AwaitedIsApplied
<1>1. hi # 0 /\ hi \in Frames /\ P(hi) = "run" /\ Alive
  BY OnStack DEF Running, P
<1>2. PICK d \in Frames : ChainInv(d) /\ OpInv(d)
  BY <1>1 DEF IInv, LiveInv, RunInv
<1>3. hi = d
  BY <1>1, <1>2, OwnCode
<1>4. QED
  BY <1>1, <1>2, <1>3 DEF OpInv, Blocked, Awaits

\* The keys read, in flight and in the queue are those typed, in order.
LEMMA InvKeys == IInv => KeysInOrder
<1> SUFFICES ASSUME IInv PROVE KeysInOrder
  OBVIOUS
<1>1. PICK j \in {0, 1} : KeysInv(j)
  BY DEF IInv
<1>2. /\ got \in Seq(Keys) /\ keyQueue \in Seq(Keys) /\ base \in Nat /\ typed \in Nat
      /\ Len(got) \in Nat /\ Read \in Nat /\ Read = base + Len(got)
  <2>1. got \in Seq(Keys) /\ keyQueue \in Seq(Keys) /\ base \in Nat /\ typed \in Nat
    BY BrowserAssumption DEF IInv, Types, KeyTypes, BrowserAssumption
  <2>2. QED
    BY <2>1 DEF Read
<1>3. \A i \in DOMAIN got : got[i] = base + i
  BY <1>1 DEF KeysInv
<1>4. \A k \in Nat : k > base /\ k <= Read => \E i \in DOMAIN got : got[i] = k
  <2> TAKE k \in Nat
  <2> HAVE k > base /\ k <= Read
  <2>1. k - base \in DOMAIN got /\ base + (k - base) = k
    BY <1>2
  <2>2. QED
    BY <1>3, <2>1
<1>5. ASSUME NEW k \in InFlight PROVE k = Read + 1 /\ j = 1
  <2>1. k \in Nat /\ k <= Read + j
    <3>1. (\A n \in Ops : answer[n] \in Keys \cup {0})
          /\ \A h \in DOMAIN table : table[h].result \in Keys \cup {0}
      BY DEF IInv, Types, TableTypes, KeyTypes, Entries
    <3>2. k \in Nat
      BY <1>5, <3>1, BrowserAssumption DEF InFlight, Keys, BrowserAssumption
    <3>3. QED
      BY <1>1, <1>5, <3>2 DEF InFlight, KeysInv
  <2>2. k > base /\ ~\E i \in DOMAIN got : got[i] = k
    BY <1>5 DEF InFlight
  <2>3. ~(k <= Read)
    BY <1>4, <2>1, <2>2
  <2>4. QED
    BY <1>2, <2>1, <2>3
<1>6. j = 1 => Read + 1 \in InFlight
  <2> HAVE j = 1
  <2>1. Read + 1 \in {answer[n] : n \in Ops} \cup {table[h].result : h \in DOMAIN table}
    BY <1>1 DEF KeysInv
  <2>2. Read + 1 # 0 /\ Read + 1 > base
    BY <1>2
  <2>3. \A i \in DOMAIN got : got[i] # Read + 1
    BY <1>2, <1>3
  <2>4. QED
    BY <2>1, <2>2, <2>3 DEF InFlight
<1> DEFINE flight == IF j = 1 THEN <<Read + 1>> ELSE <<>>
<1>7. /\ flight \in {<<>>} \cup {<<k>> : k \in InFlight}
      /\ InFlight \subseteq {flight[i] : i \in DOMAIN flight}
  <2>1. flight \in {<<>>} \cup {<<k>> : k \in InFlight}
    BY <1>6
  <2>2. ASSUME NEW k \in InFlight PROVE \E i \in DOMAIN flight : flight[i] = k
    <3>1. k = Read + 1 /\ j = 1
      BY <1>5, <2>2
    <3>2. 1 \in DOMAIN flight /\ flight[1] = k
      BY <3>1
    <3>3. QED
      BY <3>2
  <2>3. QED
    BY <2>1, <2>2
<1>8. /\ flight \in Seq(Keys) /\ Len(flight) = j
      /\ \A i \in DOMAIN flight : flight[i] = base + Len(got) + i
  <2>1. \A k \in InFlight : k \in Keys
    BY DEF IInv, Types, TableTypes, KeyTypes, Entries, InFlight
  <2>2. QED
    BY <1>2, <1>6, <2>1
<1> DEFINE front == got \o flight
           all   == front \o keyQueue
<1> HIDE DEF flight
<1>9. /\ front \in Seq(Keys) /\ Len(front) = Len(got) + j
      /\ \A i \in DOMAIN front : front[i] = base + i
  BY <1>2, <1>3, <1>8, Consecutive
<1>10. \A i \in DOMAIN keyQueue : keyQueue[i] = base + Len(front) + i
  BY <1>1, <1>2, <1>9 DEF KeysInv
<1> HIDE DEF front
<1>11. /\ all \in Seq(Keys) /\ Len(all) = Len(front) + Len(keyQueue)
       /\ \A i \in DOMAIN all : all[i] = base + i
  BY <1>2, <1>9, <1>10, Consecutive
<1>12. Len(all) = typed - base
  BY <1>1, <1>2, <1>9, <1>11 DEF KeysInv
<1> HIDE DEF all
<1>13. all = [k \in 1..(typed - base) |-> base + k]
  BY <1>2, <1>11, <1>12, Counting
<1>14. QED
  BY <1>7, <1>13 DEF KeysInOrder, front, all
-----------------------------------------------------------------------------
(* What a step of a frame, and of the loop, has to show. *)

\* Groups of variables that a step leaves alone keep their types.
LEMMA TypesStay ==
    /\ RunTypes /\ UNCHANGED <<clicks, runVars>> => RunTypes'
    /\ TableTypes /\ UNCHANGED <<bound, table, nextH>> => TableTypes'
    /\ KeyTypes /\ UNCHANGED <<keyQueue, answer, typed, base, got>> => KeyTypes'
    /\ FrameTypes /\ UNCHANGED <<pos, fut, lo, hi>> => FrameTypes'
    /\ OpTypes /\ UNCHANGED opVars => OpTypes'
<1>1. RunTypes /\ UNCHANGED <<clicks, runVars>> => RunTypes'
  BY DEF RunTypes, runVars
<1>2. TableTypes /\ UNCHANGED <<bound, table, nextH>> => TableTypes'
  BY DEF TableTypes
<1>3. KeyTypes /\ UNCHANGED <<keyQueue, answer, typed, base, got>> => KeyTypes'
  BY DEF KeyTypes
<1>4. FrameTypes /\ UNCHANGED <<pos, fut, lo, hi>> => FrameTypes'
  BY DEF FrameTypes
<1>5. OpTypes /\ UNCHANGED opVars => OpTypes'
  BY DEF OpTypes, opVars
<1>6. QED
  BY <1>1, <1>2, <1>3, <1>4, <1>5

\* The program does not touch the page, and its operations are its own.
LEMMA ProgramPage ==
    ASSUME IInv, hi # 0, UNCHANGED <<pageVars, runVars, bound>>,
           lo' = 0 <=> hi' = 0, \A n \in 1..issued' : owner'[n] <= bound,
           \A r \in Runs : r > bound => pos'[r] = pos[r]
    PROVE  PageInv' /\ Alive'
<1>1. Alive
  BY OnStack
<1>2. UNCHANGED <<clicks, turn, pc, sig>>
  BY DEF pageVars, runVars
<1>3. turn # 0 /\ pc[clicks] \in {"entry", "after"}
  BY DEF IInv, PageInv
<1>4. PageInv'
  BY <1>2, <1>3 DEF IInv, PageInv
<1>5. QED
  BY <1>1, <1>2, <1>4 DEF Alive

\* The invariant after a step of a run that is, and stays, alive.
LEMMA StillAlive ==
    ASSUME Types', PageInv', Alive', ~astray', NEW j \in {0, 1}, NEW d \in Frames,
           KeysInv(j)', RunInv(d, j)'
    PROVE  IInv'
BY DEF IInv, LiveInv

\* ... and after a step that leaves no run at work.
LEMMA NotAlive ==
    ASSUME Types', PageInv', ~Alive', ~astray', NEW j \in {0, 1}, KeysInv(j)', DeadInv(j)'
    PROVE  IInv'
BY DEF IInv

\* A live run's own part of the invariant.
LEMMA LivePart ==
    ASSUME IInv, Alive
    PROVE  \E j \in {0, 1} : \E d \in Frames : KeysInv(j) /\ RunInv(d, j)
BY DEF IInv, LiveInv

\* While the deepest frame awaits nothing, no operation, key or waiter is left.
LEMMA NothingAwaited ==
    ASSUME NEW d \in Frames, NEW j \in {0, 1}, RunInv(d, j), ~Awaits(d)
    PROVE  /\ j = 0 /\ pending = <<>> /\ codeWaiters = <<>> /\ pc[bound] # "op"
           /\ \A n \in 1..issued : owner[n] = bound => n \in applied
BY DEF RunInv, OpInv, FlightInv, Blocked

\* The keys, as long as their variables and the results do not change.
LEMMA KeysStay ==
    ASSUME NEW j \in {0, 1}, KeysInv(j),
           UNCHANGED <<keyQueue, answer, typed, base, got>>,
           \A n \in Ops : n <= issued /\ kind[n] = "key" => n <= issued' /\ kind'[n] = "key",
           \A h \in DOMAIN table' : \/ table'[h].result = 0
                                    \/ h \in DOMAIN table /\ table'[h].result = table[h].result,
           j = 1 => \A h \in DOMAIN table :
                      \/ table[h].result = 0
                      \/ h \in DOMAIN table' /\ table'[h].result = table[h].result,
           Types
    PROVE  KeysInv(j)'
<1>1. Read' = Read /\ Read \in Nat
  BY BrowserAssumption DEF Read, Types, KeyTypes, BrowserAssumption
<1>2. j = 1 => \/ \E n \in Ops : answer'[n] = Read + 1
               \/ \E h \in DOMAIN table' : table'[h].result = Read + 1
  BY <1>1 DEF KeysInv
<1>3. \A h \in DOMAIN table' : table'[h].result <= Read + j
  BY <1>1 DEF KeysInv
<1>4. QED
  BY <1>1, <1>2, <1>3 DEF KeysInv
-----------------------------------------------------------------------------
(* Each action of the program preserves the invariant. *)

\* A running frame comes to another place in its own code.
LEMMA FrameMoves ==
    ASSUME FrameTypes, NEW b \in Runs, NEW f \in Frames, NEW p \in Positions,
           pos' = [pos EXCEPT ![b][f] = p]
    PROVE  /\ pos' \in [Runs -> [Frames -> Positions]]
           /\ \A r \in Runs : r # b => pos'[r] = pos[r]
           /\ \A g \in Frames : pos'[b][g] = IF g = f THEN p ELSE pos[b][g]
BY DEF FrameTypes

\* A handle is noted for a frame.
LEMMA FutureNoted ==
    ASSUME FrameTypes, NEW b \in Runs, NEW f \in Frames, NEW h \in Nat,
           fut' = [fut EXCEPT ![b][f] = h]
    PROVE  /\ fut' \in [Runs -> [Frames -> Nat]]
           /\ \A g \in Frames : fut'[b][g] = IF g = f THEN h ELSE fut[b][g]
BY DEF FrameTypes

\* An entry is added to the table, or replaced in it.
LEMMA EntryPut ==
    ASSUME TableTypes, NEW h \in 1..nextH, NEW e \in Entries, table' = Put(h, e)
    PROVE  /\ DOMAIN table' = DOMAIN table \cup {h}
           /\ \A x \in DOMAIN table' : table'[x] = IF x = h THEN e ELSE table[x]
           /\ \A x \in DOMAIN table' : table'[x] \in Entries
           /\ h \in DOMAIN table => DOMAIN table' = DOMAIN table
           /\ nextH \notin DOMAIN table
BY DEF TableTypes, Put

\* An entry is dropped from the table.
LEMMA EntryDropped ==
    ASSUME TableTypes, NEW h, table' = Drop(h)
    PROVE  /\ DOMAIN table' = DOMAIN table \ {h}
           /\ \A x \in DOMAIN table' : table'[x] = table[x]
           /\ \A x \in DOMAIN table' : table'[x] \in Entries
BY DEF TableTypes, Drop

\* The frame that runs the program's own code is the deepest one, and nothing
\* is under way.
LEMMA InOwnCode ==
    ASSUME IInv, Running("run")
    PROVE  /\ hi # 0 /\ hi \in Frames /\ bound \in Runs /\ Alive /\ P(hi) = "run"
           /\ pc[bound] # "op" /\ KeysInv(0) /\ RunInv(hi, 0)
           /\ ~Awaits(hi) /\ pending = <<>> /\ codeWaiters = <<>>
           /\ \A n \in 1..issued : owner[n] = bound => n \in applied
<1>1. hi # 0 /\ hi \in Frames /\ bound \in Runs /\ Alive /\ P(hi) = "run"
  BY OnStack DEF Running, P
<1>2. PICK j \in {0, 1}, d \in Frames : KeysInv(j) /\ RunInv(d, j)
  BY <1>1, LivePart
<1>3. hi = d
  BY <1>1, <1>2, OwnCode DEF RunInv
<1>4. ~Awaits(d)
  BY <1>1, <1>3 DEF Awaits
<1>5. /\ j = 0 /\ pending = <<>> /\ codeWaiters = <<>> /\ pc[bound] # "op"
      /\ \A n \in 1..issued : owner[n] = bound => n \in applied
  BY <1>2, <1>4, NothingAwaited
<1>6. QED
  BY <1>1, <1>2, <1>3, <1>4, <1>5

\* The frame finishes.
LEMMA FinishInv == ASSUME IInv, Finish PROVE IInv'
<1>1. /\ Running("run")
      /\ pos' = [pos EXCEPT ![bound][hi] = "done"]
      /\ UNCHANGED <<pageVars, runVars, tableVars, keyVars, fut, lo, hi, astray, opVars, calls>>
      /\ bound' = bound
  BY DEF Finish, Goes, tableVars
<1>2. /\ hi # 0 /\ hi \in Frames /\ bound \in Runs /\ pc[bound] # "op"
      /\ KeysInv(0) /\ RunInv(hi, 0) /\ pending = <<>> /\ codeWaiters = <<>>
      /\ \A n \in 1..issued : owner[n] = bound => n \in applied
  BY <1>1, InOwnCode
<1>3. /\ pos' \in [Runs -> [Frames -> Positions]]
      /\ \A r \in Runs : r # bound => pos'[r] = pos[r]
      /\ \A g \in Frames : P(g)' = IF g = hi THEN "done" ELSE P(g)
  <2>1. "done" \in Positions /\ FrameTypes
    BY DEF Positions, IInv, Types
  <2>2. QED
    BY <1>1, <1>2, <2>1, FrameMoves DEF P
<1>4. Types'
  BY <1>1, <1>3, TypesStay DEF IInv, Types, FrameTypes, tableVars, keyVars, pageVars
<1>5. PageInv' /\ Alive'
  <2>1. \A n \in 1..issued' : owner'[n] <= bound
    BY <1>1 DEF IInv, PageInv, opVars
  <2>2. lo' = 0 <=> hi' = 0
    BY <1>1 DEF IInv, PageInv
  <2>3. \A r \in Runs : r > bound => pos'[r] = pos[r]
    BY <1>2, <1>3 DEF Runs
  <2>4. QED
    BY <1>1, <1>2, <2>1, <2>2, <2>3, ProgramPage
<1>6. KeysInv(0)'
  BY <1>1, <1>2, KeysStay DEF IInv, keyVars, tableVars, opVars
<1>7. ~Awaits(hi)' /\ ~Blocked(hi)'
  BY <1>1, <1>2, <1>3 DEF Awaits, Blocked
<1>8. RunInv(hi, 0)'
  <2>1. ChainInv(hi)'
    BY <1>1, <1>2, <1>3 DEF RunInv, ChainInv, Frames
  <2>2. HandleInv(hi)'
    BY <1>1, <1>2, <1>3 DEF RunInv, HandleInv, H, tableVars, runVars
  <2>3. OpInv(hi)'
    BY <1>1, <1>2, <1>3, <1>7 DEF OpInv, tableVars, runVars, opVars
  <2>4. FlightInv(hi, 0)'
    BY <1>1, <1>2, <1>7 DEF FlightInv, keyVars
  <2>5. QED
    BY <2>1, <2>2, <2>3, <2>4 DEF RunInv
<1>9. QED
  BY <1>1, <1>2, <1>4, <1>5, <1>6, <1>8, StillAlive DEF IInv

\* keyboard_reset: what was typed is forgotten, and nobody waits.
LEMMA KeyboardResetInv == ASSUME IInv, KeyboardReset PROVE IInv'
<1>1. /\ Running("run")
      /\ keyQueue' = <<>> /\ codeWaiters' = <<>> /\ base' = typed /\ got' = <<>>
      /\ UNCHANGED <<pageVars, runVars, tableVars, answer, typed, frameVars, opVars, calls>>
      /\ UNCHANGED <<bound, table, nextH, pending, pos, fut, lo, hi, astray>>
  BY DEF KeyboardReset, ResetKeyboard, tableVars, frameVars
<1>2. /\ hi # 0 /\ hi \in Frames /\ bound \in Runs /\ pc[bound] # "op" /\ P(hi) = "run"
      /\ KeysInv(0) /\ RunInv(hi, 0) /\ pending = <<>> /\ codeWaiters = <<>>
      /\ \A n \in 1..issued : owner[n] = bound => n \in applied
  BY <1>1, InOwnCode
<1>3. KeyTypes'
  <2>1. <<>> \in Seq(Keys)
    OBVIOUS
  <2>2. QED
    BY <1>1, <2>1, BrowserAssumption DEF IInv, Types, KeyTypes, BrowserAssumption
<1>4. Types'
  BY <1>1, <1>3, TypesStay DEF IInv, Types, pageVars
<1>5. PageInv' /\ Alive'
  <2>1. \A n \in 1..issued' : owner'[n] <= bound
    BY <1>1 DEF IInv, PageInv, opVars
  <2>2. lo' = 0 <=> hi' = 0
    BY <1>1 DEF IInv, PageInv
  <2>3. QED
    BY <1>1, <1>2, <2>1, <2>2, ProgramPage
<1>6. KeysInv(0)'
  <2>1. Read' = typed /\ typed \in Nat /\ Read + Len(keyQueue) = typed
        /\ Len(keyQueue) \in Nat /\ Read \in Nat
    BY <1>1, <1>2, BrowserAssumption
    DEF Read, KeysInv, IInv, Types, KeyTypes, BrowserAssumption
  <2>2. \A n \in Ops : /\ answer[n] <= Read /\ answer[n] \in Nat
                       /\ answer[n] # 0 => n <= issued /\ kind[n] = "key"
    BY <1>2, <2>1, BrowserAssumption
    DEF KeysInv, IInv, Types, KeyTypes, Keys, BrowserAssumption
  <2>3. \A h \in DOMAIN table : table[h].result <= Read /\ table[h].result \in Nat
    BY <1>2, <2>1, BrowserAssumption
    DEF KeysInv, IInv, Types, TableTypes, Entries, Keys, BrowserAssumption
  <2>4. QED
    BY <1>1, <2>1, <2>2, <2>3 DEF KeysInv, opVars
<1>7. ~Awaits(hi)' /\ ~Blocked(hi)'
  BY <1>1, <1>2 DEF Awaits, Blocked, P
<1>8. RunInv(hi, 0)'
  <2>1. ChainInv(hi)'
    BY <1>1, <1>2 DEF RunInv, ChainInv, P
  <2>2. HandleInv(hi)'
    BY <1>1, <1>2 DEF RunInv, HandleInv, H, P, runVars
  <2>3. OpInv(hi)'
    BY <1>1, <1>2, <1>7 DEF OpInv, P, runVars, opVars
  <2>4. FlightInv(hi, 0)'
    BY <1>1, <1>7 DEF FlightInv
  <2>5. QED
    BY <2>1, <2>2, <2>3, <2>4 DEF RunInv
<1>9. QED
  BY <1>1, <1>2, <1>4, <1>5, <1>6, <1>8, StillAlive DEF IInv

\* A coroutine is called: one more frame, on top.
LEMMA CallChildInv == ASSUME IInv, CallChild PROVE IInv'
<1>1. /\ Running("run") /\ hi < MaxDepth
      /\ pos' = [pos EXCEPT ![bound][hi] = "calling", ![bound][hi + 1] = "run"]
      /\ hi' = hi + 1
      /\ UNCHANGED <<pageVars, runVars, tableVars, keyVars, fut, lo, astray, opVars>>
      /\ UNCHANGED <<bound, table, nextH, pending>>
  BY DEF CallChild, tableVars
<1>2. /\ hi # 0 /\ hi \in Frames /\ bound \in Runs /\ pc[bound] # "op"
      /\ KeysInv(0) /\ RunInv(hi, 0) /\ pending = <<>> /\ codeWaiters = <<>>
      /\ \A n \in 1..issued : owner[n] = bound => n \in applied
      /\ lo \in Frames
  BY <1>1, InOwnCode, OnStack
<1>3. PICK d \in Frames : d = hi /\ RunInv(d, 0)
  BY <1>2
<1>4. PICK c \in Frames : c = d + 1
  BY <1>1, <1>2, <1>3, BrowserAssumption DEF Frames, BrowserAssumption
<1>5. /\ pos' \in [Runs -> [Frames -> Positions]]
      /\ \A r \in Runs : r # bound => pos'[r] = pos[r]
      /\ \A g \in Frames : P(g)' = IF g = d THEN "calling" ELSE IF g = c THEN "run" ELSE P(g)
  <2>1. pos' = [pos EXCEPT ![bound][d] = "calling", ![bound][c] = "run"] /\ c # d
        /\ "calling" \in Positions /\ "run" \in Positions
        /\ pos \in [Runs -> [Frames -> Positions]] /\ bound' = bound /\ bound \in Runs
    BY <1>1, <1>2, <1>3, <1>4 DEF IInv, Types, FrameTypes, Positions, Frames
  <2>2. QED
    BY <2>1 DEF P
<1>6. Types'
  <2>1. FrameTypes'
    <3>1. fut' \in [Runs -> [Frames -> Nat]] /\ lo' \in 0..MaxDepth
      BY <1>1 DEF IInv, Types, FrameTypes
    <3>2. hi' \in 0..MaxDepth
      BY <1>1, <1>3, <1>4 DEF Frames
    <3>3. QED
      BY <1>5, <3>1, <3>2 DEF FrameTypes
  <2>2. QED
    BY <1>1, <2>1, TypesStay DEF IInv, Types, keyVars, pageVars
<1>7. PageInv' /\ Alive'
  <2>1. \A n \in 1..issued' : owner'[n] <= bound
    BY <1>1 DEF IInv, PageInv, opVars
  <2>2. lo' = 0 <=> hi' = 0
    BY <1>1, <1>2 DEF Frames
  <2>3. \A r \in Runs : r > bound => pos'[r] = pos[r]
    BY <1>2, <1>5 DEF Runs
  <2>4. QED
    BY <1>1, <1>2, <2>1, <2>2, <2>3, ProgramPage
<1>8. KeysInv(0)'
  BY <1>1, <1>2, KeysStay DEF IInv, keyVars, opVars
<1>9. P(c)' = "run" /\ ~Awaits(c)' /\ ~Blocked(c)'
  <2>1. c # d
    BY <1>4 DEF Frames
  <2>2. P(c)' = "run"
    BY <1>5, <2>1
  <2>3. QED
    BY <2>2 DEF Awaits, Blocked
<1>10. RunInv(c, 0)'
  <2>1. ChainInv(c)'
    <3>1. hi' = c /\ lo' = lo /\ hi = d /\ ChainInv(d)
      BY <1>1, <1>3, <1>4 DEF RunInv
    <3>2. QED
      BY <1>2, <1>4, <1>5, <3>1 DEF ChainInv, Frames
  <2>2. HandleInv(c)'
    <3>1. \A f \in Frames : f < c /\ P(f)' \in {"suspended", "check", "driving"} =>
            f < d /\ P(f)' = P(f)
      BY <1>4, <1>5 DEF Frames
    <3>2. HandleInv(d) /\ pc' = pc /\ root' = root /\ \A f \in Frames : H(f)' = H(f)
      BY <1>1, <1>3 DEF RunInv, H, runVars
    <3>3. QED
      BY <1>1, <3>1, <3>2 DEF HandleInv
  <2>3. OpInv(c)'
    <3>1. UNCHANGED <<pc, held, issued, owner, applied, pending, bound>>
      BY <1>1 DEF runVars, opVars
    <3>2. QED
      BY <1>2, <1>9, <3>1 DEF OpInv
  <2>4. FlightInv(c, 0)'
    BY <1>1, <1>2, <1>9 DEF FlightInv, keyVars
  <2>5. QED
    BY <2>1, <2>2, <2>3, <2>4 DEF RunInv
<1>11. QED
  BY <1>1, <1>6, <1>7, <1>8, <1>10, StillAlive DEF IInv

\* A run-time error: the frames are gone and the run is about to end.
LEMMA TrapInv == ASSUME IInv, Trap PROVE IInv'
<1>1. /\ Running("run")
      /\ pos' = [pos EXCEPT ![bound] = [f \in Frames |-> "none"]]
      /\ lo' = 0 /\ hi' = 0
      /\ pc' = [pc EXCEPT ![turn] = "finally"]
      /\ UNCHANGED <<pageVars, turn, root, held, sig, tableVars, keyVars, fut, astray, opVars, calls>>
      /\ UNCHANGED <<clicks, bound, table, nextH>>
  BY DEF Trap, tableVars, pageVars
<1>2. /\ hi # 0 /\ bound \in Runs /\ KeysInv(0) /\ codeWaiters = <<>>
      /\ clicks \in Runs /\ bound = clicks /\ turn = clicks
  BY <1>1, InOwnCode, OnStack
<1>3. pc'[clicks] = "finally" /\ \A r \in Runs \ {clicks} : pc'[r] = pc[r]
  BY <1>1, <1>2 DEF IInv, Types, RunTypes
<1>4. \A r \in Runs : r # bound => pos'[r] = pos[r]
  BY <1>1, <1>2 DEF IInv, Types, FrameTypes
<1>5. Types'
  <2>1. FrameTypes'
    <3>1. pos' \in [Runs -> [Frames -> Positions]]
      <4>1. "none" \in Positions
        BY DEF Positions
      <4>2. QED
        BY <1>1, <4>1 DEF IInv, Types, FrameTypes
    <3>2. lo' \in 0..MaxDepth /\ hi' \in 0..MaxDepth
      BY <1>1, BrowserAssumption DEF BrowserAssumption
    <3>3. fut' \in [Runs -> [Frames -> Nat]]
      BY <1>1 DEF IInv, Types, FrameTypes
    <3>4. QED
      BY <3>1, <3>2, <3>3 DEF FrameTypes
  <2>2. RunTypes'
    BY <1>1 DEF IInv, Types, RunTypes, Phases
  <2>3. QED
    BY <1>1, <2>1, <2>2, TypesStay DEF IInv, Types, keyVars
<1>6. PageInv' /\ ~Alive'
  <2>1. ~Alive'
    BY <1>1, <1>3 DEF Alive, AlivePhases
  <2>2. PageInv'
    BY <1>1, <1>2, <1>3, <1>4 DEF IInv, PageInv, Runs, opVars
  <2>3. QED
    BY <2>1, <2>2
<1>7. KeysInv(0)'
  BY <1>1, <1>2, KeysStay DEF IInv, keyVars, opVars
<1>8. DeadInv(0)'
  BY <1>1, <1>2 DEF DeadInv, keyVars
<1>9. QED
  BY <1>1, <1>5, <1>6, <1>7, <1>8, NotAlive DEF IInv

\* An operation is called: the deepest frame awaits it, and nothing else is
\* under way.  It is queued for the loop unless it was answered at once.
LEMMA OpIssued ==
    ASSUME IInv, Running("run"), NEW k \in Kinds, NEW e \in Entries, Issue(k),
           table' = Put(nextH, e), e.caller = 0, e.op = issued + 1, e.coro = 0,
           applied' = applied \cup IF e.done THEN {issued + 1} ELSE {},
           pending' = IF e.done THEN <<>> ELSE Append(pending, [h |-> nextH, n |-> issued + 1]),
           UNCHANGED <<pageVars, runVars, bound, lo, hi>>
    PROVE  /\ RunTypes' /\ TableTypes' /\ FrameTypes' /\ OpTypes' /\ PageInv' /\ Alive'
           /\ DOMAIN table' = DOMAIN table \cup {nextH}
           /\ \A x \in DOMAIN table' : table'[x] = IF x = nextH THEN e ELSE table[x]
           /\ issued + 1 \in Ops /\ issued' = issued + 1
           /\ \A n \in Ops : kind'[n] = IF n = issued + 1 THEN k ELSE kind[n]
           /\ \E d \in Frames : /\ ChainInv(d)' /\ HandleInv(d)' /\ OpInv(d)' /\ Awaits(d)'
                                /\ H(d)' = nextH /\ nextH \in DOMAIN table'
<1>1. /\ issued < MaxOps /\ issued' = issued + 1
      /\ kind' = [kind EXCEPT ![issued + 1] = k]
      /\ owner' = [owner EXCEPT ![issued + 1] = bound]
      /\ nextH' = nextH + 1
      /\ fut' = [fut EXCEPT ![bound][hi] = nextH]
      /\ pos' = [pos EXCEPT ![bound][hi] = "check"]
      /\ UNCHANGED <<clicks, bound, lo, hi, pc, held, root>>
  BY DEF Issue, Goes, pageVars, runVars
<1>2. /\ hi # 0 /\ hi \in Frames /\ bound \in Runs /\ pc[bound] # "op"
      /\ KeysInv(0) /\ RunInv(hi, 0) /\ pending = <<>> /\ codeWaiters = <<>>
      /\ \A n \in 1..issued : owner[n] = bound => n \in applied
  BY InOwnCode
<1>3. PICK d \in Frames : d = hi /\ RunInv(d, 0)
  BY <1>2
<1>4. PICK m \in Ops : m = issued + 1
  BY <1>1, BrowserAssumption DEF IInv, Types, OpTypes, Ops, BrowserAssumption
<1>5. PICK h \in Nat \ {0} : h = nextH
  BY DEF IInv, Types, TableTypes
<1>6. /\ pos' \in [Runs -> [Frames -> Positions]]
      /\ \A r \in Runs : r # bound => pos'[r] = pos[r]
      /\ \A g \in Frames : P(g)' = IF g = d THEN "check" ELSE P(g)
  <2>1. "check" \in Positions /\ FrameTypes
    BY DEF Positions, IInv, Types
  <2>2. QED
    BY <1>1, <1>2, <1>3, <2>1, FrameMoves DEF P
<1>7. /\ fut' \in [Runs -> [Frames -> Nat]]
      /\ \A g \in Frames : H(g)' = IF g = d THEN h ELSE H(g)
  BY <1>1, <1>2, <1>3, <1>5, FutureNoted DEF IInv, Types, H
<1>8. /\ DOMAIN table' = DOMAIN table \cup {h}
      /\ \A x \in DOMAIN table' : table'[x] = IF x = h THEN e ELSE table[x]
      /\ \A x \in DOMAIN table' : table'[x] \in Entries
      /\ h \notin DOMAIN table
  <2>1. h \in 1..nextH /\ TableTypes /\ table' = Put(h, e)
    BY <1>5 DEF IInv, Types
  <2>2. QED
    BY <1>5, <2>1, EntryPut
<1>9. /\ OpTypes' /\ \A n \in Ops : kind'[n] = IF n = m THEN k ELSE kind[n]
      /\ \A n \in Ops : owner'[n] = IF n = m THEN bound ELSE owner[n]
  <2>1. /\ kind \in [Ops -> Kinds] /\ owner \in [Ops -> 0..MaxRuns] /\ bound \in 0..MaxRuns
        /\ applied \subseteq Ops
    BY DEF IInv, Types, OpTypes, TableTypes
  <2>2. kind' \in [Ops -> Kinds] /\ owner' \in [Ops -> 0..MaxRuns]
    BY <1>1, <1>4, <2>1
  <2>3. applied' \subseteq Ops
    BY <1>4, <2>1
  <2>4. issued' \in 0..MaxOps
    BY <1>1, <1>4 DEF Ops
  <2>5. QED
    BY <1>1, <1>4, <2>1, <2>2, <2>3, <2>4 DEF OpTypes
<1>10. RunTypes' /\ TableTypes' /\ FrameTypes'
  <2>1. RunTypes'
    BY <1>1, TypesStay DEF IInv, Types
  <2>2. TableTypes'
    BY <1>1, <1>5, <1>8 DEF IInv, Types, TableTypes
  <2>3. FrameTypes'
    BY <1>1, <1>6, <1>7 DEF IInv, Types, FrameTypes
  <2>4. QED
    BY <2>1, <2>2, <2>3
<1>11. PageInv' /\ Alive'
  <2>1. \A n \in 1..issued' : owner'[n] <= bound
    <3>1. \A n \in 1..issued : owner[n] <= bound
      BY DEF IInv, PageInv
    <3>2. issued \in 0..MaxOps /\ bound \in 0..MaxRuns
      BY DEF IInv, Types, OpTypes, TableTypes
    <3>3. QED
      BY <1>1, <1>4, <1>9, <3>1, <3>2, BrowserAssumption DEF Ops, BrowserAssumption
  <2>2. lo' = 0 <=> hi' = 0
    BY <1>1 DEF IInv, PageInv
  <2>3. \A r \in Runs : r > bound => pos'[r] = pos[r]
    BY <1>2, <1>6 DEF Runs
  <2>4. QED
    BY <1>1, <1>2, <2>1, <2>2, <2>3, ProgramPage
<1>12. P(d)' = "check" /\ Awaits(d)' /\ H(d)' = h /\ h \in DOMAIN table' /\ table'[h] = e
       /\ Op(d)' = m
  BY <1>4, <1>6, <1>7, <1>8 DEF Awaits, Op
<1>13. ChainInv(d)'
  BY <1>1, <1>2, <1>3, <1>6 DEF RunInv, ChainInv, P, Frames
<1>14. HandleInv(d)'
  <2>1. \A f \in Frames : f < d => P(f)' = P(f) /\ H(f)' = H(f)
    BY <1>6, <1>7 DEF Frames
  <2>2. HandleInv(d)
    BY <1>3 DEF RunInv
  <2>3. QED
    BY <1>1, <1>8, <2>1, <2>2 DEF HandleInv
<1>15. OpInv(d)'
  <2>1. Blocked(d)' <=> ~e.done
    BY <1>12 DEF Blocked
  <2>2. Op(d)' \in 1..issued' /\ m \in 1..issued'
    BY <1>1, <1>4, <1>12, BrowserAssumption DEF Ops, BrowserAssumption
  <2>3. \A n \in 1..issued' : owner'[n] = bound /\ n \notin applied' => ~e.done /\ n = m
    <3>1. \A n \in 1..issued' : n = m \/ n \in 1..issued
      BY <1>1, <1>4 DEF Ops, IInv, Types, OpTypes
    <3>2. \A n \in 1..issued : n \in Ops /\ n # m
      BY <1>1, <1>4, BrowserAssumption DEF Ops, IInv, Types, OpTypes, BrowserAssumption
    <3>3. QED
      BY <1>2, <1>4, <1>9, <3>1, <3>2
  <2>4. pending' = IF e.done THEN <<>> ELSE <<[h |-> h, n |-> m]>>
    BY <1>2, <1>4, <1>5
  <2>5. QED
    BY <1>1, <1>2, <1>12, <2>1, <2>2, <2>3, <2>4 DEF OpInv
<1>16. QED
  BY <1>1, <1>4, <1>5, <1>8, <1>9, <1>10, <1>11, <1>12, <1>13, <1>14, <1>15

\* An operation of the executors, or a sleep.
LEMMA CallOpInv == ASSUME IInv, NEW k \in {"step", "sleep"}, CallOp(k) PROVE IInv'
<1> DEFINE e == Unready(issued + 1)
<1>1. /\ Running("run") /\ Issue(k) /\ table' = Put(nextH, e)
      /\ pending' = Append(pending, [h |-> nextH, n |-> issued + 1])
      /\ UNCHANGED <<pageVars, runVars, bound, keyVars, lo, hi, astray, applied, calls>>
      /\ UNCHANGED <<keyQueue, codeWaiters, answer, typed, base, got>>
  BY DEF CallOp, keyVars
<1>2. KeysInv(0) /\ codeWaiters = <<>> /\ issued \in 0..MaxOps /\ issued < MaxOps
  BY <1>1, InOwnCode DEF IInv, Types, OpTypes, Issue
<1>3. /\ e \in Entries /\ e.caller = 0 /\ e.done = FALSE /\ e.op = issued + 1 /\ e.coro = 0
      /\ e.result = 0
  <2>1. issued + 1 \in Ops
    BY <1>2, BrowserAssumption DEF Ops, BrowserAssumption
  <2>2. QED
    BY <2>1 DEF Entries, Unready, Entry
<1> HIDE DEF e
<1>4. k \in Kinds /\ k # "key"
  BY DEF Kinds
<1>5. PICK d \in Frames :
        /\ RunTypes' /\ TableTypes' /\ FrameTypes' /\ OpTypes' /\ PageInv' /\ Alive'
        /\ DOMAIN table' = DOMAIN table \cup {nextH}
        /\ \A x \in DOMAIN table' : table'[x] = IF x = nextH THEN e ELSE table[x]
        /\ issued + 1 \in Ops /\ issued' = issued + 1
        /\ \A n \in Ops : kind'[n] = IF n = issued + 1 THEN k ELSE kind[n]
        /\ ChainInv(d)' /\ HandleInv(d)' /\ OpInv(d)' /\ Awaits(d)'
        /\ H(d)' = nextH /\ nextH \in DOMAIN table'
  BY <1>1, <1>3, <1>4, OpIssued
<1>6. Types'
  BY <1>1, <1>5, TypesStay DEF IInv, Types
<1>7. KeysInv(0)'
  <2>1. \A n \in Ops : n <= issued => n # issued + 1
    BY <1>2 DEF Ops
  <2>2. \A h \in DOMAIN table : h # nextH
    BY DEF IInv, Types, TableTypes
  <2>3. \A n \in Ops : n <= issued /\ kind[n] = "key" => n <= issued' /\ kind'[n] = "key"
    BY <1>2, <1>5, <2>1 DEF Ops
  <2>4. QED
    BY <1>1, <1>2, <1>3, <1>5, <2>2, <2>3, KeysStay DEF IInv
<1>8. Op(d)' = issued + 1 /\ Blocked(d)' /\ table'[H(d)'].result = 0 /\ kind'[Op(d)'] # "key"
  BY <1>3, <1>4, <1>5 DEF Op, Blocked
<1>9. answer'[Op(d)'] = 0
  BY <1>1, <1>2, <1>5, <1>8 DEF KeysInv
<1>10. FlightInv(d, 0)'
  BY <1>1, <1>2, <1>8, <1>9 DEF FlightInv, Blocked
<1>11. QED
  BY <1>1, <1>5, <1>6, <1>7, <1>10, StillAlive DEF IInv, RunInv

\* A key is asked for: the first one typed ahead is taken, or the operation
\* becomes the only waiter.
LEMMA KeyCodeInv == ASSUME IInv, KeyCode PROVE IInv'
<1>1. /\ Running("run") /\ Issue("key")
      /\ UNCHANGED <<pageVars, runVars, bound, answer, typed, base, got, lo, hi, astray, calls>>
  BY DEF KeyCode
<1>2. KeysInv(0) /\ codeWaiters = <<>> /\ issued \in 0..MaxOps /\ issued < MaxOps
      /\ keyQueue \in Seq(Keys)
  BY <1>1, InOwnCode DEF IInv, Types, OpTypes, Issue, KeyTypes
<1>3. issued + 1 \in Ops /\ "key" \in Kinds
  BY <1>2, BrowserAssumption DEF Ops, BrowserAssumption, Kinds
<1>4. \A n \in Ops : n <= issued => n # issued + 1
  BY <1>2 DEF Ops
<1>5. \A h \in DOMAIN table : h # nextH
  BY DEF IInv, Types, TableTypes
<1>6. CASE keyQueue # <<>>
  <2> DEFINE e == Entry(0, TRUE, issued + 1, 0, Head(keyQueue))
  <2>1. /\ table' = Put(nextH, e) /\ keyQueue' = Tail(keyQueue)
        /\ applied' = applied \cup {issued + 1} /\ UNCHANGED <<pending, codeWaiters>>
    BY <1>6 DEF KeyCode
  <2>2. Head(keyQueue) \in Keys /\ Len(keyQueue) \in Nat \ {0} /\ Head(keyQueue) = keyQueue[1]
    BY <1>2, <1>6
  <2>3. /\ e \in Entries /\ e.caller = 0 /\ e.done = TRUE /\ e.op = issued + 1 /\ e.coro = 0
        /\ e.result = Head(keyQueue)
    BY <1>3, <2>2 DEF Entries, Entry
  <2> HIDE DEF e
  <2>4. pending' = <<>>
    BY <1>1, <2>1, InOwnCode
  <2>5. PICK d \in Frames :
        /\ RunTypes' /\ TableTypes' /\ FrameTypes' /\ OpTypes' /\ PageInv' /\ Alive'
        /\ DOMAIN table' = DOMAIN table \cup {nextH}
        /\ \A x \in DOMAIN table' : table'[x] = IF x = nextH THEN e ELSE table[x]
        /\ issued' = issued + 1
        /\ \A n \in Ops : kind'[n] = IF n = issued + 1 THEN "key" ELSE kind[n]
        /\ ChainInv(d)' /\ HandleInv(d)' /\ OpInv(d)' /\ Awaits(d)'
        /\ H(d)' = nextH /\ nextH \in DOMAIN table'
    BY <1>1, <1>3, <2>1, <2>3, <2>4, OpIssued
  <2>6. KeyTypes' /\ Types'
    <3>1. KeyTypes'
      BY <1>1, <1>2, <1>6, <2>1 DEF IInv, Types, KeyTypes
    <3>2. QED
      BY <2>5, <3>1 DEF Types
  <2>7. Read \in Nat /\ Read' = Read /\ Head(keyQueue) = Read + 1
        /\ Read + Len(keyQueue) = typed
    <3>1. Read \in Nat /\ Read' = Read
      BY <1>1, BrowserAssumption DEF Read, IInv, Types, KeyTypes, BrowserAssumption
    <3>2. 1 \in DOMAIN keyQueue
      BY <1>2, <1>6
    <3>3. QED
      BY <1>2, <2>2, <3>1, <3>2 DEF KeysInv
  <2>8. KeysInv(1)'
    <3>1. Read' + 1 + Len(keyQueue') = typed'
      BY <1>1, <1>2, <1>6, <2>1, <2>2, <2>7
    <3>2. \A i \in DOMAIN keyQueue' : keyQueue'[i] = Read' + 1 + i
      <4>1. \A i \in 1..(Len(keyQueue) - 1) : Tail(keyQueue)[i] = keyQueue[i + 1]
        BY <1>2, <1>6
      <4>2. \A i \in 1..(Len(keyQueue) - 1) : keyQueue[i + 1] = Read + (i + 1)
        <5>1. \A i \in 1..(Len(keyQueue) - 1) : i + 1 \in DOMAIN keyQueue
          BY <1>2, <2>2
        <5>2. \A i \in DOMAIN keyQueue : keyQueue[i] = Read + i
          BY <1>2, <2>7 DEF KeysInv
        <5>3. QED
          BY <5>1, <5>2
      <4>3. DOMAIN Tail(keyQueue) = 1..(Len(keyQueue) - 1)
        BY <1>2, <1>6
      <4>4. QED
        BY <2>1, <2>2, <2>7, <4>1, <4>2, <4>3
    <3>3. \A n \in Ops : /\ answer'[n] <= Read' + 1
                         /\ answer'[n] # 0 => n <= issued' /\ kind'[n] = "key"
      <4>1. \A n \in Ops : answer[n] \in Nat /\ n \in Nat
        BY BrowserAssumption DEF IInv, Types, KeyTypes, Keys, Ops, BrowserAssumption
      <4>2. \A n \in Ops : answer[n] <= Read /\ (answer[n] # 0 => n <= issued /\ kind[n] = "key")
        BY <1>2, <2>7 DEF KeysInv
      <4>3. QED
        BY <1>1, <1>2, <1>4, <2>5, <2>7, <4>1, <4>2
    <3>4. \A h \in DOMAIN table' : table'[h].result <= Read' + 1
      <4>1. \A h \in DOMAIN table : table[h].result \in Nat /\ table[h].result <= Read
        BY <1>2, <2>7, BrowserAssumption
        DEF KeysInv, IInv, Types, TableTypes, Entries, Keys, BrowserAssumption
      <4>2. QED
        BY <2>3, <2>5, <2>7, <4>1
    <3>5. table'[nextH].result = Read' + 1 /\ nextH \in DOMAIN table'
      BY <2>3, <2>5, <2>7
    <3>6. \A i \in DOMAIN got' : got'[i] = base' + i
      BY <1>1, <1>2 DEF KeysInv
    <3>7. QED
      BY <3>1, <3>2, <3>3, <3>4, <3>5, <3>6 DEF KeysInv
  <2>9. table'[H(d)'].done /\ ~Blocked(d)' /\ table'[H(d)'].result = Read' + 1
    BY <2>3, <2>5, <2>7 DEF Blocked
  <2>10. FlightInv(d, 1)'
    BY <1>2, <2>1, <2>5, <2>9 DEF FlightInv
  <2>11. QED
    BY <1>1, <2>5, <2>6, <2>8, <2>10, StillAlive DEF IInv, RunInv
<1>7. CASE keyQueue = <<>>
  <2> DEFINE e == Unready(issued + 1)
  <2>1. /\ table' = Put(nextH, e)
        /\ pending' = Append(pending, [h |-> nextH, n |-> issued + 1])
        /\ codeWaiters' = Append(codeWaiters, issued + 1)
        /\ UNCHANGED <<keyQueue, applied>>
    BY <1>7 DEF KeyCode
  <2>2. /\ e \in Entries /\ e.caller = 0 /\ e.done = FALSE /\ e.op = issued + 1 /\ e.coro = 0
        /\ e.result = 0
    BY <1>3 DEF Entries, Entry, Unready
  <2> HIDE DEF e
  <2>3. PICK d \in Frames :
        /\ RunTypes' /\ TableTypes' /\ FrameTypes' /\ OpTypes' /\ PageInv' /\ Alive'
        /\ DOMAIN table' = DOMAIN table \cup {nextH}
        /\ \A x \in DOMAIN table' : table'[x] = IF x = nextH THEN e ELSE table[x]
        /\ issued' = issued + 1
        /\ \A n \in Ops : kind'[n] = IF n = issued + 1 THEN "key" ELSE kind[n]
        /\ ChainInv(d)' /\ HandleInv(d)' /\ OpInv(d)' /\ Awaits(d)'
        /\ H(d)' = nextH /\ nextH \in DOMAIN table'
    BY <1>1, <1>3, <2>1, <2>2, OpIssued
  <2>4. Types'
    BY <1>1, <2>1, <2>3, TypesStay DEF IInv, Types
  <2>5. KeysInv(0)'
    <3>1. \A n \in Ops : n <= issued /\ kind[n] = "key" => n <= issued' /\ kind'[n] = "key"
      BY <1>2, <1>4, <2>3 DEF Ops
    <3>2. QED
      BY <1>1, <1>2, <1>5, <2>1, <2>2, <2>3, <3>1, KeysStay DEF IInv
  <2>6. Op(d)' = issued + 1 /\ Blocked(d)' /\ table'[H(d)'].result = 0 /\ kind'[Op(d)'] = "key"
    BY <1>3, <2>2, <2>3 DEF Op, Blocked
  <2>7. answer'[Op(d)'] = 0
    BY <1>1, <1>2, <1>3, <1>4, <2>6 DEF KeysInv
  <2>8. codeWaiters' = <<Op(d)'>>
    BY <1>2, <2>1, <2>6
  <2>9. FlightInv(d, 0)'
    <3>1. ~table'[H(d)'].done
      BY <2>6 DEF Blocked
    <3>2. keyQueue' = <<>>
      BY <1>7, <2>1
    <3>3. QED
      BY <2>6, <2>7, <2>8, <3>1, <3>2 DEF FlightInv
  <2>10. QED
    BY <1>1, <2>3, <2>4, <2>5, <2>9, StillAlive DEF IInv, RunInv
<1>8. QED
  BY <1>6, <1>7

\* What the deepest frame awaits, when a step does not concern it.
LEMMA AwaitedStays ==
    ASSUME NEW d \in Frames, NEW j \in {0, 1}, OpInv(d), FlightInv(d, j),
           (pc' = pc /\ held' = held) \/ (pc[bound] # "op" /\ pc'[bound] # "op"),
           UNCHANGED <<bound, issued, owner, kind, applied, pending, codeWaiters,
                       keyQueue, answer, base, got>>,
           Awaits(d)' <=> Awaits(d),
           Awaits(d) => /\ H(d)' = H(d) /\ H(d) \in DOMAIN table'
                        /\ table'[H(d)].coro = table[H(d)].coro
                        /\ table'[H(d)].op = table[H(d)].op
                        /\ table'[H(d)].done = table[H(d)].done
                        /\ table'[H(d)].result = table[H(d)].result,
           P(d)' = "suspended" => /\ P(d) = "suspended"
                                  /\ table'[H(d)].caller = table[H(d)].caller
    PROVE  OpInv(d)' /\ FlightInv(d, j)'
<1>1. Read' = Read
  BY DEF Read
<1>2. Awaits(d) => Op(d)' = Op(d) /\ H(d)' = H(d)
  BY DEF Op
<1>3. Blocked(d)' <=> Blocked(d)
  BY DEF Blocked
<1>4. OpInv(d)'
  <2>1. Awaits(d)' => /\ H(d)' \in DOMAIN table' /\ table'[H(d)'].coro = 0
                      /\ Op(d)' \in 1..issued'
    BY <1>2 DEF OpInv
  <2>2. P(d)' = "suspended" => table'[H(d)'].caller = d /\ Blocked(d)'
    <3>1. P(d) = "suspended" => Awaits(d)
      BY DEF Awaits
    <3>2. QED
      BY <1>2, <1>3, <3>1 DEF OpInv
  <2>3. /\ \A n \in 1..issued' : owner'[n] = bound' /\ n \notin applied' =>
             Blocked(d)' /\ n = Op(d)'
        /\ pending' = IF Blocked(d)' /\ pc'[bound'] # "op"
                      THEN <<[h |-> H(d)', n |-> Op(d)']>> ELSE <<>>
        /\ pc'[bound'] = "op" => Blocked(d)' /\ held'[bound'] = [h |-> H(d)', n |-> Op(d)']
    BY <1>2, <1>3 DEF OpInv, Blocked
  <2>4. QED
    BY <2>1, <2>2, <2>3 DEF OpInv
<1>5. FlightInv(d, j)'
  <2>1. Awaits(d)' => (IF table'[H(d)'].done THEN table'[H(d)'].result ELSE answer'[Op(d)']) =
                      IF j = 1 THEN Read' + 1 ELSE 0
    BY <1>1, <1>2 DEF FlightInv
  <2>2. Blocked(d)' => table'[H(d)'].result = 0
    BY <1>2, <1>3 DEF FlightInv, Blocked
  <2>3. codeWaiters' = IF Blocked(d)' /\ kind'[Op(d)'] = "key" /\ j = 0 THEN <<Op(d)'>> ELSE <<>>
    BY <1>2, <1>3 DEF FlightInv, Blocked
  <2>4. (j = 1 => Awaits(d)') /\ (codeWaiters' # <<>> => keyQueue' = <<>>)
    BY DEF FlightInv
  <2>5. QED
    BY <2>1, <2>2, <2>3, <2>4 DEF FlightInv
<1>6. QED
  BY <1>4, <1>5

\* The frame with the stack, where it looks at its future or has stopped: it is
\* one of the frames of the run, and the loop is not waiting for an operation.
LEMMA AtTop ==
    ASSUME IInv, hi # 0
    PROVE  /\ bound \in Runs /\ Alive /\ pc[bound] # "op"
           /\ \E f \in Frames, j \in {0, 1}, d \in Frames :
                f = hi /\ f <= d /\ KeysInv(j) /\ RunInv(d, j)
<1>1. bound \in Runs /\ Alive /\ pc[bound] # "op" /\ hi \in Frames
  BY OnStack
<1>2. PICK j \in {0, 1}, d \in Frames : KeysInv(j) /\ RunInv(d, j)
  BY <1>1, LivePart
<1>3. hi <= d
  BY <1>2 DEF RunInv, ChainInv
<1>4. QED
  BY <1>1, <1>2, <1>3

\* A future that is ready is taken: the awaited frame is gone, or the operation
\* has taken effect and its key, if it has one, is read.
LEMMA AwaitReadyInv == ASSUME IInv, AwaitReady PROVE IInv'
<1>1. /\ hi # 0 /\ P(hi) = "check" /\ Ready(H(hi)) /\ table' = Drop(H(hi))
      /\ pos' = [Freed(H(hi)) EXCEPT ![bound][hi] = "run"]
      /\ got' = IF H(hi) \in DOMAIN table /\ table[H(hi)].result # 0
                THEN Append(got, table[H(hi)].result) ELSE got
      /\ fut' = [fut EXCEPT ![bound][hi] = 0]
      /\ UNCHANGED <<pageVars, runVars, bound, nextH, pending, keyQueue, codeWaiters, answer,
                     typed, base, lo, hi, astray, opVars, calls>>
      /\ UNCHANGED <<clicks, pc, root, held, issued, kind, owner, applied>>
  BY DEF AwaitReady, Running, P, H, pageVars, runVars, opVars
<1>2. bound \in Runs /\ Alive /\ pc[bound] # "op"
  BY <1>1, AtTop
<1>3. PICK f \in Frames, j \in {0, 1}, d \in Frames :
        f = hi /\ f <= d /\ KeysInv(j) /\ RunInv(d, j)
  BY <1>1, AtTop
<1>4. PICK h : h = H(f)
  OBVIOUS
<1>5. FrameTypes /\ TableTypes /\ KeyTypes
  BY DEF IInv, Types
<1>6. ChainInv(d) /\ HandleInv(d) /\ OpInv(d) /\ FlightInv(d, j) /\ P(f) = "check"
  BY <1>1, <1>3 DEF RunInv
<1>7. f < d => /\ h \in DOMAIN table /\ table[h].coro = f + 1 /\ table[h].result = 0
               /\ P(f + 1) = "done" /\ f + 1 \in Frames /\ f + 1 = d
  <2> HAVE f < d
  <2>1. h \in DOMAIN table /\ table[h].coro = f + 1 /\ table[h].result = 0
    BY <1>4, <1>6 DEF HandleInv
  <2>2. f + 1 \in Frames /\ f + 1 <= d /\ table[h].coro # 0
    BY <2>1, BrowserAssumption DEF Frames, BrowserAssumption
  <2>3. P(f + 1) = "done"
    BY <1>1, <1>3, <1>4, <2>1, <2>2 DEF Ready, P
  <2>4. ~(f + 1 < d)
    BY <1>6, <2>2, <2>3 DEF ChainInv
  <2>5. QED
    BY <2>1, <2>2, <2>3, <2>4 DEF Frames
<1>8. f = d => /\ h \in DOMAIN table /\ table[h].coro = 0 /\ table[h].done /\ Awaits(d)
               /\ table[h].result = IF j = 1 THEN Read + 1 ELSE 0
  BY <1>1, <1>3, <1>4, <1>6 DEF OpInv, Awaits, Ready, FlightInv
<1>9. ~Blocked(d) /\ (f < d => j = 0)
  <2>1. f = d => ~Blocked(d)
    BY <1>4, <1>8 DEF Blocked
  <2>2. f < d => ~Awaits(d)
    BY <1>7 DEF Awaits
  <2>3. QED
    BY <1>3, <1>6, <2>1, <2>2 DEF Blocked, FlightInv, Frames
<1>10. pending = <<>> /\ codeWaiters = <<>>
       /\ \A n \in 1..issued : owner[n] = bound => n \in applied
  BY <1>6, <1>9 DEF OpInv, FlightInv
<1>11. h \in DOMAIN table /\ table[h].result = (IF j = 1 THEN Read + 1 ELSE 0)
  BY <1>3, <1>7, <1>8, <1>9 DEF Frames
<1>12. /\ pos' \in [Runs -> [Frames -> Positions]]
       /\ \A r \in Runs : r # bound => pos'[r] = pos[r]
       /\ \A g \in Frames : P(g)' = IF g = f THEN "run" ELSE IF g > f THEN "none" ELSE P(g)
  <2>1. "run" \in Positions /\ "none" \in Positions /\ bound' = bound
    BY <1>1 DEF Positions
  <2>2. \A g \in Frames : g > d => P(g) = "none"
    BY <1>6 DEF ChainInv
  <2>3. CASE f < d
    <3>1. pos' = [[pos EXCEPT ![bound][d] = "none"] EXCEPT ![bound][f] = "run"]
      <4>1. h \in DOMAIN table /\ table[h].coro = d /\ d # 0 /\ h = H(hi)
        BY <1>3, <1>4, <1>7, <2>3 DEF Frames
      <4>2. Freed(H(hi)) = [pos EXCEPT ![bound][d] = "none"]
        BY <4>1 DEF Freed
      <4>3. QED
        BY <1>1, <1>3, <4>2
    <3>2. \A g \in Frames : pos'[bound][g] = IF g = f THEN "run"
                                            ELSE IF g = d THEN "none" ELSE pos[bound][g]
      BY <1>2, <1>5, <2>3, <3>1 DEF FrameTypes, Frames
    <3>3. \A g \in Frames : g > f /\ g # d => P(g) = "none"
      BY <1>7, <2>2, <2>3 DEF Frames
    <3>4. \A g \in Frames : P(g)' = IF g = f THEN "run" ELSE IF g > f THEN "none" ELSE P(g)
      BY <1>7, <2>1, <2>3, <3>2, <3>3 DEF P, Frames
    <3>5. /\ pos' \in [Runs -> [Frames -> Positions]]
          /\ \A r \in Runs : r # bound => pos'[r] = pos[r]
      BY <1>2, <1>5, <2>1, <3>1 DEF FrameTypes
    <3>6. QED
      BY <3>4, <3>5
  <2>4. CASE f = d
    <3>1. pos' = [pos EXCEPT ![bound][f] = "run"]
      BY <1>1, <1>3, <1>4, <1>8, <2>4 DEF Freed
    <3>2. \A g \in Frames : pos'[bound][g] = IF g = f THEN "run" ELSE pos[bound][g]
      BY <1>2, <1>5, <2>1, <3>1 DEF FrameTypes
    <3>3. QED
      BY <1>2, <1>5, <2>1, <2>2, <2>4, <3>1, <3>2 DEF FrameTypes, P, Frames
  <2>5. QED
    BY <1>3, <2>3, <2>4 DEF Frames
<1>13. /\ fut' \in [Runs -> [Frames -> Nat]]
       /\ \A g \in Frames : g # f => H(g)' = H(g)
  BY <1>1, <1>2, <1>3, <1>5, FutureNoted DEF H
<1>14. /\ DOMAIN table' = DOMAIN table \ {h}
       /\ \A x \in DOMAIN table' : table'[x] = table[x]
       /\ \A x \in DOMAIN table' : table'[x] \in Entries
  BY <1>1, <1>3, <1>4, <1>5, EntryDropped
<1>15. got \in Seq(Keys) /\ base \in Nat /\ Read \in Nat /\ Len(got) \in Nat /\ typed \in Nat
       /\ Read = base + Len(got)
  BY <1>5, BrowserAssumption DEF KeyTypes, BrowserAssumption, Read
<1>16. Types'
  <2>1. got' \in Seq(Keys)
    <3>1. table[h].result \in Keys \cup {0}
      BY <1>5, <1>11 DEF TableTypes, Entries
    <3>2. QED
      BY <1>1, <1>3, <1>4, <1>15, <3>1
  <2>2. KeyTypes'
    BY <1>1, <1>5, <2>1 DEF KeyTypes
  <2>3. TableTypes'
    BY <1>1, <1>5, <1>14 DEF TableTypes
  <2>4. FrameTypes'
    BY <1>1, <1>5, <1>12, <1>13 DEF FrameTypes
  <2>5. QED
    BY <1>1, <2>2, <2>3, <2>4, TypesStay DEF IInv, Types
<1>17. PageInv' /\ Alive'
  <2>1. \A n \in 1..issued' : owner'[n] <= bound
    BY <1>1 DEF IInv, PageInv
  <2>2. lo' = 0 <=> hi' = 0
    BY <1>1 DEF IInv, PageInv
  <2>3. \A r \in Runs : r > bound => pos'[r] = pos[r]
    BY <1>2, <1>12 DEF Runs
  <2>4. QED
    BY <1>1, <2>1, <2>2, <2>3, ProgramPage
<1>18. KeysInv(0)'
  <2>1. CASE j = 0
    <3>1. table[h].result = 0 /\ got' = got
      BY <1>1, <1>3, <1>4, <1>11, <2>1
    <3>2. \A x \in DOMAIN table : table[x].result = 0 \/ (x \in DOMAIN table' /\ table'[x] = table[x])
      BY <1>14, <3>1
    <3>3. QED
      BY <1>1, <1>3, <1>14, <2>1, <3>1, <3>2, KeysStay DEF IInv
  <2>2. CASE j = 1
    <3>1. got' = Append(got, Read + 1)
      BY <1>1, <1>3, <1>4, <1>11, <1>15, <2>2
    <3>2. Len(got') = Len(got) + 1 /\ Read' = Read + 1
      <4>1. Read + 1 \in Keys
        BY <1>5, <1>11, <1>15, <2>2 DEF TableTypes, Entries
      <4>2. Len(got') = Len(got) + 1
        BY <1>15, <3>1, <4>1
      <4>3. QED
        BY <1>1, <1>15, <4>2 DEF Read
    <3>3. \A i \in DOMAIN got' : got'[i] = base' + i
      <4>1. \A i \in 1..(Len(got) + 1) :
               Append(got, Read + 1)[i] = IF i <= Len(got) THEN got[i] ELSE Read + 1
        BY <1>15
      <4>2. \A i \in 1..Len(got) : got[i] = base + i
        BY <1>3, <1>15 DEF KeysInv
      <4>3. DOMAIN got' = 1..(Len(got) + 1)
        BY <1>15, <3>1
      <4>4. QED
        BY <1>1, <1>15, <3>1, <4>1, <4>2, <4>3
    <3>4. \A i \in DOMAIN keyQueue' : keyQueue'[i] = Read' + 0 + i
      BY <1>1, <1>3, <1>15, <2>2, <3>2 DEF KeysInv
    <3>5. \A n \in Ops : /\ answer'[n] <= Read' + 0
                         /\ answer'[n] # 0 => n <= issued' /\ kind'[n] = "key"
      BY <1>1, <1>3, <1>15, <2>2, <3>2 DEF KeysInv
    <3>6. \A x \in DOMAIN table' : table'[x].result <= Read' + 0
      BY <1>3, <1>14, <1>15, <2>2, <3>2 DEF KeysInv
    <3>7. Read' + 0 + Len(keyQueue') = typed'
      BY <1>1, <1>3, <1>15, <2>2, <3>2 DEF KeysInv
    <3>8. QED
      BY <3>3, <3>4, <3>5, <3>6, <3>7 DEF KeysInv
  <2>3. QED
    BY <2>1, <2>2
<1>19. P(f)' = "run" /\ ~Awaits(f)' /\ ~Blocked(f)'
  BY <1>12 DEF Awaits, Blocked
<1>20. RunInv(f, 0)'
  <2>1. ChainInv(f)'
    BY <1>1, <1>3, <1>6, <1>12 DEF ChainInv, Frames
  <2>2. HandleInv(f)'
    <3>1. \A g \in Frames : g < f => P(g)' = P(g) /\ H(g)' = H(g)
      BY <1>12, <1>13 DEF Frames
    <3>2. \A g \in Frames : g < f /\ P(g) \in {"suspended", "check", "driving"} =>
            /\ H(g) \in DOMAIN table /\ table[H(g)].coro = g + 1 /\ table[H(g)].result = 0
            /\ H(g) # h
      BY <1>3, <1>6, <1>7, <1>8 DEF HandleInv, Frames
    <3>3. pc[bound] # "entry" => /\ root[bound] \in DOMAIN table /\ table[root[bound]].coro = 1
                                 /\ root[bound] # h
      BY <1>3, <1>6, <1>7, <1>8 DEF HandleInv, Frames
    <3>4. QED
      BY <1>1, <1>14, <3>1, <3>2, <3>3 DEF HandleInv
  <2>3. OpInv(f)'
    BY <1>1, <1>2, <1>10, <1>19 DEF OpInv
  <2>4. FlightInv(f, 0)'
    BY <1>1, <1>10, <1>19 DEF FlightInv
  <2>5. QED
    BY <2>1, <2>2, <2>3, <2>4 DEF RunInv
<1>21. QED
  BY <1>1, <1>16, <1>17, <1>18, <1>20, StillAlive DEF IInv

\* A future that is not ready: the frame suspends, or drives the frame it
\* awaits, which is the one above it and is suspended.
LEMMA AwaitSuspendInv == ASSUME IInv, AwaitSuspend PROVE IInv'
<1>1. /\ hi # 0 /\ P(hi) = "check" /\ ~Ready(H(hi))
      /\ table' = Put(H(hi), Entry(hi, table[H(hi)].done, table[H(hi)].op, table[H(hi)].coro,
                                   table[H(hi)].result))
      /\ UNCHANGED <<pageVars, runVars, bound, nextH, pending, keyVars, fut, lo, opVars, calls>>
      /\ UNCHANGED <<clicks, pc, root, held, issued, kind, owner, applied>>
      /\ UNCHANGED <<keyQueue, codeWaiters, answer, typed, base, got>>
  BY DEF AwaitSuspend, Running, P, H, pageVars, runVars, opVars, keyVars
<1>2. bound \in Runs /\ Alive /\ pc[bound] # "op" /\ lo \in Frames
  BY <1>1, AtTop, OnStack
<1>3. PICK f \in Frames, j \in {0, 1}, d \in Frames :
        f = hi /\ f <= d /\ KeysInv(j) /\ RunInv(d, j)
  BY <1>1, AtTop
<1>4. PICK h : h = H(f)
  OBVIOUS
<1>5. FrameTypes /\ TableTypes /\ nextH \in Nat \ {0}
  BY DEF IInv, Types, TableTypes
<1>6. ChainInv(d) /\ HandleInv(d) /\ OpInv(d) /\ FlightInv(d, j) /\ P(f) = "check"
  BY <1>1, <1>3 DEF RunInv
<1>7. h \in DOMAIN table /\ h \in 1..nextH /\ table[h] \in Entries
  <2>1. h \in DOMAIN table
    BY <1>1, <1>3, <1>4 DEF Ready
  <2>2. QED
    BY <1>5, <2>1 DEF TableTypes
<1>8. f < d => /\ table[h].coro = f + 1 /\ table[h].result = 0
               /\ P(f + 1) = "suspended" /\ f + 1 \in Frames /\ f + 1 <= d
  <2> HAVE f < d
  <2>1. table[h].coro = f + 1 /\ table[h].result = 0
    BY <1>4, <1>6 DEF HandleInv
  <2>2. f + 1 \in Frames /\ f + 1 <= d /\ table[h].coro # 0
    BY <2>1, BrowserAssumption DEF Frames, BrowserAssumption
  <2>3. P(f + 1) # "done"
    BY <1>1, <1>3, <1>4, <1>7, <2>1, <2>2 DEF Ready, P
  <2>4. P(f + 1) \in Positions
    BY <1>2, <1>5, <2>2 DEF FrameTypes, P
  <2>5. P(f + 1) # "none" /\ P(f + 1) \notin {"calling", "driving", "run", "check"}
    BY <1>3, <1>6, <2>2 DEF ChainInv, Frames
  <2>6. QED
    BY <2>1, <2>2, <2>3, <2>4, <2>5 DEF Positions
<1>9. f = d => table[h].coro = 0 /\ ~table[h].done /\ Awaits(d)
  BY <1>1, <1>3, <1>4, <1>6, <1>7 DEF OpInv, Awaits, Ready
<1> DEFINE e == Entry(f, table[h].done, table[h].op, table[h].coro, table[h].result)
<1>10. e \in Entries /\ e.caller = f /\ e.done = table[h].done /\ e.op = table[h].op
       /\ e.coro = table[h].coro /\ e.result = table[h].result
  BY <1>7 DEF Entry, Entries
<1>11. table' = Put(h, e)
  BY <1>1, <1>3, <1>4
<1> HIDE DEF e
<1>12. /\ DOMAIN table' = DOMAIN table
       /\ \A x \in DOMAIN table : table'[x] = IF x = h THEN e ELSE table[x]
       /\ \A x \in DOMAIN table' : table'[x] \in Entries
  BY <1>5, <1>7, <1>10, <1>11, EntryPut
<1>13. TableTypes'
  BY <1>1, <1>5, <1>12 DEF TableTypes
<1>14. KeysInv(j)'
  BY <1>1, <1>3, <1>10, <1>12, KeysStay DEF IInv
<1>15. \A g \in Frames : H(g)' = H(g)
  BY <1>1 DEF H
<1>16. CASE f < d
  <2>1. PICK c \in Frames : c = f + 1 /\ table[h].coro = c /\ P(c) = "suspended" /\ c <= d /\ c # 0
    BY <1>8, <1>16 DEF Frames
  <2>2. /\ pos' = [pos EXCEPT ![bound][f] = "driving", ![bound][c] = "check"]
        /\ hi' = c /\ astray' = astray
    BY <1>1, <1>3, <1>4, <2>1 DEF AwaitSuspend, P, H
  <2>3. /\ pos' \in [Runs -> [Frames -> Positions]]
        /\ \A r \in Runs : r # bound => pos'[r] = pos[r]
        /\ \A g \in Frames : P(g)' = IF g = f THEN "driving" ELSE IF g = c THEN "check" ELSE P(g)
    <3>1. "driving" \in Positions /\ "check" \in Positions /\ bound' = bound /\ c # f
      BY <1>1, <2>1 DEF Positions, Frames
    <3>2. QED
      BY <1>2, <1>5, <2>2, <3>1 DEF P, FrameTypes
  <2>4. Types'
    <3>1. FrameTypes'
      <4>1. fut' \in [Runs -> [Frames -> Nat]] /\ lo' \in 0..MaxDepth
        BY <1>1, <1>5 DEF FrameTypes
      <4>2. hi' \in 0..MaxDepth
        BY <2>2 DEF Frames
      <4>3. QED
        BY <2>3, <4>1, <4>2 DEF FrameTypes
    <3>2. QED
      BY <1>1, <1>13, <3>1, TypesStay DEF IInv, Types
  <2>5. PageInv' /\ Alive'
    <3>1. \A n \in 1..issued' : owner'[n] <= bound
      BY <1>1 DEF IInv, PageInv
    <3>2. lo' = 0 <=> hi' = 0
      BY <1>1, <1>2, <2>2 DEF Frames
    <3>3. \A r \in Runs : r > bound => pos'[r] = pos[r]
      BY <1>2, <2>3 DEF Runs
    <3>4. QED
      BY <1>1, <3>1, <3>2, <3>3, ProgramPage
  <2>6. ChainInv(d)'
    BY <1>1, <1>2, <1>3, <1>6, <1>16, <2>1, <2>2, <2>3 DEF ChainInv, Frames
  <2>7. HandleInv(d)'
    <3>1. \A g \in Frames : P(g)' \in {"suspended", "check", "driving"} =>
            P(g) \in {"suspended", "check", "driving"}
      BY <1>6, <2>1, <2>3
    <3>2. QED
      BY <1>1, <1>6, <1>10, <1>12, <1>15, <3>1 DEF HandleInv
  <2>8. OpInv(d)' /\ FlightInv(d, j)'
    <3>1. Awaits(d)' <=> Awaits(d)
      BY <1>16, <2>1, <2>3 DEF Awaits, Frames
    <3>2. P(d)' = "suspended" => P(d) = "suspended"
      BY <1>16, <2>3 DEF Frames
    <3>3. Awaits(d) => H(d) \in DOMAIN table /\ H(d) # h
      BY <1>6, <2>1 DEF OpInv
    <3>4. P(d) = "suspended" => Awaits(d)
      BY DEF Awaits
    <3>5. QED
      BY <1>1, <1>6, <1>12, <1>15, <3>1, <3>2, <3>3, <3>4, AwaitedStays
  <2>9. QED
    BY <1>14, <2>2, <2>4, <2>5, <2>6, <2>7, <2>8, StillAlive DEF IInv, RunInv
<1>17. CASE f = d
  <2>1. pos' = [pos EXCEPT ![bound][d] = "suspended"] /\ hi' = hi /\ astray' = astray
    BY <1>1, <1>3, <1>4, <1>9, <1>17 DEF AwaitSuspend, H, Goes
  <2>2. /\ pos' \in [Runs -> [Frames -> Positions]]
        /\ \A r \in Runs : r # bound => pos'[r] = pos[r]
        /\ \A g \in Frames : P(g)' = IF g = d THEN "suspended" ELSE P(g)
    <3>1. "suspended" \in Positions /\ bound' = bound
      BY <1>1 DEF Positions
    <3>2. QED
      BY <1>2, <1>5, <2>1, <3>1, FrameMoves DEF P
  <2>3. Types'
    <3>1. FrameTypes'
      BY <1>1, <1>5, <2>1, <2>2 DEF FrameTypes
    <3>2. QED
      BY <1>1, <1>13, <3>1, TypesStay DEF IInv, Types
  <2>4. PageInv' /\ Alive'
    <3>1. \A n \in 1..issued' : owner'[n] <= bound
      BY <1>1 DEF IInv, PageInv
    <3>2. lo' = 0 <=> hi' = 0
      BY <1>1, <2>1 DEF IInv, PageInv
    <3>3. \A r \in Runs : r > bound => pos'[r] = pos[r]
      BY <1>2, <2>2 DEF Runs
    <3>4. QED
      BY <1>1, <3>1, <3>2, <3>3, ProgramPage
  <2>5. ChainInv(d)'
    BY <1>1, <1>2, <1>3, <1>6, <1>17, <2>1, <2>2 DEF ChainInv, Frames
  <2>6. HandleInv(d)'
    <3>1. \A g \in Frames : g < d => P(g)' = P(g)
      BY <2>2 DEF Frames
    <3>2. QED
      BY <1>1, <1>6, <1>10, <1>12, <1>15, <3>1 DEF HandleInv
  <2>7. Awaits(d)' /\ P(d)' = "suspended" /\ H(d)' = h /\ H(d) = h /\ Op(d)' = Op(d)
        /\ Blocked(d) /\ Blocked(d)' /\ table'[h].caller = d
    BY <1>4, <1>7, <1>9, <1>10, <1>12, <1>15, <1>17, <2>2 DEF Awaits, Blocked, Op
  <2>8. OpInv(d)'
    BY <1>1, <1>6, <1>9, <1>10, <1>12, <1>17, <2>7 DEF OpInv
  <2>9. FlightInv(d, j)'
    <3>1. Read' = Read
      BY <1>1 DEF Read
    <3>2. table'[h].done = table[h].done /\ table'[h].result = table[h].result
      BY <1>7, <1>10, <1>12
    <3>3. QED
      BY <1>1, <1>6, <1>9, <1>17, <2>7, <3>1, <3>2 DEF FlightInv
  <2>10. QED
    BY <1>14, <2>1, <2>3, <2>4, <2>5, <2>6, <2>8, <2>9, StillAlive DEF IInv, RunInv
<1>18. QED
  BY <1>3, <1>16, <1>17 DEF Frames

\* The frame with the stack leaves it: a caller holds its future from now on,
\* one that drove it suspends again, and with no caller the loop goes on.
LEMMA YieldInv == ASSUME IInv, Yield PROVE IInv'
<1>1. /\ hi # 0 /\ P(hi) \in {"suspended", "done"}
      /\ UNCHANGED <<pageVars, runVars, bound, pending, keyVars, astray, opVars, calls>>
      /\ UNCHANGED <<clicks, pc, root, held, issued, kind, owner, applied>>
      /\ UNCHANGED <<keyQueue, codeWaiters, answer, typed, base, got>>
  BY DEF Yield, Running, P, pageVars, runVars, opVars, keyVars
<1>2. bound \in Runs /\ Alive /\ pc[bound] # "op" /\ lo \in Frames
  BY <1>1, AtTop, OnStack
<1>3. PICK f \in Frames, j \in {0, 1}, d \in Frames :
        f = hi /\ f <= d /\ KeysInv(j) /\ RunInv(d, j)
  BY <1>1, AtTop
<1>4. FrameTypes /\ TableTypes /\ nextH \in Nat \ {0}
  BY DEF IInv, Types, TableTypes
<1>5. ChainInv(d) /\ HandleInv(d) /\ OpInv(d) /\ FlightInv(d, j) /\ P(f) \in {"suspended", "done"}
  BY <1>1, <1>3 DEF RunInv
<1>6. \A n \in 1..issued' : owner'[n] <= bound
  BY <1>1 DEF IInv, PageInv
<1>7. CASE hi = lo
  <2>1. lo' = 0 /\ hi' = 0 /\ UNCHANGED <<pos, fut, table, nextH>>
    BY <1>7 DEF Yield
  <2>2. Types'
    <3>1. FrameTypes'
      BY <1>4, <2>1, BrowserAssumption DEF FrameTypes, BrowserAssumption
    <3>2. QED
      BY <1>1, <2>1, <3>1, TypesStay DEF IInv, Types
  <2>3. PageInv' /\ Alive'
    BY <1>1, <1>6, <2>1, ProgramPage
  <2>4. KeysInv(j)'
    BY <1>1, <1>3, <2>1, KeysStay DEF IInv
  <2>5. /\ \A g \in Frames : P(g)' = P(g) /\ H(g)' = H(g)
    BY <1>1, <2>1 DEF P, H
  <2>6. ChainInv(d)'
    BY <1>1, <1>3, <1>5, <1>7, <2>1, <2>5 DEF ChainInv, Frames
  <2>7. HandleInv(d)'
    BY <1>1, <1>5, <2>1, <2>5 DEF HandleInv
  <2>8. Awaits(d)' <=> Awaits(d)
    BY <2>5 DEF Awaits
  <2>9. OpInv(d)' /\ FlightInv(d, j)'
    <3>1. Awaits(d) => H(d) \in DOMAIN table
      BY <1>5 DEF OpInv
    <3>2. QED
      BY <1>1, <1>5, <2>1, <2>5, <2>8, <3>1, AwaitedStays
  <2>10. QED
    BY <1>1, <2>2, <2>3, <2>4, <2>6, <2>7, <2>9, StillAlive DEF IInv, RunInv
<1>8. CASE hi # lo
  <2>1. PICK g \in Frames : f = g + 1 /\ g = hi - 1 /\ lo <= g /\ g < d
    BY <1>2, <1>3, <1>5, <1>8, BrowserAssumption DEF ChainInv, Frames, BrowserAssumption
  <2>2. hi' = g /\ lo' = lo /\ P(g) \in {"calling", "driving"}
    <3>1. P(g) \in {"calling", "driving"}
      BY <1>3, <1>5, <2>1 DEF ChainInv, Frames
    <3>2. QED
      BY <1>8, <2>1, <3>1 DEF Yield
  <2>3. g # d /\ Awaits(d) => H(d) \in DOMAIN table
    BY <1>5 DEF OpInv
  <2>4. lo' = 0 <=> hi' = 0
    BY <1>2, <2>1, <2>2 DEF Frames
  <2>5. CASE P(g) = "calling"
    <3>1. PICK h \in Nat \ {0} : h = nextH
      BY <1>4
    <3> DEFINE e == Entry(0, FALSE, 0, f, 0)
    <3>2. /\ pos' = [pos EXCEPT ![bound][g] = "check"] /\ table' = Put(h, e) /\ nextH' = h + 1
          /\ fut' = [fut EXCEPT ![bound][g] = h]
      BY <1>3, <1>8, <2>1, <2>5, <3>1 DEF Yield, Goes, P
    <3>3. e \in Entries /\ e.coro = f /\ e.result = 0
      BY DEF Entry, Entries
    <3> HIDE DEF e
    <3>4. /\ DOMAIN table' = DOMAIN table \cup {h}
          /\ \A x \in DOMAIN table' : table'[x] = IF x = h THEN e ELSE table[x]
          /\ \A x \in DOMAIN table' : table'[x] \in Entries
          /\ h \notin DOMAIN table
      <4>1. h \in 1..nextH
        BY <3>1
      <4>2. QED
        BY <1>4, <3>1, <3>2, <3>3, <4>1, EntryPut
    <3>5. /\ pos' \in [Runs -> [Frames -> Positions]]
          /\ \A r \in Runs : r # bound => pos'[r] = pos[r]
          /\ \A x \in Frames : P(x)' = IF x = g THEN "check" ELSE P(x)
      <4>1. "check" \in Positions /\ bound' = bound
        BY <1>1 DEF Positions
      <4>2. QED
        BY <1>2, <1>4, <3>2, <4>1, FrameMoves DEF P
    <3>6. /\ fut' \in [Runs -> [Frames -> Nat]]
          /\ \A x \in Frames : H(x)' = IF x = g THEN h ELSE H(x)
      BY <1>1, <1>2, <1>4, <3>2, FutureNoted DEF H
    <3>7. Types'
      <4>1. TableTypes'
        BY <1>1, <1>4, <3>1, <3>2, <3>4 DEF TableTypes
      <4>2. FrameTypes'
        BY <1>4, <2>1, <2>2, <3>5, <3>6 DEF FrameTypes, Frames
      <4>3. QED
        BY <1>1, <4>1, <4>2, TypesStay DEF IInv, Types
    <3>8. PageInv' /\ Alive'
      <4>1. \A r \in Runs : r > bound => pos'[r] = pos[r]
        BY <1>2, <3>5 DEF Runs
      <4>2. QED
        BY <1>1, <1>6, <2>4, <4>1, ProgramPage
    <3>9. KeysInv(j)'
      BY <1>1, <1>3, <3>3, <3>4, KeysStay DEF IInv
    <3>10. ChainInv(d)'
      BY <1>3, <1>5, <2>1, <2>2, <2>5, <3>5 DEF ChainInv, Frames
    <3>11. HandleInv(d)'
      <4>1. \A x \in Frames : x < d /\ P(x)' \in {"suspended", "check", "driving"} =>
              H(x)' \in DOMAIN table' /\ table'[H(x)'].coro = x + 1 /\ table'[H(x)'].result = 0
        <5>1. \A x \in Frames : x # g /\ x < d /\ P(x)' \in {"suspended", "check", "driving"} =>
                /\ H(x)' = H(x) /\ H(x) \in DOMAIN table
                /\ table[H(x)].coro = x + 1 /\ table[H(x)].result = 0
          BY <1>5, <3>5, <3>6 DEF HandleInv
        <5>2. H(g)' = h /\ h \in DOMAIN table' /\ table'[h].coro = g + 1 /\ table'[h].result = 0
          BY <2>1, <3>3, <3>4, <3>6
        <5>3. QED
          BY <3>4, <5>1, <5>2
      <4>2. pc'[bound'] # "entry" =>
              root'[bound'] \in DOMAIN table' /\ table'[root'[bound']].coro = 1
        BY <1>1, <1>5, <3>4 DEF HandleInv
      <4>3. QED
        BY <4>1, <4>2 DEF HandleInv
    <3>12. OpInv(d)' /\ FlightInv(d, j)'
      <4>1. P(d)' = P(d) /\ H(d)' = H(d) /\ (Awaits(d)' <=> Awaits(d))
        BY <2>1, <3>5, <3>6 DEF Awaits, Frames
      <4>2. Awaits(d) => /\ H(d) \in DOMAIN table /\ H(d) \in DOMAIN table'
                         /\ table'[H(d)] = table[H(d)]
        BY <1>5, <3>4 DEF OpInv
      <4>3. P(d) = "suspended" => Awaits(d)
        BY DEF Awaits
      <4>4. QED
        BY <1>1, <1>5, <4>1, <4>2, <4>3, AwaitedStays
    <3>13. QED
      BY <1>1, <3>7, <3>8, <3>9, <3>10, <3>11, <3>12, StillAlive DEF IInv, RunInv
  <2>6. CASE P(g) = "driving"
    <3>1. pos' = [pos EXCEPT ![bound][g] = "suspended"] /\ UNCHANGED <<fut, table, nextH>>
      BY <1>3, <1>8, <2>1, <2>6 DEF Yield, Goes, P
    <3>2. /\ pos' \in [Runs -> [Frames -> Positions]]
          /\ \A r \in Runs : r # bound => pos'[r] = pos[r]
          /\ \A x \in Frames : P(x)' = IF x = g THEN "suspended" ELSE P(x)
      <4>1. "suspended" \in Positions /\ bound' = bound
        BY <1>1 DEF Positions
      <4>2. QED
        BY <1>2, <1>4, <3>1, <4>1, FrameMoves DEF P
    <3>3. \A x \in Frames : H(x)' = H(x)
      BY <1>1, <3>1 DEF H
    <3>4. Types'
      <4>1. FrameTypes'
        BY <1>4, <2>1, <2>2, <3>1, <3>2 DEF FrameTypes, Frames
      <4>2. QED
        BY <1>1, <3>1, <4>1, TypesStay DEF IInv, Types
    <3>5. PageInv' /\ Alive'
      <4>1. \A r \in Runs : r > bound => pos'[r] = pos[r]
        BY <1>2, <3>2 DEF Runs
      <4>2. QED
        BY <1>1, <1>6, <2>4, <4>1, ProgramPage
    <3>6. KeysInv(j)'
      BY <1>1, <1>3, <3>1, KeysStay DEF IInv
    <3>7. ChainInv(d)'
      BY <1>3, <1>5, <2>1, <2>2, <2>6, <3>2 DEF ChainInv, Frames
    <3>8. HandleInv(d)'
      BY <1>1, <1>5, <2>6, <3>1, <3>2, <3>3 DEF HandleInv
    <3>9. OpInv(d)' /\ FlightInv(d, j)'
      <4>1. P(d)' = P(d) /\ H(d)' = H(d) /\ (Awaits(d)' <=> Awaits(d))
        BY <2>1, <3>2, <3>3 DEF Awaits, Frames
      <4>2. Awaits(d) => H(d) \in DOMAIN table
        BY <1>5 DEF OpInv
      <4>3. QED
        BY <1>1, <1>5, <3>1, <4>1, <4>2, AwaitedStays
    <3>10. QED
      BY <1>1, <3>4, <3>5, <3>6, <3>7, <3>8, <3>9, StillAlive DEF IInv, RunInv
  <2>7. QED
    BY <2>2, <2>5, <2>6
<1>9. QED
  BY <1>7, <1>8

-----------------------------------------------------------------------------
(* Each action of the loop preserves the invariant. *)

\* A run that is in the middle of its work is the newest, with its instance.
LEMMA AtWork ==
    ASSUME IInv, NEW r \in Runs, pc[r] \in AlivePhases
    PROVE  /\ r = clicks /\ r = bound /\ Alive
           /\ \E j \in {0, 1}, d \in Frames : KeysInv(j) /\ RunInv(d, j)
<1>1. r \in Nat /\ r # 0 /\ clicks \in Nat
  BY BrowserAssumption DEF Runs, IInv, Types, RunTypes, BrowserAssumption
<1>2. r = clicks
  BY <1>1 DEF IInv, PageInv, AlivePhases
<1>3. Alive /\ bound = r
  BY <1>1, <1>2 DEF IInv, PageInv, Alive
<1>4. QED
  BY <1>2, <1>3, LivePart

\* The newest run comes to another phase.
LEMMA PhaseChanges ==
    ASSUME IInv, NEW r \in Runs, pc[r] \in AlivePhases, NEW q \in AlivePhases \cup {"finally"},
           pc' = [pc EXCEPT ![r] = q], UNCHANGED <<clicks, bound, issued, owner>>,
           turn' = IF q \in {"op", "flush", "delay"} THEN 0 ELSE r,
           hi' # 0 => q \in {"entry", "after"}, lo' = 0 <=> hi' = 0,
           q \in {"op", "delay"} => sig'[r] = clicks,
           \A x \in Runs : x > bound => pos'[x] = pos[x]
    PROVE  PageInv' /\ pc'[r] = q /\ (Alive' <=> q # "finally")
<1>1. r = clicks /\ r = bound
  BY AtWork
<1>2. /\ pc'[r] = q /\ \A x \in Runs : x # r => pc'[x] = pc[x]
  BY DEF IInv, Types, RunTypes
<1>3. r \in Nat /\ r # 0
  BY BrowserAssumption DEF Runs, BrowserAssumption
<1>4. Alive' <=> q # "finally"
  BY <1>1, <1>2, <1>3 DEF Alive, AlivePhases
<1>5. PageInv'
  <2>1. \A x \in Runs : (x < clicks' => pc'[x] = "ended") /\ (x > clicks' => pc'[x] = "none")
    BY <1>1, <1>2, <1>3 DEF IInv, PageInv, Runs
  <2>2. /\ pc'[clicks'] # "none" /\ bound' = clicks' /\ pc'[clicks'] # "compile"
        /\ pc'[clicks'] \in {"op", "delay"} => sig'[clicks'] = clicks'
    BY <1>1, <1>2 DEF AlivePhases
  <2>3. /\ pc'[clicks'] \in {"entry", "loop", "after", "finally"} => turn' = clicks'
        /\ turn' # 0 => turn' = clicks' /\ pc'[clicks'] \in {"entry", "loop", "after", "finally"}
    BY <1>1, <1>2, <1>3 DEF AlivePhases
  <2>4. hi' # 0 => turn' # 0 /\ pc'[clicks'] \in {"entry", "after"}
    BY <1>1, <1>2, <1>3
  <2>5. /\ \A n \in 1..issued' : owner'[n] <= bound'
        /\ \A x \in Runs : x > bound' => \A f \in Frames : pos'[x][f] = "none"
    BY DEF IInv, PageInv
  <2>6. bound' <= clicks'
    BY <1>1, <1>3
  <2>7. QED
    BY <2>1, <2>2, <2>3, <2>4, <2>5, <2>6 DEF PageInv
<1>6. QED
  BY <1>2, <1>4, <1>5

\* With no frame on the stack, every frame is suspended, the deepest may be done.
LEMMA AllSuspended ==
    ASSUME IInv, hi = 0, bound \in Runs, NEW d \in Frames, ChainInv(d)
    PROVE  /\ \A f \in Frames : f < d => P(f) = "suspended"
           /\ P(d) \in {"suspended", "done"} /\ lo = 0
<1>1. lo = 0 /\ \A f \in Frames : P(f) \in Positions
  BY DEF IInv, PageInv, Types, FrameTypes, P
<1>2. \A f \in Frames : f # 0 /\ P(f) \notin {"run", "check", "calling", "driving"}
  BY <1>1 DEF ChainInv, Frames
<1>3. P(d) # "none"
  BY DEF ChainInv, Frames
<1>4. QED
  BY <1>1, <1>2, <1>3 DEF ChainInv, Positions

\* The entry function has returned its frame: the loop holds its future.
LEMMA WrapEntryInv == ASSUME IInv, NEW r \in Runs, WrapEntry(r) PROVE IInv'
<1> DEFINE e == Entry(0, FALSE, 0, 1, 0)
<1>1. /\ turn = r /\ hi = 0 /\ pc[r] = "entry"
      /\ root' = [root EXCEPT ![r] = nextH] /\ table' = Put(nextH, e) /\ nextH' = nextH + 1
      /\ pc' = [pc EXCEPT ![r] = "loop"]
      /\ UNCHANGED <<pageVars, turn, held, sig, bound, pending, keyVars, frameVars, opVars, calls>>
      /\ UNCHANGED <<clicks, issued, owner, kind, applied, pos, fut, lo, hi, astray>>
      /\ UNCHANGED <<keyQueue, codeWaiters, answer, typed, base, got>>
  BY DEF WrapEntry, At, pageVars, opVars, frameVars, keyVars
<1>2. e \in Entries /\ e.coro = 1 /\ e.result = 0
  BY BrowserAssumption DEF Entry, Entries, Frames, BrowserAssumption
<1> HIDE DEF e
<1>3. r = clicks /\ r = bound
  BY <1>1, AtWork DEF AlivePhases
<1>4. PICK j \in {0, 1}, d \in Frames : KeysInv(j) /\ RunInv(d, j)
  BY <1>1, AtWork DEF AlivePhases
<1>5. PICK h \in Nat \ {0} : h = nextH
  BY DEF IInv, Types, TableTypes
<1>6. /\ DOMAIN table' = DOMAIN table \cup {h}
      /\ \A x \in DOMAIN table' : table'[x] = IF x = h THEN e ELSE table[x]
      /\ \A x \in DOMAIN table' : table'[x] \in Entries
      /\ h \notin DOMAIN table
  <2>1. h \in 1..nextH /\ TableTypes
    BY <1>5 DEF IInv, Types
  <2>2. QED
    BY <1>1, <1>2, <1>5, <2>1, EntryPut
<1>7. PageInv' /\ pc'[r] = "loop" /\ Alive'
  <2>1. lo' = 0 <=> hi' = 0
    BY <1>1 DEF IInv, PageInv
  <2>2. QED
    BY <1>1, <2>1, PhaseChanges DEF AlivePhases
<1>8. Types'
  <2>1. RunTypes'
    BY <1>1, <1>5 DEF IInv, Types, RunTypes, Phases
  <2>2. TableTypes'
    BY <1>1, <1>5, <1>6 DEF IInv, Types, TableTypes
  <2>3. QED
    BY <1>1, <2>1, <2>2, TypesStay DEF IInv, Types
<1>9. KeysInv(j)'
  BY <1>1, <1>2, <1>4, <1>6, KeysStay DEF IInv
<1>10. \A f \in Frames : P(f)' = P(f) /\ H(f)' = H(f)
  BY <1>1 DEF P, H
<1>11. ChainInv(d)'
  BY <1>1, <1>4, <1>10 DEF RunInv, ChainInv
<1>12. HandleInv(d)'
  <2>1. root'[bound'] = h
    BY <1>1, <1>3, <1>5 DEF IInv, Types, RunTypes
  <2>2. QED
    BY <1>2, <1>4, <1>6, <1>10, <2>1 DEF RunInv, HandleInv
<1>13. OpInv(d)' /\ FlightInv(d, j)'
  <2>1. (Awaits(d)' <=> Awaits(d)) /\ (P(d) = "suspended" => Awaits(d))
    BY <1>10 DEF Awaits
  <2>2. Awaits(d) => /\ H(d) \in DOMAIN table /\ H(d) \in DOMAIN table'
                     /\ table'[H(d)] = table[H(d)]
    BY <1>4, <1>6 DEF RunInv, OpInv
  <2>3. pc[bound] # "op" /\ pc'[bound] # "op"
    BY <1>1, <1>3, <1>7
  <2>4. QED
    BY <1>1, <1>4, <1>10, <2>1, <2>2, <2>3, AwaitedStays DEF RunInv
<1>14. QED
  BY <1>1, <1>7, <1>8, <1>9, <1>11, <1>12, <1>13, StillAlive DEF IInv, RunInv

\* A run whose frames and futures stay while its phase, from now on a live one,
\* changes.
LEMMA LoopMoves ==
    ASSUME IInv, NEW r \in Runs, pc[r] \in AlivePhases \ {"op"}, NEW q \in AlivePhases \ {"op"},
           r = bound, pc' = [pc EXCEPT ![r] = q], PageInv', Alive', Types', ~astray',
           q # "entry" => pc[r] # "entry",
           UNCHANGED <<root, bound, table, pending, frameVars, opVars, keyVars>>
    PROVE  IInv'
<1>1. PICK j \in {0, 1}, d \in Frames : KeysInv(j) /\ RunInv(d, j)
  BY AtWork
<1>2. /\ UNCHANGED <<issued, owner, kind, applied, pos, fut, lo, hi>>
      /\ UNCHANGED <<keyQueue, codeWaiters, answer, typed, base, got>>
  BY DEF opVars, frameVars, keyVars
<1>3. KeysInv(j)'
  BY <1>1, <1>2, KeysStay DEF IInv
<1>4. \A f \in Frames : P(f)' = P(f) /\ H(f)' = H(f)
  BY <1>2 DEF P, H
<1>5. pc[bound] # "op" /\ pc'[bound] # "op" /\ (pc'[bound] # "entry" => pc[bound] # "entry")
  BY DEF IInv, Types, RunTypes
<1>6. ChainInv(d)'
  BY <1>1, <1>2, <1>4 DEF RunInv, ChainInv
<1>7. HandleInv(d)'
  BY <1>1, <1>4, <1>5 DEF RunInv, HandleInv
<1>8. OpInv(d)' /\ FlightInv(d, j)'
  <2>1. (Awaits(d)' <=> Awaits(d)) /\ (P(d) = "suspended" => Awaits(d))
    BY <1>4 DEF Awaits
  <2>2. Awaits(d) => H(d) \in DOMAIN table
    BY <1>1 DEF RunInv, OpInv
  <2>3. QED
    BY <1>1, <1>2, <1>4, <1>5, <2>1, <2>2, AwaitedStays DEF RunInv
<1>9. QED
  BY <1>1, <1>3, <1>6, <1>7, <1>8, StillAlive DEF RunInv

\* The loop looks after its pace.
LEMMA PaceInv == ASSUME IInv, NEW r \in Runs, Pace(r) PROVE IInv'
<1>1. /\ turn = r /\ hi = 0 /\ pc[r] = "after"
      /\ UNCHANGED <<pageVars, root, held, tableVars, keyVars, frameVars, opVars, calls>>
      /\ UNCHANGED <<clicks, bound, table, nextH, pending, issued, owner, pos, lo, hi, astray>>
      /\ UNCHANGED <<fut, keyQueue, answer, typed, base, got>>
  BY DEF Pace, At, pageVars, tableVars, frameVars, opVars, keyVars
<1>2. r = clicks /\ r = bound
  BY <1>1, AtWork DEF AlivePhases
<1>3. PICK q \in {"loop", "flush", "delay"} :
        /\ pc' = [pc EXCEPT ![r] = q]
        /\ turn' = IF q = "loop" THEN turn ELSE 0
        /\ sig' = IF q = "delay" THEN [sig EXCEPT ![r] = clicks] ELSE sig
  BY DEF Pace
<1>4. q \in AlivePhases \ {"op"} /\ q # "finally" /\ q \in Phases
  BY DEF AlivePhases, Phases
<1>5. PageInv' /\ Alive'
  <2>1. lo' = 0 <=> hi' = 0
    BY <1>1 DEF IInv, PageInv
  <2>2. q \in {"op", "delay"} => sig'[r] = clicks
    BY <1>3 DEF IInv, Types, RunTypes
  <2>3. turn' = IF q \in {"op", "flush", "delay"} THEN 0 ELSE r
    BY <1>1, <1>3
  <2>4. QED
    BY <1>1, <1>3, <1>4, <2>1, <2>2, <2>3, PhaseChanges DEF AlivePhases
<1>6. Types'
  <2>1. RunTypes'
    <3>1. clicks \in Nat /\ turn' \in 0..MaxRuns
      BY <1>1, <1>3, BrowserAssumption DEF IInv, Types, RunTypes, BrowserAssumption
    <3>2. pc' \in [Runs -> Phases] /\ sig' \in [Runs -> Nat]
      BY <1>3, <1>4, <3>1 DEF IInv, Types, RunTypes
    <3>3. QED
      BY <1>1, <3>1, <3>2 DEF IInv, Types, RunTypes
  <2>2. QED
    BY <1>1, <2>1, TypesStay DEF IInv, Types
<1>7. QED
  <2>1. pc[r] \in AlivePhases \ {"op"} /\ pc[r] # "entry" /\ ~astray'
    BY <1>1 DEF AlivePhases, IInv
  <2>2. QED
    BY <1>1, <1>2, <1>3, <1>4, <1>5, <1>6, <2>1, LoopMoves

\* The loop is left after the end of the program, or after a stop.
LEMMA LeaveLoopInv == ASSUME IInv, NEW r \in Runs, LeaveLoop(r) PROVE IInv'
<1>1. /\ turn = r /\ hi = 0 /\ pc[r] = "loop" /\ (Ready(root[r]) \/ StopRequested)
      /\ pc' = [pc EXCEPT ![r] = "finally"]
      /\ UNCHANGED <<pageVars, turn, root, held, sig, tableVars, keyVars, frameVars, opVars, calls>>
      /\ UNCHANGED <<clicks, signalled, bound, table, nextH, issued, owner, kind, pos, fut, lo, hi>>
      /\ UNCHANGED <<astray, keyQueue, codeWaiters, answer, typed, base, got>>
  BY DEF LeaveLoop, At, pageVars, tableVars, frameVars, opVars, keyVars
<1>2. r = clicks /\ r = bound
  BY <1>1, AtWork DEF AlivePhases
<1>3. PICK j \in {0, 1}, d \in Frames : KeysInv(j) /\ RunInv(d, j)
  BY <1>1, AtWork DEF AlivePhases
<1>4. PageInv' /\ pc'[r] = "finally" /\ ~Alive'
  <2>1. lo' = 0 <=> hi' = 0
    BY <1>1 DEF IInv, PageInv
  <2>2. QED
    BY <1>1, <2>1, PhaseChanges DEF AlivePhases
<1>5. Types'
  <2>1. RunTypes'
    BY <1>1 DEF IInv, Types, RunTypes, Phases
  <2>2. QED
    BY <1>1, <2>1, TypesStay DEF IInv, Types
<1>6. KeysInv(j)'
  BY <1>1, <1>3, KeysStay DEF IInv
<1>7. DeadInv(j)'
  <2>1. CASE StopRequested
    BY <1>1, <1>2, <1>4, <2>1 DEF DeadInv, StopRequested, Runs
  <2>2. CASE Ready(root[r])
    <3>1. PICK one \in Frames : one = 1
      BY BrowserAssumption DEF Frames, BrowserAssumption
    <3>2. P(one) = "done"
      BY <1>1, <1>2, <1>3, <2>2, <3>1 DEF RunInv, HandleInv, Ready, P
    <3>3. one = d
      BY <1>3, <3>1, <3>2 DEF RunInv, ChainInv, Frames
    <3>4. j = 0 /\ codeWaiters = <<>>
      BY <1>3, <3>2, <3>3, NothingAwaited DEF Awaits
    <3>5. QED
      BY <1>1, <3>4 DEF DeadInv
  <2>3. QED
    BY <1>1, <2>1, <2>2
<1>8. QED
  BY <1>1, <1>4, <1>5, <1>6, <1>7, NotAlive DEF IInv

\* The operation that the loop takes up is the one the deepest frame awaits.
LEMMA TakesUp ==
    ASSUME IInv, hi = 0, NEW r \in Runs, pc[r] \in {"loop", "op"}, pc[r] = "loop" => pending # <<>>
    PROVE  \E j \in {0, 1}, d \in Frames :
             /\ KeysInv(j) /\ RunInv(d, j) /\ Blocked(d) /\ P(d) = "suspended"
             /\ pc[r] = "loop" => pending = <<[h |-> H(d), n |-> Op(d)]>>
             /\ pc[r] = "op" => pending = <<>> /\ held[r] = [h |-> H(d), n |-> Op(d)]
<1>1. r = bound
  BY AtWork DEF AlivePhases
<1>2. PICK j \in {0, 1}, d \in Frames : KeysInv(j) /\ RunInv(d, j)
  BY AtWork DEF AlivePhases
<1>3. Blocked(d) /\ (pc[r] = "op" => pending = <<>> /\ held[r] = [h |-> H(d), n |-> Op(d)])
      /\ (pc[r] = "loop" => pending = <<[h |-> H(d), n |-> Op(d)]>>)
  BY <1>1, <1>2 DEF RunInv, OpInv
<1>4. P(d) = "suspended"
  BY <1>1, <1>2, <1>3, AllSuspended DEF RunInv, Blocked, Awaits
<1>5. QED
  BY <1>2, <1>3, <1>4

\* The awaited operation takes effect: its future is resolved, with the key in
\* flight if there is one, and the frame that awaits it has the stack.
LEMMA Resolved ==
    ASSUME IInv, hi = 0, NEW r \in Runs, pc[r] \in {"loop", "op"},
           NEW j \in {0, 1}, NEW d \in Frames, KeysInv(j), RunInv(d, j), Blocked(d),
           P(d) = "suspended", NEW v \in Keys \cup {0}, v = (IF j = 1 THEN Read + 1 ELSE 0),
           codeWaiters = <<>>,
           ResolveFuture(H(d), v), applied' = applied \cup {Op(d)}, pending' = <<>>,
           pc' = [pc EXCEPT ![r] = "after"], turn' = r, RunTypes',
           UNCHANGED <<clicks, root, bound, nextH, keyVars, fut, issued, kind, owner>>
    PROVE  IInv'
<1>1. r = clicks /\ r = bound
  BY AtWork DEF AlivePhases
<1>2. ChainInv(d) /\ HandleInv(d) /\ OpInv(d) /\ FlightInv(d, j) /\ Awaits(d)
  BY DEF RunInv, Blocked
<1>3. FrameTypes /\ TableTypes /\ KeyTypes /\ OpTypes /\ nextH \in Nat \ {0}
  BY DEF IInv, Types, TableTypes
<1>4. PICK h : h = H(d)
  OBVIOUS
<1>5. /\ h \in DOMAIN table /\ h \in 1..nextH /\ table[h] \in Entries
      /\ table[h].coro = 0 /\ ~table[h].done /\ table[h].caller = d /\ d # 0
  <2>1. h \in DOMAIN table /\ table[h].coro = 0 /\ ~table[h].done /\ table[h].caller = d
    BY <1>2, <1>4 DEF OpInv, Blocked
  <2>2. QED
    BY <1>3, <2>1 DEF TableTypes, Frames
<1> DEFINE e == Entry(d, TRUE, table[h].op, 0, v)
<1>6. /\ e \in Entries /\ e.caller = d /\ e.done = TRUE /\ e.op = table[h].op /\ e.coro = 0
      /\ e.result = v
  <2>1. TRUE \in BOOLEAN
    OBVIOUS
  <2>2. QED
    BY <1>5, <2>1 DEF Entry, Entries
<1>7. /\ table' = Put(h, e)
      /\ pos' = [pos EXCEPT ![bound][d] = "check"] /\ lo' = d /\ hi' = d /\ astray' = astray
  <2>1. ~Ready(h)
    BY <1>5 DEF Ready
  <2>2. QED
    BY <1>4, <1>5, <2>1 DEF ResolveFuture, Resume, P
<1> HIDE DEF e
<1>8. /\ DOMAIN table' = DOMAIN table
      /\ \A x \in DOMAIN table : table'[x] = IF x = h THEN e ELSE table[x]
      /\ \A x \in DOMAIN table' : table'[x] \in Entries
  <2>1. table' = Put(h, e) /\ e \in Entries /\ h \in 1..nextH /\ h \in DOMAIN table /\ TableTypes
    BY <1>3, <1>5, <1>6, <1>7
  <2>2. QED
    BY <2>1, EntryPut
<1>9. /\ pos' \in [Runs -> [Frames -> Positions]]
      /\ \A x \in Runs : x # bound => pos'[x] = pos[x]
      /\ \A g \in Frames : P(g)' = IF g = d THEN "check" ELSE P(g)
  <2>1. "check" \in Positions
    BY DEF Positions
  <2>2. QED
    BY <1>1, <1>3, <1>7, <2>1, FrameMoves DEF P
<1>10. /\ \A g \in Frames : H(g)' = H(g)
       /\ UNCHANGED <<keyQueue, codeWaiters, answer, typed, base, got>>
  BY DEF H, keyVars
<1>11. PageInv' /\ Alive' /\ pc'[r] = "after"
  <2>1. lo' = 0 <=> hi' = 0
    BY <1>7
  <2>2. \A x \in Runs : x > bound => pos'[x] = pos[x]
    BY <1>1, <1>9 DEF Runs
  <2>3. pc[r] \in AlivePhases /\ "after" \in AlivePhases
    BY DEF AlivePhases
  <2>4. QED
    BY <1>1, <2>1, <2>2, <2>3, PhaseChanges
<1>12. Types'
  <2>1. TableTypes'
    BY <1>3, <1>8 DEF TableTypes
  <2>2. FrameTypes'
    <3>1. fut' \in [Runs -> [Frames -> Nat]]
      BY <1>3 DEF FrameTypes
    <3>2. lo' \in 0..MaxDepth /\ hi' \in 0..MaxDepth
      BY <1>7 DEF Frames
    <3>3. QED
      BY <1>9, <3>1, <3>2 DEF FrameTypes
  <2>3. OpTypes'
    <3>1. Op(d) \in Ops
      BY <1>2, <1>3, BrowserAssumption DEF OpInv, OpTypes, Ops, BrowserAssumption
    <3>2. QED
      BY <1>3, <3>1 DEF OpTypes
  <2>4. QED
    BY <1>10, <2>1, <2>2, <2>3, TypesStay DEF IInv, Types
<1>13. Read' = Read /\ Read \in Nat
  BY <1>3, <1>10, BrowserAssumption DEF Read, KeyTypes, BrowserAssumption
<1>14. KeysInv(j)'
  <2>1. \A x \in DOMAIN table' : table'[x].result <= Read' + j
    BY <1>6, <1>8, <1>13 DEF KeysInv
  <2>2. j = 1 => table'[h].result = Read' + 1 /\ h \in DOMAIN table'
    BY <1>5, <1>6, <1>8, <1>13
  <2>3. /\ Read' + j + Len(keyQueue') = typed'
        /\ \A i \in DOMAIN got' : got'[i] = base' + i
        /\ \A i \in DOMAIN keyQueue' : keyQueue'[i] = Read' + j + i
        /\ \A n \in Ops : /\ answer'[n] <= Read' + j
                          /\ answer'[n] # 0 => n <= issued' /\ kind'[n] = "key"
    BY <1>10, <1>13 DEF KeysInv
  <2>4. QED
    BY <2>1, <2>2, <2>3 DEF KeysInv
<1>15. ChainInv(d)'
  BY <1>2, <1>7, <1>9, AllSuspended, <1>1 DEF ChainInv, Frames
<1>16. HandleInv(d)'
  <2>1. \A g \in Frames : g < d => P(g)' = P(g) /\ H(g)' = H(g)
    BY <1>9, <1>10 DEF Frames
  <2>2. \A g \in Frames : g < d /\ P(g) \in {"suspended", "check", "driving"} =>
          /\ H(g) \in DOMAIN table /\ table[H(g)].coro = g + 1 /\ table[H(g)].result = 0
          /\ H(g) # h
    BY <1>2, <1>5 DEF HandleInv, Frames
  <2>3. /\ root[bound] \in DOMAIN table /\ table[root[bound]].coro = 1 /\ root[bound] # h
    BY <1>1, <1>2, <1>5 DEF HandleInv
  <2>4. QED
    BY <1>8, <2>1, <2>2, <2>3 DEF HandleInv
<1>17. /\ P(d)' = "check" /\ Awaits(d)' /\ H(d)' = h /\ h \in DOMAIN table' /\ table'[h] = e
       /\ Op(d)' = Op(d) /\ ~Blocked(d)'
  <2>1. P(d)' = "check" /\ H(d)' = h /\ h \in DOMAIN table' /\ table'[h] = e
    BY <1>4, <1>5, <1>8, <1>9, <1>10
  <2>2. QED
    BY <1>4, <1>6, <2>1 DEF Awaits, Op, Blocked
<1>18. OpInv(d)'
  <2>1. Op(d)' \in 1..issued' /\ table'[H(d)'].coro = 0
    BY <1>2, <1>6, <1>17 DEF OpInv
  <2>2. \A n \in 1..issued' : owner'[n] = bound' => n \in applied'
    BY <1>2 DEF OpInv
  <2>3. pc'[bound'] # "op"
    BY <1>1, <1>11
  <2>4. QED
    BY <1>17, <2>1, <2>2, <2>3 DEF OpInv
<1>19. FlightInv(d, j)'
  <2>1. table'[H(d)'].done /\ table'[H(d)'].result = IF j = 1 THEN Read' + 1 ELSE 0
    BY <1>6, <1>13, <1>17
  <2>2. QED
    BY <1>10, <1>17, <2>1 DEF FlightInv
<1>20. QED
  BY <1>7, <1>11, <1>12, <1>14, <1>15, <1>16, <1>18, <1>19, StillAlive DEF IInv, RunInv

\* An operation without a promise of its own waits for no key.
LEMMA StepHasNoKey ==
    ASSUME NEW d \in Frames, NEW j \in {0, 1}, KeysInv(j), RunInv(d, j), Blocked(d), Types,
           kind[Op(d)] = "step"
    PROVE  j = 0 /\ codeWaiters = <<>>
<1>1. Op(d) \in Ops /\ Awaits(d) /\ ~table[H(d)].done
  BY BrowserAssumption DEF RunInv, OpInv, Blocked, Types, OpTypes, Ops, BrowserAssumption
<1>2. answer[Op(d)] = 0
  BY <1>1 DEF KeysInv
<1>3. Read \in Nat
  BY BrowserAssumption DEF Types, KeyTypes, Read, BrowserAssumption
<1>4. QED
  BY <1>1, <1>2, <1>3 DEF RunInv, FlightInv

\* An operation without a promise of its own is executed and resolved.
LEMMA ExecuteStepInv == ASSUME IInv, NEW r \in Runs, ExecuteStep(r) PROVE IInv'
<1>1. /\ turn = r /\ hi = 0 /\ pc[r] = "loop" /\ pending # <<>> /\ pending' = Tail(pending)
      /\ kind[Head(pending).n] = "step"
      /\ applied' = applied \cup {Head(pending).n}
      /\ ResolveFuture(Head(pending).h, 0)
      /\ pc' = [pc EXCEPT ![r] = "after"]
      /\ UNCHANGED <<pageVars, turn, root, held, sig, bound, nextH, keyVars, fut, issued, kind,
                     owner, calls>>
      /\ clicks' = clicks
  BY DEF ExecuteStep, InLoop, At, Shift, pageVars
<1>2. PICK j \in {0, 1}, d \in Frames :
        /\ KeysInv(j) /\ RunInv(d, j) /\ Blocked(d) /\ P(d) = "suspended"
        /\ pending = <<[h |-> H(d), n |-> Op(d)]>>
  BY <1>1, TakesUp
<1>3. Head(pending) = [h |-> H(d), n |-> Op(d)] /\ Tail(pending) = <<>>
  BY <1>2
<1>4. j = 0 /\ codeWaiters = <<>>
  BY <1>1, <1>2, <1>3, StepHasNoKey DEF IInv
<1>5. RunTypes'
  BY <1>1 DEF IInv, Types, RunTypes, Phases
<1>6. /\ ResolveFuture(H(d), 0) /\ applied' = applied \cup {Op(d)} /\ pending' = <<>>
      /\ turn' = r
  BY <1>1, <1>3
<1>7. 0 \in Keys \cup {0} /\ 0 = IF j = 1 THEN Read + 1 ELSE 0
  BY <1>4
<1>8. QED
  BY <1>1, <1>2, <1>4, <1>5, <1>6, <1>7, Resolved

\* The operation throws: the run is about to end, with no waiter and no key in
\* flight.
LEMMA ExecuteThrowsInv == ASSUME IInv, NEW r \in Runs, ExecuteThrows(r) PROVE IInv'
<1>1. /\ turn = r /\ hi = 0 /\ pc[r] = "loop" /\ pending # <<>>
      /\ kind[Head(pending).n] = "step"
      /\ pc' = [pc EXCEPT ![r] = "finally"]
      /\ UNCHANGED <<pageVars, turn, root, held, sig, bound, table, nextH, keyVars, frameVars, opVars,
                     calls>>
      /\ UNCHANGED <<clicks, issued, owner, kind, applied, pos, fut, lo, hi, astray>>
      /\ UNCHANGED <<keyQueue, codeWaiters, answer, typed, base, got>>
  BY DEF ExecuteThrows, InLoop, At, Shift, pageVars, frameVars, opVars, keyVars
<1>2. PICK j \in {0, 1}, d \in Frames :
        /\ KeysInv(j) /\ RunInv(d, j) /\ Blocked(d)
        /\ pending = <<[h |-> H(d), n |-> Op(d)]>>
  BY <1>1, TakesUp
<1>3. j = 0 /\ codeWaiters = <<>>
  <2>1. Head(pending) = [h |-> H(d), n |-> Op(d)]
    BY <1>2
  <2>2. QED
    BY <1>1, <1>2, <2>1, StepHasNoKey DEF IInv
<1>4. PageInv' /\ ~Alive'
  <2>1. lo' = 0 <=> hi' = 0
    BY <1>1 DEF IInv, PageInv
  <2>2. QED
    BY <1>1, <2>1, PhaseChanges DEF AlivePhases
<1>5. Types'
  <2>1. RunTypes'
    BY <1>1 DEF IInv, Types, RunTypes, Phases
  <2>2. QED
    BY <1>1, <2>1, TypesStay DEF IInv, Types
<1>6. KeysInv(j)'
  BY <1>1, <1>2, KeysStay DEF IInv
<1>7. DeadInv(j)'
  BY <1>1, <1>3 DEF DeadInv
<1>8. QED
  BY <1>1, <1>4, <1>5, <1>6, <1>7, NotAlive DEF IInv

\* The loop waits for a sleep or a key: it holds the operation.
LEMMA ExecuteAsyncInv == ASSUME IInv, NEW r \in Runs, ExecuteAsync(r) PROVE IInv'
<1>1. /\ turn = r /\ hi = 0 /\ pc[r] = "loop" /\ pending # <<>> /\ pending' = Tail(pending)
      /\ held' = [held EXCEPT ![r] = Head(pending)]
      /\ sig' = [sig EXCEPT ![r] = clicks]
      /\ pc' = [pc EXCEPT ![r] = "op"] /\ turn' = 0
      /\ UNCHANGED <<pageVars, root, bound, table, nextH, keyVars, frameVars, opVars, calls>>
      /\ UNCHANGED <<clicks, issued, owner, kind, applied, pos, fut, lo, hi, astray>>
      /\ UNCHANGED <<keyQueue, codeWaiters, answer, typed, base, got>>
  BY DEF ExecuteAsync, InLoop, At, Shift, pageVars, frameVars, opVars, keyVars
<1>2. r = clicks /\ r = bound
  BY <1>1, AtWork DEF AlivePhases
<1>3. PICK j \in {0, 1}, d \in Frames :
        /\ KeysInv(j) /\ RunInv(d, j) /\ Blocked(d) /\ P(d) = "suspended"
        /\ pending = <<[h |-> H(d), n |-> Op(d)]>>
  BY <1>1, TakesUp
<1>4. Head(pending) = [h |-> H(d), n |-> Op(d)] /\ Tail(pending) = <<>>
  BY <1>3
<1>5. PageInv' /\ Alive' /\ pc'[r] = "op"
  <2>1. lo' = 0 <=> hi' = 0
    BY <1>1 DEF IInv, PageInv
  <2>2. sig'[r] = clicks
    BY <1>1 DEF IInv, Types, RunTypes
  <2>3. QED
    BY <1>1, <2>1, <2>2, PhaseChanges DEF AlivePhases
<1>6. H(d) \in Nat /\ Op(d) \in Nat
  BY <1>2, <1>3 DEF IInv, Types, FrameTypes, OpTypes, H, RunInv, OpInv, Blocked
<1>7. Types'
  <2>1. held' \in [Runs -> [h : Nat, n : Nat]]
    BY <1>1, <1>4, <1>6 DEF IInv, Types, RunTypes
  <2>2. RunTypes'
    BY <1>1, <2>1, BrowserAssumption DEF IInv, Types, RunTypes, Phases, BrowserAssumption
  <2>3. QED
    BY <1>1, <2>2, TypesStay DEF IInv, Types
<1>8. KeysInv(j)'
  BY <1>1, <1>3, KeysStay DEF IInv
<1>9. \A f \in Frames : P(f)' = P(f) /\ H(f)' = H(f)
  BY <1>1 DEF P, H
<1>10. ChainInv(d)'
  BY <1>1, <1>3, <1>9 DEF RunInv, ChainInv
<1>11. HandleInv(d)'
  BY <1>1, <1>2, <1>3, <1>9 DEF RunInv, HandleInv
<1>12. Awaits(d) /\ Awaits(d)' /\ Op(d)' = Op(d) /\ Blocked(d)'
  BY <1>1, <1>3, <1>9 DEF Awaits, Op, Blocked
<1>13. OpInv(d)'
  <2>1. held'[bound'] = [h |-> H(d)', n |-> Op(d)'] /\ pc'[bound'] = "op" /\ pending' = <<>>
    BY <1>1, <1>2, <1>4, <1>5, <1>9, <1>12 DEF IInv, Types, RunTypes
  <2>2. OpInv(d)
    BY <1>3 DEF RunInv
  <2>3. QED
    BY <1>1, <1>9, <1>12, <2>1, <2>2 DEF OpInv
<1>14. FlightInv(d, j)'
  <2>1. FlightInv(d, j) /\ Blocked(d)
    BY <1>3 DEF RunInv
  <2>2. Read' = Read
    BY <1>1 DEF Read
  <2>3. QED
    BY <1>1, <1>9, <1>12, <2>1, <2>2 DEF FlightInv
<1>15. QED
  BY <1>1, <1>5, <1>7, <1>8, <1>10, <1>11, <1>13, <1>14, StillAlive DEF IInv, RunInv

\* The run goes on with the held operation: its promise is settled and it takes
\* effect, or Stop was given and its future is destroyed.
LEMMA ContinueOpInv == ASSUME IInv, NEW r \in Runs, ContinueOp(r) PROVE IInv'
<1>1. /\ turn = 0 /\ pc[r] = "op"
      /\ (sig[r] \in signalled \/ answer[held[r].n] # 0) \/ kind[held[r].n] = "sleep"
      /\ turn' = r
      /\ held' = [held EXCEPT ![r] = Nothing]
      /\ UNCHANGED <<pageVars, root, sig, bound, nextH, pending, keyVars, fut, issued, kind, owner,
                     calls>>
      /\ UNCHANGED <<clicks, signalled>>
      /\ UNCHANGED <<keyQueue, codeWaiters, answer, typed, base, got>>
  BY DEF ContinueOp, Woken, pageVars, keyVars
<1>2. r = clicks /\ r = bound /\ hi = 0 /\ lo = 0 /\ sig[r] = clicks
  <2>1. r = clicks /\ r = bound
    BY <1>1, AtWork DEF AlivePhases
  <2>2. r # 0
    BY DEF Runs
  <2>3. QED
    BY <1>1, <2>1, <2>2 DEF IInv, PageInv
<1>3. PICK j \in {0, 1}, d \in Frames :
        /\ KeysInv(j) /\ RunInv(d, j) /\ Blocked(d) /\ P(d) = "suspended"
        /\ pending = <<>> /\ held[r] = [h |-> H(d), n |-> Op(d)]
  BY <1>1, <1>2, TakesUp
<1>4. held[r].h = H(d) /\ held[r].n = Op(d)
  BY <1>3
<1>5. Awaits(d) /\ H(d) \in DOMAIN table /\ table[H(d)].coro = 0 /\ ~table[H(d)].done
      /\ table[H(d)].result = 0 /\ Op(d) \in Ops
  BY <1>3, BrowserAssumption
  DEF RunInv, OpInv, FlightInv, Blocked, IInv, Types, OpTypes, Ops, BrowserAssumption
<1>6. held' \in [Runs -> [h : Nat, n : Nat]]
  BY <1>1 DEF Nothing, IInv, Types, RunTypes
<1>7. clicks' \in 0..MaxRuns /\ turn' \in 0..MaxRuns /\ root' \in [Runs -> Nat]
      /\ sig' \in [Runs -> Nat]
  BY <1>1, <1>2 DEF IInv, Types, RunTypes
<1>8. CASE Interrupted(r)
  <2>1. /\ table' = Drop(H(d)) /\ pos' = Freed(H(d)) /\ pc' = [pc EXCEPT ![r] = "finally"]
        /\ UNCHANGED <<lo, hi, astray, applied>>
    BY <1>4, <1>8 DEF ContinueOp, Destroy
  <2>2. pos' = pos
    BY <1>5, <2>1 DEF Freed
  <2>3. /\ DOMAIN table' = DOMAIN table \ {H(d)}
        /\ \A x \in DOMAIN table' : table'[x] = table[x]
        /\ \A x \in DOMAIN table' : table'[x] \in Entries
    BY <2>1, EntryDropped DEF IInv, Types
  <2>4. PageInv' /\ pc'[r] = "finally" /\ ~Alive'
    <3>1. (lo' = 0 <=> hi' = 0) /\ (hi' # 0 => FALSE)
      BY <1>2, <2>1
    <3>2. QED
      BY <1>1, <2>1, <2>2, <3>1, PhaseChanges DEF AlivePhases
  <2>5. Types'
    <3>1. RunTypes'
      BY <1>6, <1>7, <2>1 DEF IInv, Types, RunTypes, Phases
    <3>2. TableTypes'
      BY <1>1, <2>3 DEF IInv, Types, TableTypes
    <3>3. QED
      BY <1>1, <2>1, <2>2, <3>1, <3>2, TypesStay DEF IInv, Types, opVars
  <2>6. KeysInv(j)'
    BY <1>1, <1>3, <1>5, <2>3, KeysStay DEF IInv
  <2>7. StopRequested'
    BY <1>1, <1>2, <1>8 DEF Interrupted, StopRequested
  <2>8. DeadInv(j)'
    BY <1>1, <1>2, <2>1, <2>4, <2>7 DEF DeadInv, Runs
  <2>9. QED
    BY <2>1, <2>4, <2>5, <2>6, <2>8, NotAlive DEF IInv
<1>9. CASE ~Interrupted(r)
  <2>1. /\ applied' = applied \cup {Op(d)} /\ ResolveFuture(H(d), answer[Op(d)])
        /\ pc' = [pc EXCEPT ![r] = "after"]
    BY <1>4, <1>9 DEF ContinueOp
  <2>2. answer[Op(d)] = IF j = 1 THEN Read + 1 ELSE 0
    BY <1>3, <1>5 DEF RunInv, FlightInv
  <2>3. codeWaiters = <<>>
    <3>1. answer[Op(d)] # 0 \/ kind[Op(d)] = "sleep"
      BY <1>1, <1>4, <1>9 DEF Interrupted
    <3>2. j = 1 \/ kind[Op(d)] # "key"
      BY <2>2, <3>1
    <3>3. QED
      BY <1>3, <3>2 DEF RunInv, FlightInv
  <2>4. answer[Op(d)] \in Keys \cup {0}
    BY <1>5 DEF IInv, Types, KeyTypes
  <2>5. RunTypes'
    BY <1>6, <1>7, <2>1 DEF IInv, Types, RunTypes, Phases
  <2>6. pending' = <<>>
    BY <1>1, <1>3
  <2>7. QED
    BY <1>1, <1>2, <1>3, <2>1, <2>2, <2>3, <2>4, <2>5, <2>6, Resolved
<1>10. QED
  BY <1>8, <1>9

\* Nothing is queued: the entry frame, which is suspended, looks at its future.
LEMMA PollRootInv == ASSUME IInv, NEW r \in Runs, PollRoot(r) PROVE IInv'
<1>1. /\ turn = r /\ hi = 0 /\ pc[r] = "loop" /\ ~Ready(root[r])
      /\ pc' = [pc EXCEPT ![r] = "after"]
      /\ UNCHANGED <<pageVars, turn, root, held, sig, tableVars, keyVars, fut, opVars, calls>>
      /\ UNCHANGED <<clicks, bound, table, nextH, pending, issued, owner, kind, applied>>
      /\ UNCHANGED <<keyQueue, codeWaiters, answer, typed, base, got>>
  BY DEF PollRoot, InLoop, At, pageVars, tableVars, opVars, keyVars
<1>2. r = clicks /\ r = bound
  BY <1>1, AtWork DEF AlivePhases
<1>3. PICK j \in {0, 1}, d \in Frames : KeysInv(j) /\ RunInv(d, j)
  BY <1>1, AtWork DEF AlivePhases
<1>4. PICK one \in Frames : one = 1 /\ one <= d
  BY BrowserAssumption DEF Frames, BrowserAssumption
<1>5. root[r] \in DOMAIN table /\ table[root[r]].coro = one
  BY <1>1, <1>2, <1>3, <1>4 DEF RunInv, HandleInv
<1>6. P(one) = "suspended"
  <2>1. P(one) # "done"
    BY <1>1, <1>4, <1>5 DEF Ready, P
  <2>2. (\A f \in Frames : f < d => P(f) = "suspended") /\ P(d) \in {"suspended", "done"}
    BY <1>1, <1>2, <1>3, AllSuspended DEF RunInv
  <2>3. QED
    BY <1>4, <2>1, <2>2 DEF Frames
<1>7. pos' = [pos EXCEPT ![bound][one] = "check"] /\ lo' = one /\ hi' = one /\ astray' = astray
  BY <1>4, <1>5, <1>6 DEF PollRoot, Resume, P
<1>8. /\ pos' \in [Runs -> [Frames -> Positions]]
      /\ \A x \in Runs : x # bound => pos'[x] = pos[x]
      /\ \A g \in Frames : P(g)' = IF g = one THEN "check" ELSE P(g)
  <2>1. "check" \in Positions /\ FrameTypes /\ bound' = bound
    BY <1>1 DEF Positions, IInv, Types
  <2>2. QED
    BY <1>2, <1>7, <2>1, FrameMoves DEF P
<1>9. \A g \in Frames : H(g)' = H(g)
  BY <1>1 DEF H
<1>10. PageInv' /\ Alive' /\ pc'[r] = "after"
  <2>1. lo' = 0 <=> hi' = 0
    BY <1>7
  <2>2. \A x \in Runs : x > bound => pos'[x] = pos[x]
    BY <1>2, <1>8 DEF Runs
  <2>3. /\ pc[r] \in AlivePhases /\ "after" \in AlivePhases \cup {"finally"}
        /\ turn' = r /\ UNCHANGED <<clicks, bound, issued, owner>>
    BY <1>1 DEF AlivePhases
  <2>4. QED
    BY <1>1, <2>1, <2>2, <2>3, PhaseChanges
<1>11. Types'
  <2>1. RunTypes'
    BY <1>1 DEF IInv, Types, RunTypes, Phases
  <2>2. FrameTypes'
    <3>1. fut' \in [Runs -> [Frames -> Nat]]
      BY <1>1 DEF IInv, Types, FrameTypes
    <3>2. lo' \in 0..MaxDepth /\ hi' \in 0..MaxDepth
      BY <1>7 DEF Frames
    <3>3. QED
      BY <1>8, <3>1, <3>2 DEF FrameTypes
  <2>3. QED
    BY <1>1, <2>1, <2>2, TypesStay DEF IInv, Types
<1>12. KeysInv(j)'
  BY <1>1, <1>3, KeysStay DEF IInv
<1>13. ChainInv(d)'
  <2>1. /\ \A f \in Frames : f < d => P(f) = "suspended"
        /\ P(d) \in {"suspended", "done"} /\ ChainInv(d)
    BY <1>1, <1>2, <1>3, AllSuspended DEF RunInv
  <2>2. \A f \in Frames : P(f) = "none" <=> f > d
    BY <2>1 DEF ChainInv
  <2>3. \A f \in Frames : f < d \/ f = d \/ f > d
    BY DEF Frames
  <2>4. QED
    BY <1>4, <1>7, <1>8, <2>1, <2>2, <2>3 DEF ChainInv, Frames
<1>14. HandleInv(d)'
  <2>1. \A g \in Frames : P(g)' \in {"suspended", "check", "driving"} =>
          P(g) \in {"suspended", "check", "driving"}
    BY <1>6, <1>8
  <2>2. pc[bound] # "entry"
    BY <1>1, <1>2
  <2>3. QED
    BY <1>1, <1>3, <1>9, <2>1, <2>2 DEF RunInv, HandleInv
<1>15. OpInv(d)' /\ FlightInv(d, j)'
  <2>1. (Awaits(d)' <=> Awaits(d)) /\ (P(d) = "suspended" => Awaits(d))
    BY <1>6, <1>8 DEF Awaits
  <2>2. Awaits(d) => H(d) \in DOMAIN table
    BY <1>3 DEF RunInv, OpInv
  <2>3. pc[bound] # "op" /\ pc'[bound] # "op"
    BY <1>1, <1>2, <1>10
  <2>4. P(d)' = "suspended" => P(d) = "suspended"
    BY <1>8
  <2>5. QED
    BY <1>1, <1>3, <1>9, <2>1, <2>2, <2>3, <2>4, AwaitedStays DEF RunInv
<1>16. QED
  BY <1>7, <1>10, <1>11, <1>12, <1>13, <1>14, <1>15, StillAlive DEF IInv, RunInv

\* The pace is over, or Stop interrupts it.
LEMMA ContinuePaceInv == ASSUME IInv, NEW r \in Runs, ContinuePace(r) PROVE IInv'
<1>1. /\ turn = 0 /\ pc[r] \in {"flush", "delay"} /\ turn' = r
      /\ pc' = [pc EXCEPT ![r] = IF pc[r] = "delay" /\ Interrupted(r) THEN "finally" ELSE "loop"]
      /\ UNCHANGED <<pageVars, root, held, sig, tableVars, keyVars, frameVars, opVars, calls>>
      /\ UNCHANGED <<clicks, signalled, bound, table, nextH, pending, issued, owner, kind, pos, fut>>
      /\ UNCHANGED <<lo, hi, astray, keyQueue, codeWaiters, answer, typed, base, got>>
  BY DEF ContinuePace, pageVars, tableVars, frameVars, opVars, keyVars
<1>2. r = clicks /\ r = bound /\ hi = 0 /\ lo = 0 /\ r # 0
  <2>1. r = clicks /\ r = bound
    BY <1>1, AtWork DEF AlivePhases
  <2>2. r # 0
    BY DEF Runs
  <2>3. QED
    BY <1>1, <2>1, <2>2 DEF IInv, PageInv
<1>3. PICK q \in {"finally", "loop"} :
        /\ pc' = [pc EXCEPT ![r] = q]
        /\ q = "finally" <=> pc[r] = "delay" /\ Interrupted(r)
  BY <1>1
<1>4. PageInv' /\ pc'[r] = q /\ (Alive' <=> q # "finally")
  <2>1. (lo' = 0 <=> hi' = 0) /\ (hi' # 0 => FALSE)
    BY <1>1, <1>2
  <2>2. q \in AlivePhases \cup {"finally"} /\ q \notin {"op", "flush", "delay"} /\ pc[r] \in AlivePhases
    BY <1>1 DEF AlivePhases
  <2>3. QED
    BY <1>1, <1>3, <2>1, <2>2, PhaseChanges
<1>5. Types'
  <2>1. RunTypes'
    BY <1>1, <1>2, <1>3 DEF IInv, Types, RunTypes, Phases
  <2>2. QED
    BY <1>1, <2>1, TypesStay DEF IInv, Types
<1>6. CASE q = "loop"
  <2>1. pc[r] \in AlivePhases \ {"op"} /\ pc[r] # "entry" /\ q \in AlivePhases \ {"op"} /\ ~astray'
    BY <1>1, <1>6 DEF AlivePhases, IInv
  <2>2. UNCHANGED <<root, bound, table, pending, frameVars, opVars, keyVars>>
    BY <1>1
  <2>3. QED
    BY <1>2, <1>3, <1>4, <1>5, <1>6, <2>1, <2>2, LoopMoves
<1>7. CASE q = "finally"
  <2>1. PICK j \in {0, 1} : KeysInv(j)
    BY DEF IInv
  <2>2. KeysInv(j)'
    BY <1>1, <2>1, KeysStay DEF IInv
  <2>3. sig[r] = clicks
    BY <1>2, <1>3, <1>7 DEF IInv, PageInv
  <2>4. StopRequested'
    BY <1>1, <1>3, <1>7, <2>3 DEF Interrupted, StopRequested
  <2>5. DeadInv(j)'
    BY <1>1, <1>2, <1>4, <1>7, <2>4 DEF DeadInv
  <2>6. QED
    BY <1>1, <1>4, <1>5, <1>7, <2>2, <2>5, NotAlive DEF IInv
<1>8. QED
  BY <1>6, <1>7

\* The end of a run: after a stop, keyboard and futures are empty.
LEMMA FinallyInv == ASSUME IInv, NEW r \in Runs, Finally(r) PROVE IInv'
<1>1. /\ turn = r /\ hi = 0 /\ pc[r] = "finally"
      /\ pos' = Freed(root[r])
      /\ turn' = 0
      /\ pc' = [pc EXCEPT ![r] = "ended"]
      /\ root' = [root EXCEPT ![r] = 0]
      /\ UNCHANGED <<clicks, signalled, held, sig, bound, answer, typed, fut, lo, hi, astray,
                     opVars, calls>>
      /\ UNCHANGED <<issued, owner, kind, applied>>
  BY DEF Finally, At, opVars
<1>2. r = clicks /\ r # 0 /\ r = bound /\ r \in Nat /\ ~Alive
  BY <1>1, BrowserAssumption DEF IInv, PageInv, Runs, Alive, AlivePhases, BrowserAssumption
<1>3. PICK j \in {0, 1} : KeysInv(j) /\ DeadInv(j)
  BY <1>2 DEF IInv
<1>4. pc'[r] = "ended" /\ \A x \in Runs : x # r => pc'[x] = pc[x]
  BY <1>1 DEF IInv, Types, RunTypes
<1>5. pos' \in [Runs -> [Frames -> Positions]] /\ \A x \in Runs : x # bound => pos'[x] = pos[x]
  <2>1. "none" \in Positions /\ pos \in [Runs -> [Frames -> Positions]]
    BY DEF Positions, IInv, Types, FrameTypes
  <2>2. CASE root[r] \in DOMAIN table /\ table[root[r]].coro # 0
    <3>1. PICK f \in Frames : f = table[root[r]].coro
      BY <2>2 DEF IInv, Types, TableTypes, Entries
    <3>2. pos' = [pos EXCEPT ![bound][f] = "none"]
      BY <1>1, <2>2, <3>1 DEF Freed
    <3>3. QED
      BY <1>2, <2>1, <3>2
  <2>3. CASE ~(root[r] \in DOMAIN table /\ table[root[r]].coro # 0)
    BY <1>1, <2>1, <2>3 DEF Freed
  <2>4. QED
    BY <2>2, <2>3
<1>6. PageInv' /\ ~Alive'
  <2>1. ~Alive'
    BY <1>1, <1>2, <1>4 DEF Alive, AlivePhases
  <2>2. \A x \in Runs : x > bound => pos'[x] = pos[x]
    BY <1>2, <1>5 DEF Runs
  <2>3. lo' = 0 <=> hi' = 0
    BY <1>1 DEF IInv, PageInv
  <2>4. \A x \in Runs : (x < clicks' => pc'[x] = "ended") /\ (x > clicks' => pc'[x] = "none")
    BY <1>1, <1>2, <1>4 DEF IInv, PageInv, Runs
  <2>5. pc'[clicks'] = "ended" /\ hi' = 0 /\ turn' = 0 /\ bound' <= clicks'
    BY <1>1, <1>2, <1>4
  <2>6. /\ \A n \in 1..issued' : owner'[n] <= bound'
        /\ \A x \in Runs : x > bound' => \A f \in Frames : pos'[x][f] = "none"
    BY <1>1, <2>2 DEF IInv, PageInv
  <2>7. PageInv'
    BY <2>3, <2>4, <2>5, <2>6 DEF PageInv, AlivePhases
  <2>8. QED
    BY <2>1, <2>7
<1>7. RunTypes' /\ FrameTypes' /\ OpTypes'
  <2>1. RunTypes'
    BY <1>1, BrowserAssumption DEF IInv, Types, RunTypes, Phases, BrowserAssumption
  <2>2. FrameTypes'
    BY <1>1, <1>5 DEF IInv, Types, FrameTypes
  <2>3. QED
    BY <1>1, <2>1, <2>2, TypesStay DEF IInv, Types
<1>8. CASE StopRequested
  <2>1. /\ keyQueue' = <<>> /\ codeWaiters' = <<>> /\ base' = typed /\ got' = <<>>
        /\ table' = <<>> /\ nextH' = 1 /\ pending' = <<>>
    BY <1>8 DEF Finally, ResetKeyboard, ResetFutures
  <2>2. Types'
    <3>1. KeyTypes'
      <4>1. <<>> \in Seq(Keys)
        OBVIOUS
      <4>2. QED
        BY <1>1, <2>1, <4>1, BrowserAssumption DEF IInv, Types, KeyTypes, BrowserAssumption
    <3>2. TableTypes'
      BY <1>1, <2>1 DEF IInv, Types, TableTypes
    <3>3. QED
      BY <1>7, <3>1, <3>2 DEF Types
  <2>3. KeysInv(0)'
    BY <1>1, <1>3, <2>1, BrowserAssumption
    DEF KeysInv, Read, IInv, Types, KeyTypes, Keys, BrowserAssumption
  <2>4. DeadInv(0)'
    BY <1>1, <2>1 DEF DeadInv
  <2>5. QED
    BY <1>1, <1>6, <2>2, <2>3, <2>4, NotAlive DEF IInv
<1>9. CASE ~StopRequested
  <2>1. /\ table' = Drop(root[r])
        /\ UNCHANGED <<nextH, pending, keyQueue, codeWaiters, base, got>>
    BY <1>9 DEF Finally
  <2>2. j = 0 /\ codeWaiters = <<>>
    BY <1>3, <1>9 DEF DeadInv
  <2>3. /\ DOMAIN table' = DOMAIN table \ {root[r]}
        /\ \A x \in DOMAIN table' : table'[x] = table[x]
        /\ \A x \in DOMAIN table' : table'[x] \in Entries
    BY <2>1, EntryDropped DEF IInv, Types
  <2>4. Types'
    <3>1. TableTypes'
      BY <1>1, <2>1, <2>3 DEF IInv, Types, TableTypes
    <3>2. QED
      BY <1>1, <1>7, <2>1, <3>1, TypesStay DEF IInv, Types
  <2>5. KeysInv(0)'
    BY <1>1, <1>3, <2>1, <2>2, <2>3, KeysStay DEF IInv
  <2>6. DeadInv(0)'
    BY <1>1, <2>1, <2>2 DEF DeadInv
  <2>7. QED
    BY <1>1, <1>6, <2>4, <2>5, <2>6, NotAlive DEF IInv
<1>10. QED
  BY <1>8, <1>9

-----------------------------------------------------------------------------
(* Each action of the page preserves the invariant. *)

\* While the page is quiet no frame has the stack, and no run is about to end.
LEMMA QuietPage ==
    ASSUME IInv, Quiet
    PROVE  /\ turn = 0 /\ hi = 0 /\ lo = 0
           /\ clicks # 0 => pc[clicks] # "finally"
           /\ \A j \in {0, 1} : ~Alive /\ DeadInv(j) => j = 0 /\ codeWaiters = <<>>
BY DEF IInv, PageInv, Quiet, DeadInv

\* A key: it answers the only waiter, or joins the queue.
LEMMA KeyDownInv == ASSUME IInv, KeyDown PROVE IInv'
<1>1. /\ Quiet /\ typed < MaxKeys /\ typed' = typed + 1
      /\ UNCHANGED <<pageVars, runVars, tableVars, base, got, frameVars, opVars, calls>>
      /\ UNCHANGED <<clicks, signalled, turn, pc, root, held, sig, bound, table, nextH, pending>>
      /\ UNCHANGED <<pos, fut, lo, hi, astray, issued, kind, owner, applied>>
  BY DEF KeyDown, pageVars, runVars, tableVars, frameVars, opVars
<1>2. KeyTypes /\ typed + 1 \in Keys /\ typed \in Nat /\ base \in Nat /\ Read \in Nat
      /\ Read' = Read /\ Len(keyQueue) \in Nat /\ keyQueue \in Seq(Keys)
      /\ answer \in [Ops -> Keys \cup {0}]
  BY <1>1, BrowserAssumption DEF IInv, Types, KeyTypes, Keys, Read, BrowserAssumption
<1>3. PageInv' /\ (Alive' <=> Alive) /\ ~astray'
  BY <1>1 DEF IInv, PageInv, Alive
<1>4. RunTypes' /\ TableTypes' /\ FrameTypes' /\ OpTypes'
  BY <1>1, TypesStay DEF IInv, Types
<1>5. PICK j \in {0, 1} : KeysInv(j) /\ IF Alive THEN LiveInv(j) ELSE DeadInv(j)
  BY DEF IInv
<1>6. \A f \in Frames : P(f)' = P(f) /\ H(f)' = H(f)
  BY <1>1 DEF P, H
<1>7. ASSUME NEW d \in Frames, ChainInv(d), HandleInv(d), OpInv(d)
      PROVE  /\ ChainInv(d)' /\ HandleInv(d)' /\ OpInv(d)'
             /\ (Awaits(d)' <=> Awaits(d)) /\ (Blocked(d)' <=> Blocked(d)) /\ Op(d)' = Op(d)
  <2>1. (Awaits(d)' <=> Awaits(d)) /\ (Blocked(d)' <=> Blocked(d)) /\ Op(d)' = Op(d)
    BY <1>1, <1>6 DEF Awaits, Blocked, Op
  <2>2. ChainInv(d)'
    BY <1>1, <1>6, <1>7 DEF ChainInv
  <2>3. HandleInv(d)'
    BY <1>1, <1>6, <1>7 DEF HandleInv
  <2>4. OpInv(d)'
    BY <1>1, <1>6, <1>7, <2>1 DEF OpInv
  <2>5. QED
    BY <2>1, <2>2, <2>3, <2>4
<1>8. CASE codeWaiters # <<>>
  <2>1. /\ answer' = [answer EXCEPT ![Head(codeWaiters)] = typed + 1]
        /\ codeWaiters' = Tail(codeWaiters) /\ keyQueue' = keyQueue
    BY <1>8 DEF KeyDown
  <2>2. Alive
    BY <1>1, <1>5, <1>8, QuietPage
  <2>3. PICK d \in Frames : RunInv(d, j)
    BY <1>5, <2>2 DEF LiveInv
  <2>4. /\ Blocked(d) /\ kind[Op(d)] = "key" /\ j = 0 /\ codeWaiters = <<Op(d)>>
        /\ keyQueue = <<>> /\ Awaits(d) /\ ~table[H(d)].done
    BY <1>8, <2>3 DEF RunInv, FlightInv, Blocked
  <2>5. PICK n \in Ops : n = Op(d) /\ n <= issued
    BY <2>3, <2>4, BrowserAssumption
    DEF RunInv, OpInv, IInv, Types, OpTypes, Ops, BrowserAssumption
  <2>6. Head(codeWaiters) = n /\ codeWaiters' = <<>>
    BY <2>1, <2>4, <2>5
  <2>7. \A x \in Ops : answer'[x] = IF x = n THEN typed + 1 ELSE answer[x]
    BY <1>2, <2>1, <2>6
  <2>8. Types'
    <3>1. answer' \in [Ops -> Keys \cup {0}]
      BY <1>2, <2>1, <2>6
    <3>2. typed' \in 0..MaxKeys /\ base' \in 0..typed' /\ got' \in Seq(Keys)
      BY <1>1, <1>2 DEF KeyTypes, Keys
    <3>3. KeyTypes'
      BY <1>2, <2>1, <3>1, <3>2 DEF KeyTypes
    <3>4. QED
      BY <1>4, <3>3 DEF Types
  <2>9. typed = Read
    BY <1>2, <1>5, <2>4 DEF KeysInv
  <2>10. KeysInv(1)'
    <3>1. \A x \in Ops : answer[x] <= Read /\ answer[x] \in Nat
                         /\ (answer[x] # 0 => x <= issued /\ kind[x] = "key")
      BY <1>2, <1>5, <2>4 DEF KeysInv, Keys
    <3>2. \A x \in DOMAIN table : table[x].result <= Read /\ table[x].result \in Nat
      BY <1>2, <1>5, <2>4 DEF KeysInv, IInv, Types, TableTypes, Entries, Keys
    <3>3. \A x \in Ops : /\ answer'[x] <= Read' + 1
                         /\ answer'[x] # 0 => x <= issued' /\ kind'[x] = "key"
      BY <1>1, <1>2, <2>4, <2>5, <2>7, <2>9, <3>1
    <3>4. \A x \in DOMAIN table' : table'[x].result <= Read' + 1
      BY <1>1, <1>2, <3>2
    <3>5. Read' + 1 + Len(keyQueue') = typed'
      BY <1>1, <1>2, <2>1, <2>4, <2>9
    <3>6. answer'[n] = Read' + 1
      BY <1>2, <2>5, <2>7, <2>9
    <3>7. (\A i \in DOMAIN got' : got'[i] = base' + i)
          /\ \A i \in DOMAIN keyQueue' : keyQueue'[i] = Read' + 1 + i
      BY <1>1, <1>5, <2>1, <2>4 DEF KeysInv
    <3>8. QED
      BY <3>3, <3>4, <3>5, <3>6, <3>7 DEF KeysInv
  <2>11. ChainInv(d)' /\ HandleInv(d)' /\ OpInv(d)' /\ Awaits(d)' /\ Blocked(d)' /\ Op(d)' = n
    BY <1>7, <2>3, <2>4, <2>5 DEF RunInv
  <2>12. FlightInv(d, 1)'
    <3>1. ~table'[H(d)'].done /\ table'[H(d)'].result = 0 /\ answer'[Op(d)'] = Read' + 1
      BY <1>1, <1>2, <1>6, <2>3, <2>4, <2>5, <2>7, <2>9, <2>11 DEF RunInv, FlightInv
    <3>2. QED
      BY <2>6, <2>11, <3>1 DEF FlightInv
  <2>13. QED
    BY <1>3, <2>2, <2>8, <2>10, <2>11, <2>12, StillAlive DEF RunInv
<1>9. CASE codeWaiters = <<>>
  <2>1. keyQueue' = Append(keyQueue, typed + 1) /\ UNCHANGED <<answer, codeWaiters>>
    BY <1>9 DEF KeyDown
  <2>2. /\ keyQueue' \in Seq(Keys) /\ Len(keyQueue') = Len(keyQueue) + 1
        /\ \A i \in 1..(Len(keyQueue) + 1) :
             keyQueue'[i] = IF i <= Len(keyQueue) THEN keyQueue[i] ELSE typed + 1
    BY <1>2, <2>1
  <2>3. Types'
    <3>1. typed' \in 0..MaxKeys /\ base' \in 0..typed' /\ got' \in Seq(Keys)
      BY <1>1, <1>2 DEF KeyTypes, Keys
    <3>2. KeyTypes'
      BY <1>2, <2>1, <2>2, <3>1 DEF KeyTypes
    <3>3. QED
      BY <1>4, <3>2 DEF Types
  <2>4. KeysInv(j)'
    <3>1. Read + j + Len(keyQueue) = typed
      BY <1>5 DEF KeysInv
    <3>2. \A i \in DOMAIN keyQueue' : keyQueue'[i] = Read' + j + i
      <4>1. \A i \in 1..Len(keyQueue) : keyQueue[i] = Read + j + i
        <5>1. DOMAIN keyQueue = 1..Len(keyQueue)
          BY <1>2
        <5>2. QED
          BY <1>5, <5>1 DEF KeysInv
      <4>2. DOMAIN keyQueue' = 1..(Len(keyQueue) + 1)
        BY <2>2
      <4>3. Read \in Nat /\ Len(keyQueue) \in Nat /\ Read' = Read /\ j \in Nat
        BY <1>2
      <4>4. \A i \in 1..(Len(keyQueue) + 1) : i <= Len(keyQueue) => keyQueue'[i] = Read + j + i
        BY <2>2, <4>1, <4>3
      <4>5. \A i \in 1..(Len(keyQueue) + 1) : ~(i <= Len(keyQueue)) =>
               i = Len(keyQueue) + 1 /\ keyQueue'[i] = typed + 1
        BY <2>2, <4>3
      <4>6. typed + 1 = Read + j + (Len(keyQueue) + 1)
        BY <3>1, <4>3
      <4>7. QED
        BY <4>2, <4>3, <4>4, <4>5, <4>6
    <3>3. Read' + j + Len(keyQueue') = typed'
      BY <1>1, <1>2, <2>2, <3>1
    <3>4. /\ \A i \in DOMAIN got' : got'[i] = base' + i
          /\ \A n \in Ops : /\ answer'[n] <= Read' + j
                            /\ answer'[n] # 0 => n <= issued' /\ kind'[n] = "key"
          /\ \A h \in DOMAIN table' : table'[h].result <= Read' + j
          /\ j = 1 => \/ \E n \in Ops : answer'[n] = Read' + 1
                      \/ \E h \in DOMAIN table' : table'[h].result = Read' + 1
      BY <1>1, <1>2, <1>5, <2>1 DEF KeysInv
    <3>5. QED
      BY <3>2, <3>3, <3>4 DEF KeysInv
  <2>5. CASE Alive
    <3>1. PICK d \in Frames : RunInv(d, j)
      BY <1>5, <2>5 DEF LiveInv
    <3>2. /\ ChainInv(d)' /\ HandleInv(d)' /\ OpInv(d)'
          /\ (Awaits(d)' <=> Awaits(d)) /\ (Blocked(d)' <=> Blocked(d)) /\ Op(d)' = Op(d)
      BY <1>7, <3>1 DEF RunInv
    <3>3. FlightInv(d, j)'
      BY <1>1, <1>2, <1>6, <1>9, <2>1, <3>1, <3>2 DEF RunInv, FlightInv
    <3>4. QED
      BY <1>3, <2>3, <2>4, <2>5, <3>2, <3>3, StillAlive DEF RunInv
  <2>6. CASE ~Alive
    <3>1. DeadInv(j)'
      BY <1>1, <1>5, <2>1, <2>6 DEF DeadInv, StopRequested
    <3>2. QED
      BY <1>3, <2>3, <2>4, <2>6, <3>1, NotAlive
  <2>7. QED
    BY <2>5, <2>6
<1>10. QED
  BY <1>8, <1>9

\* Run is clicked: no other run is at work.
LEMMA ClickRunInv == ASSUME OneClick, IInv, ClickRun PROVE IInv'
<1>1. /\ Quiet /\ (\A r \in Runs : Over(r)) /\ clicks < MaxRuns /\ clicks' = clicks + 1
      /\ pc' = [pc EXCEPT ![clicks + 1] = "compile"]
      /\ UNCHANGED <<signalled, runEnabled, turn, root, held, sig, tableVars, keyVars, frameVars,
                     opVars, calls>>
      /\ UNCHANGED <<bound, table, nextH, pending, issued, owner, kind, applied, pos, fut, lo, hi>>
      /\ UNCHANGED <<astray, keyQueue, codeWaiters, answer, typed, base, got>>
  BY DEF ClickRun, OneClick, tableVars, frameVars, opVars, keyVars
<1>2. clicks \in Nat /\ clicks + 1 \in Runs /\ bound \in Nat /\ clicks + 1 # 0
  BY <1>1, BrowserAssumption DEF IInv, Types, RunTypes, TableTypes, Runs, BrowserAssumption
<1>3. clicks # 0 => clicks \in Runs /\ pc[clicks] = "ended"
  BY <1>1, <1>2, BrowserAssumption DEF Over, IInv, PageInv, Runs, BrowserAssumption
<1>4. ~Alive
  BY <1>3 DEF Alive, AlivePhases
<1>5. PICK j \in {0, 1} : KeysInv(j) /\ DeadInv(j)
  BY <1>4 DEF IInv
<1>6. turn = 0 /\ hi = 0 /\ lo = 0 /\ j = 0 /\ codeWaiters = <<>>
  BY <1>1, <1>4, <1>5, QuietPage
<1>7. pc'[clicks'] = "compile" /\ \A r \in Runs : r # clicks' => pc'[r] = pc[r]
  BY <1>1, <1>2 DEF IInv, Types, RunTypes
<1>8. PageInv' /\ ~Alive'
  <2>1. ~Alive'
    BY <1>7 DEF Alive, AlivePhases
  <2>2. \A r \in Runs : (r < clicks' => pc'[r] = "ended") /\ (r > clicks' => pc'[r] = "none")
    BY <1>1, <1>2, <1>3, <1>7 DEF IInv, PageInv, Runs
  <2>3. bound' < clicks' /\ bound' <= clicks'
    BY <1>1, <1>2 DEF IInv, PageInv
  <2>4. turn' = 0 /\ hi' = 0 /\ lo' = 0
    BY <1>1, <1>6
  <2>5. /\ \A n \in 1..issued' : owner'[n] <= bound'
        /\ \A r \in Runs : r > bound' => \A f \in Frames : pos'[r][f] = "none"
    BY <1>1 DEF IInv, PageInv
  <2>6. PageInv'
    BY <1>7, <2>2, <2>3, <2>4, <2>5 DEF PageInv, AlivePhases
  <2>7. QED
    BY <2>1, <2>6
<1>9. Types'
  <2>1. RunTypes'
    BY <1>1, <1>2 DEF IInv, Types, RunTypes, Phases, Runs
  <2>2. QED
    BY <1>1, <2>1, TypesStay DEF IInv, Types
<1>10. KeysInv(0)'
  BY <1>1, <1>5, <1>6, KeysStay DEF IInv
<1>11. DeadInv(0)'
  BY <1>1, <1>6 DEF DeadInv
<1>12. QED
  BY <1>1, <1>8, <1>9, <1>10, <1>11, NotAlive DEF IInv

\* Stop is clicked.
LEMMA RequestStopInv == ASSUME IInv, RequestStop PROVE IInv'
<1>1. /\ ~StopRequested
      /\ UNCHANGED <<clicks, runEnabled, runVars, tableVars, keyVars, frameVars, opVars, calls>>
      /\ UNCHANGED <<turn, pc, root, held, sig, bound, table, nextH, pending, issued, owner, kind>>
      /\ UNCHANGED <<applied, pos, fut, lo, hi, astray>>
      /\ UNCHANGED <<keyQueue, codeWaiters, answer, typed, base, got>>
  BY DEF RequestStop, runVars, tableVars, frameVars, opVars, keyVars
<1>2. Types'
  BY <1>1, TypesStay DEF IInv, Types
<1>3. PageInv' /\ (Alive' <=> Alive) /\ ~astray'
  BY <1>1 DEF IInv, PageInv, Alive
<1>4. PICK j \in {0, 1} : KeysInv(j) /\ IF Alive THEN LiveInv(j) ELSE DeadInv(j)
  BY DEF IInv
<1>5. KeysInv(j)'
  BY <1>1, <1>4, KeysStay DEF IInv
<1>6. CASE Alive
  <2>1. PICK d \in Frames : RunInv(d, j)
    BY <1>4, <1>6 DEF LiveInv
  <2>2. RunInv(d, j)'
    BY <1>1, <2>1
    DEF RunInv, ChainInv, HandleInv, OpInv, FlightInv, Blocked, Awaits, Op, P, H, Read
  <2>3. QED
    BY <1>2, <1>3, <1>5, <1>6, <2>2, StillAlive
<1>7. CASE ~Alive
  <2>1. DeadInv(j)'
    BY <1>1, <1>4, <1>7 DEF DeadInv
  <2>2. QED
    BY <1>2, <1>3, <1>5, <1>7, <2>1, NotAlive
<1>8. QED
  BY <1>6, <1>7

\* A run that is being compiled is the newest, and its instance is not bound.
LEMMA Compiling ==
    ASSUME IInv, Quiet, NEW r \in Runs, pc[r] = "compile"
    PROVE  /\ r = clicks /\ r \in Nat /\ r # 0 /\ bound \in Nat /\ bound < r /\ ~Alive
           /\ turn = 0 /\ hi = 0 /\ lo = 0
           /\ KeysInv(0) /\ codeWaiters = <<>>
<1>1. r \in Nat /\ r # 0 /\ clicks \in Nat /\ bound \in Nat
  BY BrowserAssumption DEF Runs, IInv, Types, RunTypes, TableTypes, BrowserAssumption
<1>2. r = clicks
  BY <1>1 DEF IInv, PageInv
<1>3. bound < r /\ ~Alive
  BY <1>1, <1>2 DEF IInv, PageInv, Alive, AlivePhases
<1>4. PICK j \in {0, 1} : KeysInv(j) /\ DeadInv(j)
  BY <1>3 DEF IInv
<1>5. j = 0 /\ codeWaiters = <<>> /\ turn = 0 /\ hi = 0 /\ lo = 0
  BY <1>3, <1>4, QuietPage
<1>6. QED
  BY <1>1, <1>2, <1>3, <1>4, <1>5

\* The compile service is out of reach, or refuses the program.
LEMMA CompileFailsInv == ASSUME IInv, NEW r \in Runs, CompileFails(r) PROVE IInv'
<1>1. /\ Quiet /\ pc[r] = "compile" /\ pc' = [pc EXCEPT ![r] = "ended"]
      /\ UNCHANGED <<pageVars, turn, root, held, sig, tableVars, keyVars, frameVars, opVars, calls>>
      /\ UNCHANGED <<clicks, bound, table, nextH, pending, issued, owner, kind, applied>>
      /\ UNCHANGED <<pos, fut, lo, hi, astray, keyQueue, codeWaiters, answer, typed, base, got>>
  BY DEF CompileFails, pageVars, tableVars, frameVars, opVars, keyVars
<1>2. /\ r = clicks /\ r \in Nat /\ r # 0 /\ bound \in Nat /\ bound < r
      /\ turn = 0 /\ hi = 0 /\ lo = 0 /\ KeysInv(0) /\ codeWaiters = <<>>
  BY <1>1, Compiling
<1>3. pc'[r] = "ended" /\ \A x \in Runs : x # r => pc'[x] = pc[x]
  BY <1>1 DEF IInv, Types, RunTypes
<1>4. PageInv' /\ ~Alive'
  <2>1. ~Alive'
    BY <1>1, <1>2, <1>3 DEF Alive, AlivePhases
  <2>2. \A x \in Runs : (x < clicks' => pc'[x] = "ended") /\ (x > clicks' => pc'[x] = "none")
    BY <1>1, <1>2, <1>3 DEF IInv, PageInv, Runs
  <2>3. pc'[clicks'] = "ended" /\ hi' = 0 /\ lo' = 0 /\ turn' = 0 /\ bound' <= clicks'
    BY <1>1, <1>2, <1>3
  <2>4. /\ \A n \in 1..issued' : owner'[n] <= bound'
        /\ \A x \in Runs : x > bound' => \A f \in Frames : pos'[x][f] = "none"
    BY <1>1 DEF IInv, PageInv
  <2>5. PageInv'
    BY <2>2, <2>3, <2>4 DEF PageInv, AlivePhases
  <2>6. QED
    BY <2>1, <2>5
<1>5. Types'
  <2>1. RunTypes'
    BY <1>1 DEF IInv, Types, RunTypes, Phases
  <2>2. QED
    BY <1>1, <2>1, TypesStay DEF IInv, Types
<1>6. KeysInv(0)'
  BY <1>1, <1>2, KeysStay DEF IInv
<1>7. DeadInv(0)'
  BY <1>1, <1>2 DEF DeadInv
<1>8. QED
  BY <1>1, <1>4, <1>5, <1>6, <1>7, NotAlive DEF IInv

\* The instance is there: nothing of an earlier run is left in the table, the
\* queues or the keyboard, and the entry frame has the stack.
LEMMA BeginInv == ASSUME IInv, NEW r \in Runs, Begin(r) PROVE IInv'
<1>1. /\ Quiet /\ pc[r] = "compile" /\ turn' = r /\ pc' = [pc EXCEPT ![r] = "entry"]
      /\ keyQueue' = <<>> /\ codeWaiters' = <<>> /\ base' = typed /\ got' = <<>>
      /\ bound' = r /\ table' = <<>> /\ nextH' = 1 /\ pending' = <<>>
      /\ pos' = [pos EXCEPT ![r][1] = "run"] /\ lo' = 1 /\ hi' = 1
      /\ UNCHANGED <<clicks, signalled, root, held, sig, answer, typed, fut, astray, opVars, calls>>
      /\ UNCHANGED <<issued, owner, kind, applied>>
  BY DEF Begin, ResetKeyboard, ResetFutures, opVars
<1>2. /\ r = clicks /\ r \in Nat /\ r # 0 /\ bound \in Nat /\ bound < r /\ KeysInv(0)
  BY <1>1, Compiling
<1>3. pc'[r] = "entry" /\ \A x \in Runs : x # r => pc'[x] = pc[x]
  BY <1>1 DEF IInv, Types, RunTypes
<1>4. PICK one \in Frames : one = 1 /\ one # 0
  BY BrowserAssumption DEF Frames, BrowserAssumption
<1>5. /\ pos' \in [Runs -> [Frames -> Positions]]
      /\ \A x \in Runs : x # r => pos'[x] = pos[x]
      /\ \A g \in Frames : P(g)' = IF g = one THEN "run" ELSE "none"
  <2>1. "run" \in Positions /\ FrameTypes /\ pos' = [pos EXCEPT ![r][one] = "run"]
    BY <1>1, <1>4 DEF Positions, IInv, Types
  <2>2. \A g \in Frames : pos[r][g] = "none"
    BY <1>2 DEF IInv, PageInv
  <2>3. /\ pos' \in [Runs -> [Frames -> Positions]]
        /\ \A x \in Runs : x # r => pos'[x] = pos[x]
        /\ \A g \in Frames : pos'[r][g] = IF g = one THEN "run" ELSE pos[r][g]
    BY <2>1, FrameMoves
  <2>4. QED
    BY <1>1, <2>2, <2>3 DEF P
<1>6. PageInv' /\ Alive'
  <2>1. Alive'
    BY <1>1, <1>2, <1>3 DEF Alive, AlivePhases
  <2>2. \A x \in Runs : (x < clicks' => pc'[x] = "ended") /\ (x > clicks' => pc'[x] = "none")
    BY <1>1, <1>2, <1>3 DEF IInv, PageInv, Runs
  <2>3. pc'[clicks'] = "entry" /\ hi' # 0 /\ lo' # 0 /\ turn' # 0 /\ turn' = clicks' /\ bound' = clicks'
        /\ bound' <= clicks'
    BY <1>1, <1>2, <1>3
  <2>4. \A n \in 1..issued' : owner'[n] <= bound' /\ owner'[n] # bound'
    BY <1>1, <1>2, BrowserAssumption
    DEF IInv, PageInv, Types, OpTypes, Ops, BrowserAssumption
  <2>5. \A x \in Runs : x > bound' => \A f \in Frames : pos'[x][f] = "none"
    BY <1>1, <1>2, <1>5 DEF IInv, PageInv, Runs
  <2>6. PageInv'
    BY <2>2, <2>3, <2>4, <2>5 DEF PageInv, AlivePhases
  <2>7. QED
    BY <2>1, <2>6
<1>7. \A n \in 1..issued' : owner'[n] # bound'
  BY <1>1, <1>2, BrowserAssumption
  DEF IInv, PageInv, Types, OpTypes, Ops, BrowserAssumption
<1>8. Types'
  <2>1. RunTypes'
    BY <1>1, BrowserAssumption DEF IInv, Types, RunTypes, Phases, Runs, BrowserAssumption
  <2>2. TableTypes'
    BY <1>1 DEF TableTypes, Runs
  <2>3. KeyTypes'
    <3>1. <<>> \in Seq(Keys)
      OBVIOUS
    <3>2. QED
      BY <1>1, <3>1, BrowserAssumption DEF IInv, Types, KeyTypes, BrowserAssumption
  <2>4. FrameTypes'
    <3>1. lo' \in 0..MaxDepth /\ hi' \in 0..MaxDepth
      BY <1>1, BrowserAssumption DEF BrowserAssumption
    <3>2. fut' \in [Runs -> [Frames -> Nat]]
      BY <1>1 DEF IInv, Types, FrameTypes
    <3>3. QED
      BY <1>5, <3>1, <3>2 DEF FrameTypes
  <2>5. OpTypes'
    BY <1>1, TypesStay DEF IInv, Types
  <2>6. QED
    BY <2>1, <2>2, <2>3, <2>4, <2>5 DEF Types
<1>9. KeysInv(0)'
  BY <1>1, <1>2, BrowserAssumption
  DEF KeysInv, Read, IInv, Types, KeyTypes, Keys, BrowserAssumption
<1>10. RunInv(one, 0)'
  <2>1. ChainInv(one)'
    BY <1>1, <1>4, <1>5 DEF ChainInv, Frames
  <2>2. HandleInv(one)'
    BY <1>1, <1>3, <1>4, <1>5 DEF HandleInv
  <2>3. ~Awaits(one)' /\ ~Blocked(one)' /\ P(one)' = "run"
    BY <1>5 DEF Awaits, Blocked
  <2>4. OpInv(one)'
    BY <1>1, <1>3, <1>7, <2>3 DEF OpInv
  <2>5. FlightInv(one, 0)'
    BY <1>1, <2>3 DEF FlightInv
  <2>6. QED
    BY <2>1, <2>2, <2>4, <2>5 DEF RunInv
<1>11. QED
  BY <1>1, <1>6, <1>8, <1>9, <1>10, StillAlive DEF IInv

-----------------------------------------------------------------------------
(* The invariant, and what follows for the program. *)

\* The initial state.
LEMMA InitInv == Init => IInv
<1> SUFFICES ASSUME Init PROVE IInv
  OBVIOUS
<1>1. RunTypes
  BY BrowserAssumption DEF Init, RunTypes, Phases, Nothing, BrowserAssumption
<1>2. TableTypes
  BY BrowserAssumption DEF Init, TableTypes, BrowserAssumption
<1>3. KeyTypes
  <2>1. <<>> \in Seq(Keys)
    OBVIOUS
  <2>2. QED
    BY <2>1, BrowserAssumption DEF Init, KeyTypes, BrowserAssumption
<1>4. FrameTypes
  BY BrowserAssumption DEF Init, FrameTypes, Positions, BrowserAssumption
<1>5. OpTypes
  BY BrowserAssumption DEF Init, OpTypes, Kinds, BrowserAssumption
<1>6. PageInv
  BY BrowserAssumption DEF Init, PageInv, Runs, Frames, BrowserAssumption
<1>7. KeysInv(0)
  BY DEF Init, KeysInv, Read
<1>8. ~Alive /\ DeadInv(0) /\ ~astray
  BY DEF Init, Alive, DeadInv
<1>9. QED
  BY <1>1, <1>2, <1>3, <1>4, <1>5, <1>6, <1>7, <1>8 DEF IInv, Types

\* Every step preserves the invariant.
LEMMA NextInv == ASSUME OneClick, IInv, [Next]_vars PROVE IInv'
<1>1. CASE UNCHANGED vars
  <2>1. /\ UNCHANGED <<clicks, signalled, turn, pc, root, held, sig, bound, table, nextH, pending>>
        /\ UNCHANGED <<pos, fut, lo, hi, astray, issued, kind, owner, applied>>
        /\ UNCHANGED <<keyQueue, codeWaiters, answer, typed, base, got>>
    BY <1>1 DEF vars, pageVars, runVars, tableVars, keyVars, frameVars, opVars
  <2>2. Types'
    BY <2>1 DEF IInv, Types, RunTypes, TableTypes, KeyTypes, FrameTypes, OpTypes
  <2>3. PageInv' /\ (Alive' <=> Alive) /\ ~astray'
    BY <2>1 DEF IInv, PageInv, Alive
  <2>4. PICK j \in {0, 1} : KeysInv(j) /\ IF Alive THEN LiveInv(j) ELSE DeadInv(j)
    BY DEF IInv
  <2>5. KeysInv(j)'
    BY <2>1, <2>4, KeysStay DEF IInv
  <2>6. CASE Alive
    <3>1. PICK d \in Frames : RunInv(d, j)
      BY <2>4, <2>6 DEF LiveInv
    <3>2. RunInv(d, j)'
      BY <2>1, <3>1
      DEF RunInv, ChainInv, HandleInv, OpInv, FlightInv, Blocked, Awaits, Op, P, H, Read
    <3>3. QED
      BY <2>2, <2>3, <2>5, <2>6, <3>2, StillAlive
  <2>7. CASE ~Alive
    <3>1. DeadInv(j)'
      BY <2>1, <2>4, <2>7 DEF DeadInv, StopRequested
    <3>2. QED
      BY <2>2, <2>3, <2>5, <2>7, <3>1, NotAlive
  <2>8. QED
    BY <2>6, <2>7
<1>2. CASE KeyDown \/ ClickRun \/ RequestStop
  BY <1>2, KeyDownInv, ClickRunInv, RequestStopInv
<1>3. ASSUME NEW r \in Runs, CompileFails(r) \/ Begin(r) PROVE IInv'
  BY <1>3, CompileFailsInv, BeginInv
<1>4. CASE ProgramStep
  BY <1>4, CallOpInv, KeyCodeInv, KeyboardResetInv, CallChildInv, FinishInv, AwaitReadyInv,
     AwaitSuspendInv, YieldInv, TrapInv
  DEF ProgramStep
<1>5. ASSUME NEW r \in Runs, RunStep(r) PROVE IInv'
  BY <1>5, WrapEntryInv, LeaveLoopInv, ExecuteStepInv, ExecuteThrowsInv, ExecuteAsyncInv,
     ContinueOpInv, PollRootInv, PaceInv, ContinuePaceInv, FinallyInv
  DEF RunStep
<1>6. QED
  BY <1>1, <1>2, <1>3, <1>4, <1>5 DEF Next

\* In every reachable state the newest run's frames form a chain, whose deepest
\* frame alone awaits an operation, to which every queued operation, waiter and
\* key in flight belongs.
THEOREM Invariance ==
    ASSUME OneClick
    PROVE  Spec => []IInv
<1>1. Init => IInv
  BY InitInv
<1>2. IInv /\ [Next]_vars => IInv'
  BY NextInv
<1>3. QED
  BY <1>1, <1>2, PTL DEF Spec

\* Wherever the program is in its own code, every operation it called before has
\* taken effect.
THEOREM CallsAreAwaited ==
    ASSUME OneClick
    PROVE  Spec => []AwaitedIsApplied
<1>1. IInv => AwaitedIsApplied
  BY InvAwaited
<1>2. QED
  BY <1>1, Invariance, PTL

\* No frame is ever resumed where it is not suspended.
THEOREM NeverAstray ==
    ASSUME OneClick
    PROVE  Spec => []ResumesSuspended
<1>1. IInv => ResumesSuspended
  BY DEF IInv, ResumesSuspended
<1>2. QED
  BY <1>1, Invariance, PTL

\* Every key typed since the last reset is read once, in order, or is to come.
THEOREM KeysAreRead ==
    ASSUME OneClick
    PROVE  Spec => []KeysInOrder
<1>1. IInv => KeysInOrder
  BY InvKeys
<1>2. QED
  BY <1>1, Invariance, PTL

-----------------------------------------------------------------------------
(* Stop is final. *)

\* A run that was stopped is never past an operation of the loop, and one that
\* was stopped before it began has no key to read.
StopInv ==
    clicks # 0 /\ StopRequested =>
        /\ pc[clicks] # "after"
        /\ pc[clicks] = "entry" => keyQueue = <<>>

\* A step after Stop lets no operation take effect, and Stop's invariant holds.
LEMMA StopStep ==
    ASSUME OneClick, IInv, StopInv, [Next]_vars
    PROVE  StopInv' /\ (StopRequested => applied' = applied)
<1> USE DEF StopRequested
<1>1. CASE UNCHANGED vars
  BY <1>1 DEF vars, pageVars, runVars, keyVars, opVars, StopInv
<1>2. CASE KeyDown
  <2>1. turn = 0 /\ UNCHANGED <<clicks, signalled, pc, applied>>
    BY <1>2 DEF KeyDown, Quiet, pageVars, runVars, opVars
  <2>2. clicks # 0 => pc[clicks] # "entry"
    BY <2>1 DEF IInv, PageInv
  <2>3. QED
    BY <2>1, <2>2 DEF StopInv
<1>3. CASE ClickRun
  <2>1. clicks' = clicks + 1 /\ pc' = [pc EXCEPT ![clicks + 1] = "compile"] /\ clicks < MaxRuns
        /\ applied' = applied
    BY <1>3 DEF ClickRun, opVars
  <2>2. clicks + 1 \in Runs
    BY <2>1, BrowserAssumption DEF IInv, Types, RunTypes, Runs, BrowserAssumption
  <2>3. pc'[clicks'] = "compile"
    BY <2>1, <2>2 DEF IInv, Types, RunTypes
  <2>4. QED
    BY <2>1, <2>3 DEF StopInv
<1>4. CASE RequestStop
  <2>1. turn = 0 /\ UNCHANGED <<clicks, pc, applied>>
    BY <1>4 DEF RequestStop, Quiet, runVars, opVars
  <2>2. clicks # 0 => pc[clicks] \notin {"entry", "after"}
    BY <2>1 DEF IInv, PageInv
  <2>3. QED
    BY <2>1, <2>2 DEF StopInv
<1>5. ASSUME NEW r \in Runs, CompileFails(r) \/ Begin(r)
      PROVE  StopInv' /\ (StopRequested => applied' = applied)
  <2>1. Quiet /\ pc[r] = "compile" /\ applied' = applied /\ clicks' = clicks
    BY <1>5 DEF CompileFails, Begin, opVars, pageVars
  <2>2. r = clicks
    BY <2>1, Compiling
  <2>3. pc'[clicks'] = "ended" \/ (pc'[clicks'] = "entry" /\ keyQueue' = <<>>)
    BY <1>5, <2>1, <2>2 DEF CompileFails, Begin, ResetKeyboard, IInv, Types, RunTypes
  <2>4. QED
    BY <2>1, <2>3 DEF StopInv
<1>6. CASE ProgramStep
  <2>1. CASE Yield
    <3>1. UNCHANGED <<clicks, signalled, pc, keyQueue, applied>>
      BY <2>1 DEF Yield, pageVars, runVars, keyVars, opVars
    <3>2. QED
      BY <3>1 DEF StopInv
  <2>2. CASE Trap
    <3>1. Running("run") /\ pc' = [pc EXCEPT ![turn] = "finally"]
          /\ UNCHANGED <<clicks, signalled, keyQueue, applied>>
      BY <2>2 DEF Trap, pageVars, keyVars, opVars
    <3>2. turn = clicks /\ clicks \in Runs
      BY <3>1, InOwnCode, OnStack
    <3>3. pc'[clicks'] = "finally"
      BY <3>1, <3>2 DEF IInv, Types, RunTypes
    <3>4. QED
      BY <3>1, <3>3 DEF StopInv
  <2>3. CASE KeyCode
    <3>1. Running("run") /\ UNCHANGED <<clicks, signalled, pc>>
      BY <2>3 DEF KeyCode, pageVars, runVars
    <3>2. bound = clicks /\ pc[clicks] \in {"entry", "after"} /\ clicks # 0
      BY <3>1, InOwnCode, OnStack DEF Runs
    <3>3. StopRequested => keyQueue = <<>>
      BY <3>2 DEF StopInv
    <3>4. StopRequested => UNCHANGED <<keyQueue, applied>>
      BY <2>3, <3>3 DEF KeyCode
    <3>5. QED
      BY <3>1, <3>2, <3>4 DEF StopInv
  <2>4. CASE KeyboardReset
    <3>1. keyQueue' = <<>> /\ UNCHANGED <<clicks, signalled, pc, applied>>
      BY <2>4 DEF KeyboardReset, ResetKeyboard, pageVars, runVars, opVars
    <3>2. QED
      BY <3>1 DEF StopInv
  <2>5. CASE (\E k \in {"step", "sleep"} : CallOp(k)) \/ CallChild \/ Finish
    <3>1. UNCHANGED <<clicks, signalled, pc, keyQueue, applied>>
      BY <2>5 DEF CallOp, CallChild, Finish, pageVars, runVars, keyVars, opVars
    <3>2. QED
      BY <3>1 DEF StopInv
  <2>6. CASE AwaitReady \/ AwaitSuspend
    <3>1. UNCHANGED <<clicks, signalled, pc, keyQueue, applied>>
      BY <2>6 DEF AwaitReady, AwaitSuspend, pageVars, runVars, keyVars, opVars
    <3>2. QED
      BY <3>1 DEF StopInv
  <2>7. QED
    BY <1>6, <2>1, <2>2, <2>3, <2>4, <2>5, <2>6 DEF ProgramStep
<1>7. ASSUME NEW r \in Runs, RunStep(r)
      PROVE  StopInv' /\ (StopRequested => applied' = applied)
  <2>1. clicks' = clicks /\ signalled' = signalled
    BY <1>7 DEF RunStep, WrapEntry, LeaveLoop, ExecuteStep, ExecuteThrows, ExecuteAsync, ContinueOp,
         PollRoot, Pace, ContinuePace, Finally, pageVars
  <2>2. pc \in [Runs -> Phases]
    BY DEF IInv, Types, RunTypes
  <2>3. CASE Finally(r)
    <3>1. pc[r] = "finally" /\ turn = r /\ pc' = [pc EXCEPT ![r] = "ended"] /\ applied' = applied
      BY <2>3 DEF Finally, At, opVars
    <3>2. r = clicks
      BY <3>1 DEF IInv, PageInv, Runs
    <3>3. QED
      BY <2>1, <2>2, <3>1, <3>2 DEF StopInv
  <2>4. CASE ~Finally(r)
    <3>1. pc[r] \in AlivePhases
      BY <1>7, <2>4
      DEF RunStep, WrapEntry, LeaveLoop, ExecuteStep, ExecuteThrows, ExecuteAsync, ContinueOp,
          PollRoot, Pace, ContinuePace, InLoop, At, AlivePhases
    <3>2. r = clicks
      BY <3>1, AtWork
    <3>3. ASSUME StopRequested PROVE pc'[r] \notin {"entry", "after"} /\ applied' = applied
      <4>1. CASE WrapEntry(r)
        BY <2>2, <4>1 DEF WrapEntry, opVars
      <4>2. CASE LeaveLoop(r)
        BY <2>2, <4>2 DEF LeaveLoop, opVars
      <4>3. CASE ContinueOp(r)
        <5>1. Interrupted(r)
          BY <3>3 DEF Interrupted
        <5>2. QED
          BY <2>2, <4>3, <5>1 DEF ContinueOp
      <4>4. CASE ContinuePace(r)
        BY <2>2, <4>4 DEF ContinuePace, opVars
      <4>5. CASE Pace(r)
        BY <3>2, <3>3, <4>5 DEF Pace, At, StopInv, Runs
      <4>6. CASE ExecuteStep(r) \/ ExecuteThrows(r) \/ ExecuteAsync(r) \/ PollRoot(r)
        BY <3>3, <4>6 DEF ExecuteStep, ExecuteThrows, ExecuteAsync, PollRoot, InLoop
      <4>7. QED
        BY <1>7, <2>4, <4>1, <4>2, <4>3, <4>4, <4>5, <4>6 DEF RunStep
    <3>4. QED
      BY <2>1, <3>2, <3>3 DEF StopInv
  <2>5. QED
    BY <2>3, <2>4
<1>8. QED
  BY <1>1, <1>2, <1>3, <1>4, <1>5, <1>6, <1>7 DEF Next

\* After Stop no operation takes effect, until Run is clicked again.
THEOREM StoppedForGood ==
    ASSUME OneClick
    PROVE  Spec => StopIsFinal
<1>1. Init => StopInv
  BY DEF Init, StopInv
<1>2. IInv /\ StopInv /\ [Next]_vars => StopInv' /\ [StopRequested => applied' = applied]_vars
  BY StopStep
<1>3. QED
  BY <1>1, <1>2, Invariance, PTL DEF Spec, StopIsFinal
=============================================================================
