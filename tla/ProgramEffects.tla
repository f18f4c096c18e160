--------------------------- MODULE ProgramEffects ---------------------------
(***************************************************************************)
(* What a program may rely on when it calls executors: "In source code     *)
(* this behaves like a normal call" (docs/arch/coroutine.md).  No futures,  *)
(* frames, queues or event loop: an awaited operation has taken effect when *)
(* its call returns, the void operations of a drawing executor may take    *)
(* effect later, and the operations of one executor take effect once each, *)
(* in program order.  InterpreterRun and JitRun implement this module.     *)
(***************************************************************************)
EXTENDS Integers

CONSTANTS Executors, Drawing, Ops

VARIABLES issued, execOf,  \* operations 1..issued, and their executors
          applied, lost,   \* those that took effect, those that never will
          waiting          \* the operation the program waits for, or 0

effectVars == <<issued, execOf, applied, lost, waiting>>

Settled(n) == n \in applied \cup lost

Issue(e) == /\ issued + 1 \in Ops
            /\ issued' = issued + 1
            /\ execOf' = [execOf EXCEPT ![issued + 1] = e]

EffectsInit == /\ issued = 0 /\ execOf \in [Ops -> Executors]
               /\ applied = {} /\ lost = {} /\ waiting = 0

Call(e) == /\ waiting = 0
           /\ Issue(e)
           /\ waiting' = issued + 1
           /\ UNCHANGED <<applied, lost>>

Draw(e) == /\ waiting = 0
           /\ Issue(e)
           /\ UNCHANGED <<applied, lost, waiting>>

\* Operation n takes effect; the earlier ones of its executor are settled.
Apply(n) == /\ n <= issued /\ ~Settled(n)
            /\ \A m \in Ops : m < n /\ execOf[m] = execOf[n] => Settled(m)
            /\ applied' = applied \cup {n}
            /\ UNCHANGED <<issued, execOf, lost, waiting>>

Return == /\ waiting \in applied
          /\ waiting' = 0
          /\ UNCHANGED <<issued, execOf, applied, lost>>

\* The program is abandoned: an operation, the one it waits for if any, fails.
Abandon(S) == /\ waiting \in S \cup {0}
              /\ \A n \in S : n <= issued /\ ~Settled(n)
              /\ lost' = lost \cup S
              /\ waiting' = 0
              /\ UNCHANGED <<issued, execOf, applied>>

EffectsNext == \/ \E e \in Executors : Call(e)
               \/ \E e \in Drawing : Draw(e)
               \/ \E n \in Ops : Apply(n)
               \/ Return
               \/ \E S \in SUBSET Ops : Abandon(S)

EffectsSpec == EffectsInit /\ [][EffectsNext]_effectVars
=============================================================================
