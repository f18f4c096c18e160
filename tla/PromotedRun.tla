---------------------------- MODULE PromotedRun ----------------------------
(***************************************************************************)
(* What the pipeline of passes promises: a function does the same as       *)
(* lowered, with its locals in memory; with its locals promoted to SSA     *)
(* temporaries; after constant folding; and with the phis lowered to       *)
(* copies, which is what the bytecode compiler and the LLVM back end are   *)
(* given (src/qumir/ir/passes/transforms/pipeline.cpp).  The four versions *)
(* run side by side, block by block, and read the same values.             *)
(***************************************************************************)
EXTENDS SSA, ConstFold, DefiniteAssignment

CONSTANTS Functions,        \* names of functions
          Declaration(_),   \* the declaration of each
          NamedLocals       \* their locals are 1 .. NamedLocals

ASSUME NamedLocalsAssumption == NamedLocals \in Nat /\ NumArgs <= NamedLocals
-----------------------------------------------------------------------------
(* A machine has the memory of the locals, the registers of the            *)
(* temporaries, the arguments of the next call, and what the block showed, *)
(* decided on or returned.  What is there before anything is written is    *)
(* nobody's value.  The address of a local is its number.                  *)

Garbage == Word

Value(m, operand) ==
    CASE operand[1] \in {"imm", "local"} -> operand[2]
      [] operand[1] = "undef" -> 0
      [] operand[1] = "tmp" -> IF operand[2] \in DOMAIN m.reg THEN m.reg[operand[2]] ELSE Garbage

SetReg(m, t, value) == IF t = NoTmp THEN m ELSE [m EXCEPT !.reg = (t[2] :> value) @@ @]

Seen(m, value) == [m EXCEPT !.seen = Append(@, value)]

Operated(op, x, y) ==
    CASE Garbage \in {x, y} -> Garbage
      [] op = "!=" -> IF x # y THEN 1 ELSE 0
      [] op = ">=" -> IF x >= y THEN 1 ELSE 0
      [] OTHER -> Folded(op, x, y)

\* Functions outside: what they return and what they do, given what is read.
CallOutside(m, t, name, input) ==
    CASE name = "read" -> SetReg(m, t, 2 * m.args[1] + input.value)
      [] name = "test" -> SetReg(m, t, input.answer)
      [] name = "poke" -> [m EXCEPT !.mem[m.args[1]] = 2 + input.value]
      [] name = "bump" -> [Seen(m, m.mem[m.args[1]]) EXCEPT !.mem[m.args[1]] = 2 + input.value]
      [] name = "show" -> Seen(m, m.args[1])

Execute(m, instr, input) ==
    LET arg(i) == Value(m, instr.args[i])
    IN CASE instr.op \in {"load", "lde"} -> SetReg(m, instr.dest, m.mem[arg(1)])
         [] instr.op \in {"stre", "ste"} -> [m EXCEPT !.mem[arg(1)] = arg(2)]
         [] instr.op \in {"lea", "mov"} -> SetReg(m, instr.dest, arg(1))
         [] instr.op = "arg" -> [m EXCEPT !.args = Append(@, arg(1))]
         [] instr.op = "call" -> [CallOutside(m, instr.dest, instr.args[1][2], input) EXCEPT !.args = <<>>]
         [] instr.op \in {"cmp", "ret"} -> Seen(m, arg(1))
         [] instr.op \in {"jmp", "nop"} -> m
         [] OTHER -> SetReg(m, instr.dest, Operated(instr.op, arg(1), arg(2)))

\* All phis of a block read before any of them is assigned.
EnterBlock(m, f, p, b) ==
    FoldLeft(LAMBDA a, t : SetReg(a, t[1], Value(m, t[2])), m, Transfers(f, p, b))

RunBlock(m, f, p, b, input) ==
    FoldLeft(LAMBDA a, instr : Execute(a, instr, input), EnterBlock(m, f, p, b), f.instrs[b])

\* From p to b, through the block of a split edge if there is one.
RunEdge(m, f, p, b, input) ==
    IF b \in ToSet(f.succ[p]) THEN RunBlock(m, f, p, b, input)
    ELSE LET e == CHOOSE e \in ToSet(f.succ[p]) \cap ToSet(f.added) : f.succ[e] = <<b>>
         IN RunBlock(RunBlock(m, f, p, e, input), f, e, b, input)
-----------------------------------------------------------------------------
VARIABLES code,    \* the function as lowered, promoted, folded, and without phis
          at,      \* the block that has just run, -1 before the run
          runs     \* the machine of each version

vars == <<code, at, runs>>

Lowered(fun) == BuildCfg(LowerFunDecl(fun, NamedLocals, <<>>))

\* A function that may use a variable before it is assigned is rejected.
Init ==
    /\ code \in {<<Lowered(Declaration(f))>> : f \in {g \in Functions : DefinitelyAssigned(Declaration(g))}}
    /\ at = -1
    /\ runs = <<>>

Transform(done, Pass(_)) ==
    /\ Len(code) = done
    /\ code' = Append(code, Pass(code[done]))
    /\ UNCHANGED <<at, runs>>

Promote == Transform(1, PromoteLocalsToSSA)
Fold == Transform(2, LAMBDA f : RenumberRegisters(ConstFold(f)))
LowerPhis == Transform(3, DeSSA)

Input == [value : 0 .. 1, answer : 0 .. 1]

StartIn(f, input) ==
    RunBlock([mem |-> [l \in 1 .. f.locals |-> IF l <= NumArgs THEN 1 ELSE Garbage],
              reg |-> <<>>, args |-> <<>>, seen |-> <<>>], f, -1, 0, input)

Start ==
    /\ Len(code) = 4 /\ at = -1
    /\ at' = 0
    /\ \E input \in Input : runs' = [v \in 1 .. 4 |-> StartIn(code[v], input)]
    /\ UNCHANGED code

\* Where the function goes from the block that has just run.
Target ==
    LET terminator == Last(code[1].instrs[at])
    IN IF terminator.op = "cmp" /\ Value(runs[1], terminator.args[1]) = 0 THEN code[1].succ[at][2]
       ELSE code[1].succ[at][1]

\* All versions take the edge that the first one decides on.
Run ==
    /\ at >= 0 /\ code[1].succ[at] # <<>>
    /\ at' = Target
    /\ \E input \in Input :
          runs' = [v \in 1 .. 4 |-> RunEdge([runs[v] EXCEPT !.seen = <<>>], code[v], at, Target, input)]
    /\ UNCHANGED code

Next == Promote \/ Fold \/ LowerPhis \/ Start \/ Run

Spec == Init /\ [][Next]_vars
-----------------------------------------------------------------------------
(* Where a temporary is defined, and whether execution can miss it.        *)

RECURSIVE ReachedAvoiding(_, _, _)

\* The blocks that execution can get to from those in seen without running avoid.
ReachedAvoiding(f, seen, avoid) ==
    LET next == (seen \cup UNION {ToSet(f.succ[b]) : b \in seen}) \ avoid
    IN IF next = seen THEN seen ELSE ReachedAvoiding(f, next, avoid)

Reached(f, avoid) == ReachedAvoiding(f, {0} \ avoid, avoid)

TmpsOf(operands) == {v \in ToSet(operands) : v[1] = "tmp"}

PhiDests(f, b) == {p.dest : p \in ToSet(f.phis[b])}
Dests(instrs) == {i.dest : i \in ToSet(instrs)}
DefBlocks(f, t) == {b \in ToSet(f.order) : t \in PhiDests(f, b) \cup Dests(f.instrs[b])}

\* Every way to the end of block b defines t.
DefinedAtEnd(f, t, b) == b \notin Reached(f, DefBlocks(f, t))

\* Every way to instruction i of block b defines t.
DefinedBefore(f, t, b, i) ==
    \/ t \in PhiDests(f, b) \cup Dests(SubSeq(f.instrs[b], 1, i - 1))
    \/ b \notin Reached(f, DefBlocks(f, t) \ {b})
-----------------------------------------------------------------------------
(* Properties.                                                             *)

\* Type invariant: the versions have the blocks the run goes through, and registers no larger than
\* the function's counter of temporaries.
TypeOK ==
    /\ at >= 0 => \A v \in DOMAIN code : at \in DOMAIN code[v].succ
    /\ \A v \in DOMAIN runs : DOMAIN runs[v].reg \subseteq 0 .. code[v].tmps - 1

\* A temporary of the promoted function is defined on every path before it is
\* read: what makes it SSA, and what removing a trivial phi may break
\* (locals2ssa.cpp:232).
UsesAreDefined ==
    Len(code) = 2 =>
        LET f == code[2]
            live == Reached(f, {})
        IN \A b \in live :
            /\ \A i \in DOMAIN f.instrs[b] : \A t \in TmpsOf(f.instrs[b][i].args) :
                   DefinedBefore(f, t, b, i)
            /\ \A phi \in ToSet(f.phis[b]) : \A k \in DOMAIN phi.values :
                   phi.values[k][1] = "tmp" /\ phi.preds[k] \in live
                       => DefinedAtEnd(f, phi.values[k], phi.preds[k])

\* No function that is accepted reads a local nobody has written, on any way through
\* it: a branch that is not taken, a loop that does not run or is left early
\* (definite_assignment.cpp:285).
NothingUnset ==
    runs # <<>> => Garbage \notin ToSet(runs[1].seen) \cup ToSet(runs[1].reg)

SameRun(v, w) == runs # <<>> => runs[v].seen = runs[w].seen

\* A promoted local has in every use the value last written on the path taken:
\* what the function shows, decides on and returns is what it did in memory.
SameAfterPromotion == SameRun(2, 1)

\* "Replace all uses of tmp with imm" (const_fold.cpp:41): whoever reads a folded
\* temporary reads its value, although the users are collected only once, before a
\* temporary that takes another one's place has got that one's users.
SameAfterFolding == SameRun(3, 2)

\* What the back ends are given does what the promoted function does: folding finds
\* every reader it changes the value for, and the copies at the ends of predecessors do
\* what the phis did, all at once and on their own edge only (de_ssa.cpp:86).
SameAfterDeSSA == SameRun(4, 2)
=============================================================================
