-------------------------------- MODULE SSA --------------------------------
(***************************************************************************)
(* SSA construction and destruction                                        *)
(* (src/qumir/ir/passes/transforms/): the promotion of locals to SSA       *)
(* temporaries (locals2ssa.cpp) and, after it, the lowering of phis to     *)
(* copies before code generation (de_ssa.cpp).                             *)
(*                                                                         *)
(* The state of TSSABuilder is the function being rewritten, extended by   *)
(*   def         CurrentDef: the value of a local at the end of a block    *)
(*   incomplete  the phis an unsealed block owes, with their locals        *)
(*   sealed      the blocks whose predecessors are all processed           *)
(*   open        the number of predecessors still to be processed          *)
(* An operator that both changes the state and returns a value returns the *)
(* pair of the two.  A removed phi is dropped, where the code leaves a     *)
(* nop.                                                                    *)
(***************************************************************************)
EXTENDS AstLowering

CONSTANT NumArgs   \* the locals 1 .. NumArgs hold arguments

ASSUME NumArgsAssumption == NumArgs \in Nat

Undef == <<"undef", 0>>
None == <<"none", 0>>
-----------------------------------------------------------------------------
\* A local whose address is taken stays in memory, and so does an argument.
ComputeLocalPromotable(f) ==
    {l \in (NumArgs + 1 .. f.locals) :
        \A b \in ToSet(f.order) : \A i \in DOMAIN f.instrs[b] :
            ~(f.instrs[b][i].op = "lea" /\ f.instrs[b][i].args[1] = Local(l))}

Replaced(operands, from, to) == Map(LAMBDA v : IF v = from THEN to ELSE v, operands)

ReplaceInInstrs(instrs, from, to) ==
    Map(LAMBDA i : IF i.dest = from THEN Nop ELSE [i EXCEPT !.args = Replaced(@, from, to)], instrs)

\* The phis that have the operand, except the one that defines it.
ReplaceInPhis(phis, from, to) ==
    Map(LAMBDA p : IF p.dest = from THEN p ELSE [p EXCEPT !.values = Replaced(@, from, to)], phis)

ReplaceTmpEverywhere(s, from, to) ==
    [s EXCEPT !.instrs = Table([b \in DOMAIN @ |-> ReplaceInInstrs(@[b], from, to)]),
              !.phis = Table([b \in DOMAIN @ |-> ReplaceInPhis(@[b], from, to)])]

WriteVariable(s, l, b, value) == [s EXCEPT !.def[l][b] = value]

\* An undefined operand takes the type of the others: the zero of that type.
Typed(values) ==
    IF \E i \in DOMAIN values : values[i] # Undef THEN Replaced(values, Undef, Imm(0)) ELSE values

MaterializePhiInstr(s, b, dest, values) ==
    [s EXCEPT !.phis[b] = Append(@, [dest |-> dest, values |-> Typed(values), preds |-> s.pred[b]])]

Phis(s) == FlattenSeq(Map(LAMBDA b : s.phis[b], s.order))

\* The phis other than the one of t that read t.
PhiUsers(s, t) ==
    SelectSeq(Phis(s), LAMBDA p : p.dest # t /\ t \in ToSet(p.values))

DropPhi(s, t) ==
    [s EXCEPT !.phis = Table([b \in DOMAIN @ |-> SelectSeq(@[b], LAMBDA p : p.dest # t)])]

\* The first operand counts even if it is the phi itself.
IsTrivial(phi) ==
    \A i \in DOMAIN phi.values : phi.values[i] \in {phi.values[1], phi.dest}

\* Mutant of Rerouted: the values at the ends of blocks keep the removed phi.
NotRerouted(def, from, to) == def

Rerouted(def, from, to) ==
    Table([l \in DOMAIN def |-> Table([b \in DOMAIN def[l] |->
                                          IF def[l][b] = from THEN to ELSE def[l][b]])])

RECURSIVE TryRemoveTrivialPhi(_, _)

\* The phi of t, if it merges one value: its uses are rerouted, the phis that
\* read it are tried next, and then it goes.
TryRemoveTrivialPhi(s, t) ==
    LET found == SelectSeq(Phis(s), LAMBDA p : p.dest = t)
    IN IF found = <<>> THEN <<s, Undef>>
       ELSE IF ~IsTrivial(found[1]) THEN <<s, t>>
       ELSE LET same == found[1].values[1]
                rerouted == [ReplaceTmpEverywhere(s, t, same) EXCEPT
                                !.def = Rerouted(@, t, same)]
                tried == FoldLeft(LAMBDA a, p : TryRemoveTrivialPhi(a, p.dest)[1],
                                  rerouted, PhiUsers(s, t))
            IN <<DropPhi(tried, t), same>>

NewTmp(s) == [s EXCEPT !.tmps = @ + 1]

RECURSIVE ReadVariable(_, _, _), ReadVariableRecursive(_, _, _), AddPhiOperands(_, _, _, _)

AddPhiOperands(s, l, b, dest) ==
    LET Read(acc, p) == LET r == ReadVariable(acc[1], l, p) IN <<r[1], Append(acc[2], r[2])>>
        read == FoldLeft(Read, <<s, <<>>>>, s.pred[b])
    IN TryRemoveTrivialPhi(MaterializePhiInstr(read[1], b, dest, read[2]), dest)

\* The value of a block that defines nothing: its only predecessor's, or a phi,
\* whose operands an unsealed block collects when it is sealed.
ReadVariableRecursive(s, l, b) ==
    LET preds == s.pred[b]
        t == Tmp(s.tmps)
        r == IF Len(preds) = 1 THEN ReadVariable(s, l, preds[1])
             ELSE IF b \notin s.sealed
             THEN <<[NewTmp(s) EXCEPT !.incomplete[b] = Append(@, <<l, t>>)], t>>
             ELSE AddPhiOperands(WriteVariable(NewTmp(s), l, b, t), l, b, t)
    IN IF preds = <<>> THEN <<s, Undef>> ELSE <<WriteVariable(r[1], l, b, r[2]), r[2]>>

ReadVariable(s, l, b) ==
    IF s.def[l][b] # None THEN <<s, s.def[l][b]>> ELSE ReadVariableRecursive(s, l, b)

SealBlock(s, b) ==
    IF b \in s.sealed THEN s
    ELSE FoldLeft(LAMBDA a, p : AddPhiOperands(a, p[1], b, p[2])[1],
                  [s EXCEPT !.sealed = @ \cup {b}], s.incomplete[b])
-----------------------------------------------------------------------------
PromoteStore(s, b, i) ==
    LET store == s.instrs[b][i]
    IN WriteVariable([s EXCEPT !.instrs[b][i] = Nop], store.args[1][2], b, store.args[2])

PromoteLoad(s, b, i) ==
    LET load == s.instrs[b][i]
        r == ReadVariable(s, load.args[1][2], b)
    IN WriteVariable(ReplaceTmpEverywhere([r[1] EXCEPT !.instrs[b][i] = Nop], load.dest, r[2]),
                     load.args[1][2], b, r[2])

PromoteInstr(s, b, i, promotable) ==
    LET instr == s.instrs[b][i]
    IN IF instr.op \notin {"stre", "load"} \/ instr.args[1][2] \notin promotable THEN s
       ELSE IF instr.op = "stre" THEN PromoteStore(s, b, i) ELSE PromoteLoad(s, b, i)

\* Mutant of CloseEdge: a block is sealed when its first predecessor has been processed.
SealOnFirstEdge(s, t) == SealBlock(s, t)

\* A block is sealed when its last predecessor has been processed.
CloseEdge(s, t) ==
    LET closed == [s EXCEPT !.open[t] = @ - 1]
    IN IF s.open[t] = 0 THEN s
       ELSE IF closed.open[t] = 0 THEN SealBlock(closed, t) ELSE closed

Indices(seq) == FoldLeft(LAMBDA acc, x : Append(acc, Len(acc) + 1), <<>>, seq)

ProcessBlock(s, b, promotable) ==
    FoldLeft(CloseEdge,
             FoldLeft(LAMBDA a, i : PromoteInstr(a, b, i, promotable), s,
                      Indices(s.instrs[b])),
             s.succ[b])

\* Run.  Blocks with an unreachable predecessor are sealed last.
PromoteLocalsToSSA(f) ==
    LET blocks == ToSet(f.order)
        start == f @@
                 [ def        |-> Table([l \in 1 .. f.locals |-> Table([b \in blocks |-> None])]),
                   incomplete |-> Table([b \in blocks |-> <<>>]),
                   sealed     |-> {b \in blocks : f.pred[b] = <<>>},
                   open       |-> Table([b \in blocks |-> Len(f.pred[b])]) ]
        promotable == ComputeLocalPromotable(f)
        processed == FoldLeft(LAMBDA s, b : ProcessBlock(s, b, promotable), start, ComputeRPO(f))
    IN FoldLeft(SealBlock, processed, f.order)
-----------------------------------------------------------------------------
(* The lowering of phis to copies. *)

Redirect(labels, from, to) == Map(LAMBDA l : IF l = from THEN to ELSE l, labels)

\* A block of its own on the edge from p to b.
SplitEdge(f, p, b) ==
    LET new == f.labels
        term == Len(f.instrs[p])
    IN [f EXCEPT
          !.labels = @ + 1,
          !.added = Append(@, new),
          !.instrs = [@ EXCEPT ![p][term].args = Redirect(@, Label(b), Label(new))]
                     @@ (new :> <<Instr("jmp", NoTmp, <<Label(b)>>)>>),
          !.phis = [@ EXCEPT ![b] = Map(LAMBDA phi : [phi EXCEPT !.preds = Redirect(@, p, new)], @)]
                   @@ (new :> <<>>),
          !.succ = [@ EXCEPT ![p] = Redirect(@, b, new)] @@ (new :> <<b>>),
          !.pred = [@ EXCEPT ![b] = Redirect(@, p, new)] @@ (new :> <<p>>)]

\* An edge from a block with several successors to one with several
\* predecessors.
IsCritical(f, p, b) == Len(f.succ[p]) > 1 /\ Len(f.pred[b]) > 1

SplitCriticalEdges(f) ==
    LET Split(g, b) == FoldLeft(LAMBDA h, p : IF IsCritical(h, p, b) THEN SplitEdge(h, p, b) ELSE h,
                                g, g.pred[b])
        split == FoldLeft(Split, f @@ [added |-> <<>>], f.order)
    IN [split EXCEPT !.order = @ \o split.added]

\* What predecessor p gives the phis of block b.
Transfers(f, p, b) ==
    LET At(phi) == SelectInSeq(phi.preds, LAMBDA q : q = p)
        merging == SelectSeq(f.phis[b], LAMBDA phi : At(phi) # 0)
    IN Map(LAMBDA phi : <<phi.dest, phi.values[At(phi)]>>, merging)

\* Mutant of ParallelCopies: each phi is assigned in turn.
CopiesInTurn(f, transfers) ==
    [i \in DOMAIN transfers |-> Instr("mov", transfers[i][1], <<transfers[i][2]>>)]

\* The sources are captured in fresh temporaries before any phi is assigned.
ParallelCopies(f, transfers) ==
    LET Fresh(i) == Tmp(f.tmps + i - 1)
    IN [i \in DOMAIN transfers |-> Instr("mov", Fresh(i), <<transfers[i][2]>>)]
       \o [i \in DOMAIN transfers |-> Instr("mov", transfers[i][1], <<Fresh(i)>>)]

CopyOnEdge(f, p, b) ==
    LET transfers == Transfers(f, p, b)
        instrs == f.instrs[p]
    IN [f EXCEPT !.instrs[p] = Front(instrs) \o ParallelCopies(f, transfers) \o <<Last(instrs)>>,
                 !.tmps = @ + Len(transfers)]

DeSSA(f) ==
    LET LowerPhisOf(g, b) == [FoldLeft(LAMBDA h, p : CopyOnEdge(h, p, b), g, g.pred[b]) EXCEPT !.phis[b] = <<>>]
        split == SplitCriticalEdges(f)
    IN FoldLeft(LowerPhisOf, split, split.order)
=============================================================================
