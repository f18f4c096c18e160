---------------------------- MODULE AstLowering ----------------------------
(***************************************************************************)
(* Lowering of the tree to a control-flow graph                            *)
(* (src/qumir/ir/lowering/lower_ast.cpp, src/qumir/ir/builder.cpp) and the *)
(* graph the passes see (src/qumir/ir/passes/analysis/cfg.cpp).            *)
(*                                                                         *)
(* The state of the lowering is the function being built, plus a stack of  *)
(* the values of the expressions lowered so far: an expression leaves its  *)
(* value on it, NoValue if it has none, and takes what its operands left.  *)
(* A place to return to, a label or a block, is kept there too.  Sizes of  *)
(* arrays count elements, and arrays have one dimension.                   *)
(***************************************************************************)
EXTENDS Ast, FiniteSets

Tmp(n) == <<"tmp", n>>
Imm(n) == <<"imm", n>>
Text(v) == <<"text", v>>
Fn(name) == <<"fn", name>>
Label(n) == <<"label", n>>
BlockAt(i) == <<"block", i>>
NoValue == <<"none", 0>>

Map(Op(_), seq) == FoldLeft(LAMBDA acc, x : Append(acc, Op(x)), <<>>, seq)
\* The function itself; TLC evaluates it once, not at every application.
Table(f) == f @@ <<>>

NoTmp == Tmp(-1)
Instr(op, dest, args) == [op |-> op, dest |-> dest, args |-> args]
Nop == Instr("nop", NoTmp, <<>>)
Terminators == {"jmp", "cmp", "ret"}

\* Instructions to be emitted: the temporaries they define are numbered 0, 1, ...,
\* and the values they take from the stack 1, 2, ...
New(k) == <<"new", k>>
Val(k) == <<"val", k>>
Def(k, op, args) == Instr(op, New(k), args)
Do(op, args) == Instr(op, NoTmp, args)
Jump(label) == <<Do("jmp", <<Label(label)>>)>>
-----------------------------------------------------------------------------
(* TBuilder: the blocks in the order of creation, the current one, and the *)
(* next free label, temporary and local.                                   *)

Take(seq, n) == SubSeq(seq, Len(seq) - n + 1, Len(seq))
Drop(seq, n) == SubSeq(seq, 1, Len(seq) - n)

\* Emit0 and Emit1, in a row: n values are taken from the stack, the results left there.
Emit(st, n, instrs, results) ==
    LET vals == Take(st.vals, n)
        Resolve(v) == CASE v[1] = "new" -> Tmp(st.tmps + v[2])
                        [] v[1] = "val" -> vals[v[2]]
                        [] OTHER -> v
        emitted == Map(LAMBDA i : Instr(i.op, Resolve(i.dest), Map(Resolve, i.args)), instrs)
    IN [st EXCEPT !.blocks[st.cur].instrs = @ \o emitted,
                  !.tmps = @ + Len(SelectSeq(instrs, LAMBDA i : i.dest # NoTmp)),
                  !.vals = Drop(@, n) \o Map(Resolve, results)]

\* Emit1 of a phi, of the four values on top of the stack.
EmitPhi(st) ==
    LET v == Take(st.vals, 4)
        phi == [dest |-> Tmp(st.tmps), values |-> <<v[1], v[3]>>, preds |-> <<v[2][2], v[4][2]>>]
    IN [st EXCEPT !.blocks[st.cur].phis = Append(@, phi),
                  !.tmps = @ + 1,
                  !.vals = Append(Drop(@, 4), phi.dest)]

Push(st, v) == [st EXCEPT !.vals = Append(@, v)]
Discard(st) == [st EXCEPT !.vals = Drop(@, 1)]

NewLabel(st) == [st EXCEPT !.labels = @ + 1]

\* Blocks with the next k labels; the current one stays.
NewBlocks(st, k) ==
    [st EXCEPT !.blocks = @ \o [i \in 1 .. k |-> [label |-> st.labels + i - 1, phis |-> <<>>, instrs |-> <<>>]],
               !.labels = @ + k]

\* A block with a label taken before, which becomes the current one.
NewBlockAt(st, label) ==
    [st EXCEPT !.blocks = Append(@, [label |-> label, phis |-> <<>>, instrs |-> <<>>]),
               !.cur = Len(st.blocks) + 1]

SetCurrentBlock(st, i) == [st EXCEPT !.cur = i]
CurrentBlockLabel(st) == Label(st.blocks[st.cur].label)

AllocLocals(st, k) == [st EXCEPT !.locals = @ + k]

IsTerminated(block) == block.instrs # <<>> /\ Last(block.instrs).op \in Terminators
IsCurrentBlockTerminated(st) == IsTerminated(st.blocks[st.cur])

JumpUnlessTerminated(st, label) ==
    IF IsCurrentBlockTerminated(st) THEN st ELSE Emit(st, 0, Jump(label), <<>>)
-----------------------------------------------------------------------------
(* Variables.                                                              *)

\* LoadVar: the value of a variable or, of a reference, the address it holds.
LoadVar(st, v) == Emit(st, 0, << Def(0, "load", <<v.at>>) >>, <<New(0)>>)

\* LoadVar with takeRefOfNotRef.
LoadAddress(st, v) ==
    IF v.ref THEN LoadVar(st, v) ELSE Emit(st, 0, << Def(0, "lea", <<v.at>>) >>, <<New(0)>>)

LowerIdent(st, v) ==
    IF v.ref THEN Emit(LoadVar(st, v), 1, << Def(0, "lde", <<Val(1)>>) >>, <<New(0)>>)
    ELSE LoadVar(st, v)

\* The value on top of the stack becomes that of the variable.
StoreVar(st, v) ==
    IF v.ref THEN Emit(LoadVar(st, v), 2, << Do("ste", <<Val(2), Val(1)>>) >>, <<NoValue>>)
    ELSE Emit(st, 1, << Do("stre", <<v.at, Val(1)>>) >>, <<NoValue>>)

\* AllocLayoutStorage: three locals, or three hidden globals.
LayoutOf(st, v) ==
    LET Storage(i) == IF v.at[1] = "local" THEN Local(st.locals + i) ELSE Slot(st.slots + i)
    IN [lbound |-> Storage(1), size |-> Storage(2), stride |-> Storage(3)]

AllocLayout(st, v) ==
    LET layout == LayoutOf(st, v)
        known == [st EXCEPT !.layouts = (v.at :> layout) @@ @]
    IN IF v.at[1] = "local" THEN [known EXCEPT !.locals = @ + 3] ELSE [known EXCEPT !.slots = @ + 3]

\* LowerArrayLayout and array_create, after both bounds.
CreateArray(st, v) ==
    LET layout == st.layouts[v.at]
    IN Emit(st, 2, << Do("stre", <<layout.lbound, Val(1)>>),
                      Def(0, "-", <<Val(2), Val(1)>>),
                      Def(1, "+", <<New(0), Imm(1)>>),
                      Do("stre", <<layout.size, New(1)>>),
                      Def(2, "*", <<Imm(1), New(1)>>),
                      Do("stre", <<layout.stride, New(2)>>),
                      Def(3, "load", <<layout.stride>>),
                      Do("arg", <<New(3)>>),
                      Def(4, "call", <<Fn("array_create")>>),
                      Do("stre", <<v.at, New(4)>>) >>, <<NoValue>>)

\* The address of an element, from its index and the array on the stack.
ElementAddress(st, v) ==
    Emit(st, 2, << Def(0, "load", <<st.layouts[v.at].lbound>>),
                   Def(1, "-", <<Val(1), New(0)>>),
                   Def(2, "elem", <<Val(2), New(1)>>) >>, <<New(2)>>)
-----------------------------------------------------------------------------
(* TAstLowerer::Lower.  A scope holds the labels of the structured exits,  *)
(* where a result is left, and what a return asserts last.                 *)

RECURSIVE Lower(_, _, _)

LowerAll(st, exprs, scope) == FoldLeft(LAMBDA s, e : Lower(s, e, scope), st, exprs)

LowerBlock(st, stmts, scope) ==
    FoldLeft(LAMBDA s, stmt : IF IsCurrentBlockTerminated(s) THEN s
                              ELSE Lower(Discard(s), stmt, scope), Push(st, NoValue), stmts)

LowerLValueAddress(st, target, scope) ==
    IF target.kind = "ident" THEN LoadAddress(st, target.x)
    ELSE ElementAddress(LoadVar(Lower(st, target.kids[2], scope), target.x), target.x)

LowerIndex(st, e, scope) ==
    Emit(LowerLValueAddress(st, e, scope), 1, << Def(0, "lde", <<Val(1)>>) >>, <<New(0)>>)

LowerArrayAssign(st, e, scope) ==
    LET Swap(s) == [s EXCEPT !.vals = Drop(@, 2) \o Reverse(Take(@, 2))]
        address == ElementAddress(Swap(Lower(LoadVar(st, e.x), e.kids[1], scope)), e.x)
    IN Emit(Lower(address, e.kids[2], scope), 2, << Do("ste", <<Val(1), Val(2)>>) >>, <<NoValue>>)

LowerVar(st, e, scope) ==
    IF Len(e.kids) = 3
    THEN CreateArray(AllocLayout(Lower(Lower(st, e.kids[2], scope), e.kids[3], scope), e.x), e.x)
    ELSE IF IsAbsent(e.kids[1]) THEN Push(st, NoValue)
    ELSE StoreVar(Lower(st, e.kids[1], scope), e.x)

\* Short circuit: the right operand has a block of its own, the end merges both values.
BranchOnLeft(st, op) ==
    LET rhs == Label(st.labels)
        end == Label(st.labels + 1)
        targets == IF op = "and" THEN <<rhs, end>> ELSE <<end, rhs>>
    IN SetCurrentBlock(
           Emit(NewLabel(NewBlocks(st, 1)), 1, <<Do("cmp", <<Val(1)>> \o targets)>>,
                <<end, Val(1), CurrentBlockLabel(st)>>),
           Len(st.blocks) + 1)

MergeRight(st) ==
    LET end == st.vals[Len(st.vals) - 3][2]
        right == Push(Emit(st, 0, Jump(end), <<>>), CurrentBlockLabel(st))
        merged == EmitPhi(NewBlockAt(right, end))
    IN Push([merged EXCEPT !.vals = Drop(@, 2)], Last(merged.vals))

LowerBinary(st, e, scope) ==
    IF e.x \in {"and", "or"}
    THEN MergeRight(Lower(BranchOnLeft(Lower(st, e.kids[1], scope), e.x), e.kids[2], scope))
    ELSE Emit(LowerAll(st, e.kids, scope), 2, << Def(0, e.x, <<Val(1), Val(2)>>) >>, <<New(0)>>)

\* The arguments are evaluated in order, then passed in order.
LowerCall(st, e, scope) ==
    LET f == e.x
        LowerArg(s, i) == IF f.params[i].ref THEN LowerLValueAddress(s, e.kids[i], scope)
                          ELSE Lower(s, e.kids[i], scope)
        args == FoldLeft(LowerArg, st, [i \in DOMAIN e.kids |-> i])
        pass == [i \in DOMAIN e.kids |-> Do("arg", <<Val(i)>>)]
    IN IF f.ret = "void"
       THEN Emit(args, Len(e.kids), Append(pass, Do("call", <<Fn(f.name)>>)), <<NoValue>>)
       ELSE Emit(args, Len(e.kids), Append(pass, Def(0, "call", <<Fn(f.name)>>)), <<New(0)>>)
-----------------------------------------------------------------------------
(* Branches and loops.                                                     *)

ToThen(st) ==
    SetCurrentBlock(
        Emit(NewBlocks(st, 2), 1, <<Do("cmp", <<Val(1), Label(st.labels), Label(st.labels + 1)>>)>>,
             <<BlockAt(Len(st.blocks) + 2)>>),
        Len(st.blocks) + 1)

ToElse(st) ==
    SetCurrentBlock(Push(st, BlockAt(st.cur)), st.vals[Len(st.vals) - 1][2])

\* The branches end in blocks i and j with values u and v.  There is no end
\* block if both end in a structured exit.
JoinBranches(st, t, i, u, j, v) ==
    LET end == st.labels
        JumpFrom(s, k) == JumpUnlessTerminated(SetCurrentBlock(s, k), end)
        joined == NewBlockAt(JumpFrom(JumpFrom(NewLabel(st), i), j), end)
        From(k) == Label(st.blocks[k].label)
    IN IF IsTerminated(st.blocks[i]) /\ IsTerminated(st.blocks[j]) THEN Push(st, NoValue)
       ELSE IF t = "void" THEN Push(joined, NoValue)
       ELSE EmitPhi([joined EXCEPT !.vals = @ \o <<u, From(i), v, From(j)>>])

JoinIf(st, t) ==
    LET v == Take(st.vals, 4)
    IN JoinBranches([st EXCEPT !.vals = Drop(@, 4)], t, v[3][2], v[2], st.cur, v[4])

\* Without an else the else block is empty.
LowerIf(st, e, scope) ==
    JoinIf(Lower(ToElse(Lower(ToThen(Lower(st, e.kids[1], scope)), e.kids[2], scope)),
                 e.kids[3], scope), e.t)

LoopScope(scope, break, continue) == [scope EXCEPT !.break = break, !.continue = continue]

LowerWhile(st, e, scope) ==
    LET n == Len(st.blocks)
        cond == st.labels
        body == cond + 1
        end == cond + 2
        before == Emit(NewLabel(NewBlocks(st, 2)), 0, Jump(cond), <<>>)
        tested == Emit(Lower(SetCurrentBlock(before, n + 1), e.kids[1], scope), 1,
                       <<Do("cmp", <<Val(1), Label(body), Label(end)>>)>>, <<>>)
        done == Lower(SetCurrentBlock(tested, n + 2), e.kids[2], LoopScope(scope, end, cond))
    IN NewBlockAt(JumpUnlessTerminated(done, cond), end)

LowerRepeat(st, e, scope) ==
    LET n == Len(st.blocks)
        body == st.labels
        cond == body + 1
        end == body + 2
        before == Emit(NewLabel(NewBlocks(st, 2)), 0, Jump(body), <<>>)
        done == Discard(Lower(SetCurrentBlock(before, n + 1), e.kids[1], LoopScope(scope, end, cond)))
        jumped == SetCurrentBlock(JumpUnlessTerminated(done, cond), n + 2)
    IN Push(NewBlockAt(Emit(Lower(jumped, e.kids[2], scope), 1,
                            <<Do("cmp", <<Val(1), Label(body), Label(end)>>)>>, <<>>), end),
            NoValue)

\* Both counted loops: the block that tests, the one that enters the body, the
\* body and the one that counts.
CountedLoop(st, test, enter, count, body, scope) ==
    LET n == Len(st.blocks)
        cond == st.labels
        post == cond + 2
        end == cond + 3
        before == Emit(NewLabel(NewBlocks(st, 3)), 0, Jump(cond), <<>>)
        tested == Emit(SetCurrentBlock(before, n + 1), 0,
                       Append(test, Do("cmp", <<Last(test).dest, Label(cond + 1), Label(end)>>)), <<>>)
        entered == Emit(SetCurrentBlock(tested, n + 2), 0, enter, <<>>)
        done == JumpUnlessTerminated(Lower(entered, body, LoopScope(scope, end, post)), post)
    IN NewBlockAt(Emit(SetCurrentBlock(done, n + 3), 0, count \o Jump(cond), <<>>), end)

\* The loop counts in two locals of its own, the limit and the next value.
LowerTimes(st, e, scope) ==
    LET to == Local(st.locals + 1)
        next == Local(st.locals + 2)
    IN CountedLoop(Emit(Lower(AllocLocals(st, 2), e.kids[1], scope), 1,
                        << Do("stre", <<next, Imm(1)>>),
                           Def(0, "+", <<Val(1), Imm(1)>>),
                           Do("stre", <<to, New(0)>>) >>, <<>>),
                   << Def(0, "load", <<next>>), Def(1, "load", <<to>>), Def(2, "!=", <<New(0), New(1)>>) >>,
                   <<>>,
                   << Def(0, "load", <<next>>), Def(1, "+", <<New(0), Imm(1)>>), Do("stre", <<next, New(1)>>) >>,
                   e.kids[2], scope)

\* The variable of the loop takes the next value at the start of the body.
LowerFor(st, e, scope) ==
    LET to == Local(st.locals + 1)
        step == Local(st.locals + 2)
        next == Local(st.locals + 3)
        from == Emit(Lower(AllocLocals(st, 3), e.kids[1], scope), 1,
                     << Do("stre", <<e.x.at, Val(1)>>) >>, <<>>)
        stepped == Emit(IF IsAbsent(e.kids[3]) THEN Push(from, Imm(1)) ELSE Lower(from, e.kids[3], scope), 1,
                        << Do("stre", <<step, Val(1)>>),
                           Def(0, "load", <<e.x.at>>),
                           Do("stre", <<next, New(0)>>) >>, <<>>)
        limited == Emit(Lower(stepped, e.kids[2], scope), 1, << Do("stre", <<to, Val(1)>>) >>, <<>>)
    IN CountedLoop(limited,
                   << Def(0, "load", <<to>>), Def(1, "load", <<next>>), Def(2, "load", <<step>>),
                      Def(3, "-", <<New(0), New(1)>>), Def(4, "*", <<New(3), New(2)>>),
                      Def(5, ">=", <<New(4), Imm(0)>>) >>,
                   << Def(0, "load", <<next>>), Do("stre", <<e.x.at, New(0)>>) >>,
                   << Def(0, "load", <<next>>), Def(1, "load", <<step>>),
                      Def(2, "+", <<New(0), New(1)>>), Do("stre", <<next, New(2)>>) >>,
                   e.kids[4], scope)
-----------------------------------------------------------------------------
(* What the lifetime pass wrote.                                           *)

LowerRetain(st, e, scope) ==
    Emit(Lower(st, e.kids[1], scope), 1,
         << Do("arg", <<Val(1)>>), Do("call", <<Fn("str_retain")>>) >>, <<Val(1)>>)

LowerOwnLiteral(st, e, scope) ==
    Emit(Lower(st, e.kids[1], scope), 1,
         << Do("arg", <<Val(1)>>), Def(0, "call", <<Fn("str_from_lit")>>) >>, <<New(0)>>)

\* EmitLifetimeDestroy: the destructor of the type.
LowerDestroy(st, e, scope) ==
    LET t == e.kids[1].t
        value == Lower(st, e.kids[1], scope)
    IN IF t = "strings"
       THEN Emit(Lower(value, e.kids[2], scope), 2,
                 << Do("arg", <<Val(1)>>), Do("arg", <<Val(2)>>),
                    Do("call", <<Fn("array_str_destroy")>>) >>, <<NoValue>>)
       ELSE Emit(value, 1, << Do("arg", <<Val(1)>>),
                              Do("call", <<Fn(IF t = "string" THEN "str_release" ELSE "array_destroy")>>) >>,
                 <<NoValue>>)

\* The new value first, then the address, and only then is the old value released.
LowerReplace(st, e, scope) ==
    Emit(LowerLValueAddress(Lower(st, e.kids[2], scope), e.kids[1], scope), 2,
         << Def(0, "lde", <<Val(2)>>),
            Do("arg", <<New(0)>>), Do("call", <<Fn("str_release")>>),
            Do("ste", <<Val(2), Val(1)>>) >>, <<NoValue>>)

\* A return stores its value, asserts, cleans up and jumps to the function's last block.
LowerExit(st, e, scope) ==
    LET LowerEach(s, exprs) == FoldLeft(LAMBDA a, x : Discard(Lower(a, x, scope)), s, exprs)
        stored == IF IsAbsent(e.kids[1]) THEN st
                  ELSE Emit(Lower(st, e.kids[1], scope), 1, << Do("stre", <<scope.ret, Val(1)>>) >>, <<>>)
        asserted == IF e.x = "return" THEN LowerEach(stored, scope.lastAssert) ELSE stored
    IN Emit(LowerEach(asserted, Tail(e.kids)), 0, Jump(scope[e.x]), <<NoValue>>)

Lower(st, e, scope) ==
    CASE e.kind = "none" -> Push(st, NoValue)
      [] e.kind = "num" -> Push(st, Imm(e.x))
      [] e.kind = "lit" -> Push(st, Text(e.x))
      [] e.kind = "null" -> Emit(st, 0, << Def(0, "bitcast", <<Imm(0)>>) >>, <<New(0)>>)
      [] e.kind = "ident" -> LowerIdent(st, e.x)
      [] e.kind = "index" -> LowerIndex(st, e, scope)
      [] e.kind = "binary" -> LowerBinary(st, e, scope)
      [] e.kind = "block" -> LowerBlock(st, e.kids, scope)
      [] e.kind = "if" -> LowerIf(st, e, scope)
      [] e.kind = "while" -> LowerWhile(st, e, scope)
      [] e.kind = "repeat" -> LowerRepeat(st, e, scope)
      [] e.kind = "times" -> LowerTimes(st, e, scope)
      [] e.kind = "for" -> LowerFor(st, e, scope)
      [] e.kind = "var" -> LowerVar(st, e, scope)
      [] e.kind = "assign" -> StoreVar(Lower(st, e.kids[1], scope), e.x)
      [] e.kind = "aassign" -> LowerArrayAssign(st, e, scope)
      [] e.kind = "call" -> LowerCall(st, e, scope)
      [] e.kind = "retain" -> LowerRetain(st, e, scope)
      [] e.kind = "own" -> LowerOwnLiteral(st, e, scope)
      [] e.kind \in {"move", "borrow"} -> Lower(st, e.kids[1], scope)
      [] e.kind = "destroy" -> LowerDestroy(st, e, scope)
      [] e.kind = "replace" -> LowerReplace(st, e, scope)
      [] e.kind = "exit" -> LowerExit(st, e, scope)
      [] e.kind = "cleanup" -> LowerBlock(st, e.kids, scope)

\* A function being built, with its named locals and the arrays it can see.
NewFunction(locals, slots, layouts) ==
    SetCurrentBlock(NewBlocks([blocks |-> <<>>, cur |-> 0, labels |-> 0, tmps |-> 0, locals |-> locals,
                               slots |-> slots, layouts |-> layouts, vals |-> <<>>], 1), 1)

FunctionScope(end, ret, lastAssert) ==
    [break |-> -1, continue |-> -1, return |-> end, ret |-> ret, lastAssert |-> lastAssert]

\* What the body falls through with is the result.
StoreFallen(st, ret) ==
    IF IsCurrentBlockTerminated(st) \/ ret = NoValue THEN st
    ELSE Emit(st, 1, << Do("stre", <<ret, Val(1)>>) >>, <<>>)

\* One last block returns.
EndFunction(st, end, ret) ==
    LET ended == NewBlockAt(JumpUnlessTerminated(StoreFallen(st, ret), end), end)
    IN IF ret = NoValue THEN Emit(ended, 0, << Do("ret", <<>>) >>, <<>>)
       ELSE Emit(ended, 0, << Def(0, "load", <<ret>>), Do("ret", <<New(0)>>) >>, <<>>)

LowerFunDecl(fun, locals, layouts) ==
    LET end == 1
        results == IF fun.x.ret = "void" THEN 0 ELSE 1
        ret == IF results = 0 THEN NoValue ELSE Local(locals + 1)
        start == AllocLocals(NewLabel(NewFunction(locals, 0, layouts)), results)
        lastAssert == SelectSeq(<<fun.kids[2]>>, LAMBDA e : ~IsAbsent(e))
    IN EndFunction(Lower(start, fun.kids[1], FunctionScope(end, ret, lastAssert)), end, ret)
-----------------------------------------------------------------------------
(* BuildCfg and ComputeRPO.                                                *)

Targets(instr) ==
    CASE instr.op = "jmp" -> <<instr.args[1][2]>>
      [] instr.op = "cmp" -> <<instr.args[2][2], instr.args[3][2]>>
      [] instr.op = "ret" -> <<>>

BuildCfg(st) ==
    LET order == Map(LAMBDA block : block.label, st.blocks)
        labels == ToSet(order)
        At(l) == st.blocks[SelectInSeq(order, LAMBDA m : m = l)]
        instrs == Table([l \in labels |-> At(l).instrs])
        succ == Table([l \in labels |-> Targets(Last(instrs[l]))])
        Edges(l, to) == Map(LAMBDA t : l, SelectSeq(succ[l], LAMBDA t : t = to))
    IN [ order  |-> order,
         instrs |-> instrs,
         phis   |-> Table([l \in labels |-> At(l).phis]),
         succ   |-> succ,
         pred   |-> Table([l \in labels |-> FlattenSeq(Map(LAMBDA m : Edges(m, l), order))]),
         labels |-> st.labels,
         tmps   |-> st.tmps,
         locals |-> st.locals ]

RECURSIVE PostOrder(_, _, _)

\* Depth first, the successors in order; post is the sequence of finished blocks.
PostOrder(f, acc, label) ==
    LET below == FoldLeft(LAMBDA a, t : IF t \in a.seen THEN a ELSE PostOrder(f, a, t),
                          [acc EXCEPT !.seen = @ \cup {label}], f.succ[label])
    IN [below EXCEPT !.post = Append(@, label)]

ComputeRPO(f) == Reverse(PostOrder(f, [seen |-> {}, post |-> <<>>], 0).post)
=============================================================================
