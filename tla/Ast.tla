-------------------------------- MODULE Ast --------------------------------
(***************************************************************************)
(* The syntax tree after name resolution and type annotation               *)
(* (src/qumir/parser/ast.h), and what a program means.  A node has a kind, *)
(* the type t of its value, what it names or carries (x), and its children *)
(* in the order of Children(); an absent child is NoNode.                  *)
(*                                                                         *)
(* Names are resolved: a node that names a variable or a function carries  *)
(* its declaration.  The types told apart are "int" (and all other plain   *)
(* values), "string", "strings" (an array of strings), "ints" and "void".  *)
(***************************************************************************)
EXTENDS Integers, Sequences, SequencesExt

\* Where a value is: the operands of the intermediate representation.
Local(n) == <<"local", n>>
Slot(n) == <<"slot", n>>

\* Declarations.  A reference parameter holds the address of a variable; one that is
\* written only need not find a value there.
Variable(at, t) ==
    [at |-> at, t |-> t, ref |-> FALSE, readable |-> TRUE, param |-> FALSE, synthetic |-> FALSE]
Param(at, t) == [Variable(at, t) EXCEPT !.param = TRUE]
RefParam(at, t) == [Param(at, t) EXCEPT !.ref = TRUE]
OutParam(at, t) == [RefParam(at, t) EXCEPT !.readable = FALSE]
Synthetic(at, t) == [Variable(at, t) EXCEPT !.synthetic = TRUE]

Function(name, params, ret) ==
    [name |-> name, params |-> params, ret |-> ret, external |-> FALSE, materialize |-> FALSE]
External(name, params, ret) == [Function(name, params, ret) EXCEPT !.external = TRUE]
\* An external function that must not be given raw literals.
Materializing(name, params, ret) == [External(name, params, ret) EXCEPT !.materialize = TRUE]
-----------------------------------------------------------------------------
Node(kind, t, x, kids) == [kind |-> kind, t |-> t, x |-> x, kids |-> kids]
NoNode == Node("none", "void", <<>>, <<>>)
IsAbsent(e) == e.kind = "none"

Num(n) == Node("num", "int", n, <<>>)
Lit(v) == Node("lit", "string", v, <<>>)
Ident(v) == Node("ident", v.t, v, <<>>)
ElementType(t) == IF t = "strings" THEN "string" ELSE "int"
Index(v, i) == Node("index", ElementType(v.t), v, <<Ident(v), i>>)
Binary(op, left, right) == Node("binary", "int", op, <<left, right>>)
Block(t, stmts) == Node("block", t, "", stmts)
If(t, cond, then, else) == Node("if", t, "", <<cond, then, else>>)
While(cond, body) == Node("while", "void", "", <<cond, body>>)
Repeat(body, cond) == Node("repeat", "void", "", <<body, cond>>)
Times(count, body) == Node("times", "void", "", <<count, body>>)
For(v, from, to, step, body) == Node("for", "void", v, <<from, to, step, body>>)
Break == Node("break", "void", "", <<>>)
Continue == Node("continue", "void", "", <<>>)
Return(value) == Node("return", "void", "", <<value>>)
Var(v, init) == Node("var", v.t, v, <<init>>)
ArrayVar(v, lower, upper) == Node("var", v.t, v, <<NoNode, lower, upper>>)
Assign(v, value) == Node("assign", "void", v, <<value>>)
ArrayAssign(v, i, value) == Node("aassign", "void", v, <<i, value>>)
Call(f, args) == Node("call", f.ret, f, args)
FunDecl(f, body, lastAssert) == Node("fun", "void", f, <<body, lastAssert>>)

\* What the lifetime pass adds.
NullString == Node("null", "string", "", <<>>)
Retain(value) == Node("retain", value.t, "", <<value>>)
OwnLiteral(value) == Node("own", value.t, "", <<value>>)
Move(value) == Node("move", value.t, "", <<value>>)
Borrow(value) == Node("borrow", value.t, "", <<value>>)
Destroy(value, aux) == Node("destroy", "void", "", <<value, aux>>)
Replace(target, value) == Node("replace", "void", "", <<target, value>>)
CleanupExit(to, value, cleanups) == Node("exit", "void", to, <<value>> \o cleanups)
GlobalCleanup(cleanups) == Node("cleanup", "void", "", cleanups)

LifetimeNodes == {"retain", "own", "move", "borrow", "destroy", "replace", "exit", "cleanup"}
-----------------------------------------------------------------------------
RECURSIVE ContainsLifetimeNode(_)

ContainsLifetimeNode(e) ==
    e.kind \in LifetimeNodes \/ \E i \in DOMAIN e.kids : ContainsLifetimeNode(e.kids[i])

RECURSIVE SameShape(_, _)

\* The same nodes in the same places, whatever they name.
SameShape(d, e) ==
    /\ d.kind = e.kind /\ d.t = e.t /\ Len(d.kids) = Len(e.kids)
    /\ \A i \in DOMAIN d.kids : SameShape(d.kids[i], e.kids[i])

\* Mutant of AlwaysReturns: the exits of the lifetime pass are not taken for returns.
RECURSIVE SourceReturns(_)

SourceReturns(e) ==
    \/ e.kind = "return"
    \/ e.kind = "block" /\ \E i \in DOMAIN e.kids : SourceReturns(e.kids[i])
    \/ e.kind = "if" /\ SourceReturns(e.kids[2]) /\ SourceReturns(e.kids[3])

RECURSIVE AlwaysReturns(_)

AlwaysReturns(e) ==
    \/ e.kind = "return"
    \/ e.kind = "exit" /\ e.x = "return"
    \/ e.kind = "block" /\ \E i \in DOMAIN e.kids : AlwaysReturns(e.kids[i])
    \/ e.kind = "if" /\ AlwaysReturns(e.kids[2]) /\ AlwaysReturns(e.kids[3])
-----------------------------------------------------------------------------
(* What a program means: an evaluator of the tree as the programmer wrote  *)
(* it, in which a string is a value and nothing is ever freed.  The        *)
(* language is the one that src/qumir/ir/lowering/lower_ast.cpp gives a    *)
(* meaning to; the reference for the code it generates.                    *)
(*                                                                         *)
(* A run has the memory, the depth of the call, a stack of the values of   *)
(* the expressions evaluated so far, the answers that test() will give     *)
(* (none left: 0), what was written, and the structured exit under way.    *)

PushValue(run, v) == [run EXCEPT !.vals = Append(@, v)]
PopValues(run, n) == [run EXCEPT !.vals = SubSeq(@, 1, Len(@) - n)]
TopValue(run) == Last(run.vals)
TopValues(run, n) == SubSeq(run.vals, Len(run.vals) - n + 1, Len(run.vals))

PlaceAt(run, at) == IF at[1] = "local" THEN <<"local", run.depth, at[2]>> ELSE <<"slot", 0, at[2]>>
PlaceOf(run, v) == IF v.ref THEN run.mem[PlaceAt(run, v.at)] ELSE PlaceAt(run, v.at)
Element(place, i) == <<"elem", place, i>>

StoreAt(run, place, value) == [run EXCEPT !.mem = (place :> value) @@ @]

\* An element nobody assigned is empty.
ValueAt(run, place) == IF place \in DOMAIN run.mem THEN run.mem[place] ELSE <<>>

Within(n, low, high) == IF n < low THEN low ELSE IF n > high THEN high ELSE n
-----------------------------------------------------------------------------
Operate(op, x, y) ==
    CASE op = "+" -> x + y
      [] op = "-" -> x - y
      [] op = "*" -> x * y

\* Functions of the runtime, over strings as sequences of symbols.
Extern(run, name, a) ==
    CASE name = "str_concat" -> PushValue(run, a[1] \o a[2])
      [] name = "str_slice" -> PushValue(run, SubSeq(a[1], IF a[2] < 1 THEN 1 ELSE a[2],
                                                     IF a[3] > Len(a[1]) THEN Len(a[1]) ELSE a[3]))
      [] name = "str_len" -> PushValue(run, Len(a[1]))
      [] name = "str_replace_sym" -> PushValue(run, IF a[3] \in DOMAIN a[1] THEN [a[1] EXCEPT ![a[3]] = a[2]]
                                                    ELSE a[1])
      [] name = "str_delete_symbols" ->
             LET from == IF a[2] < 1 THEN 1 ELSE a[2]
                 s == run.mem[a[1]]
                 rest == SubSeq(s, from + (IF a[3] < 1 THEN 0 ELSE a[3]), Len(s))
             IN PushValue(StoreAt(run, a[1], IF from > Len(s) THEN s ELSE SubSeq(s, 1, from - 1) \o rest), 0)
      [] name = "str_insert_symbols" ->
             LET s == run.mem[a[2]]
                 at == Within(a[3], 1, Len(s) + 1)
             IN PushValue(StoreAt(run, a[2], SubSeq(s, 1, at - 1) \o a[1] \o SubSeq(s, at, Len(s))), 0)
      [] name = "output_string" -> PushValue([run EXCEPT !.out = Append(@, a[1])], 0)
      [] name = "test" -> IF run.bits = <<>> THEN PushValue(run, 0)
                          ELSE PushValue([run EXCEPT !.bits = Tail(@)], Head(run.bits))
-----------------------------------------------------------------------------
RECURSIVE Evaluate(_, _)

\* The place a reference parameter is given.
EvaluatePlace(run, target) ==
    IF target.kind = "ident" THEN PushValue(run, PlaceOf(run, target.x))
    ELSE LET indexed == Evaluate(run, target.kids[2])
         IN PushValue(PopValues(indexed, 1), Element(PlaceOf(run, target.x), TopValue(indexed)))

EvaluateAll(run, exprs) == FoldLeft(Evaluate, run, exprs)

\* A statement that exits leaves its value.
EvaluateBlock(run, stmts) ==
    FoldLeft(LAMBDA r, stmt : IF r.exit # "" THEN r ELSE Evaluate(PopValues(r, 1), stmt),
             PushValue(run, 0), stmts)

\* A new array is empty.
WithoutElements(run, place) ==
    [run EXCEPT !.mem = [p \in {q \in DOMAIN @ : ~(q[1] = "elem" /\ q[2] = place)} |-> @[p]]]

EvaluateVar(run, e) ==
    IF Len(e.kids) = 3
    THEN PushValue(WithoutElements(PopValues(EvaluateAll(run, Tail(e.kids)), 2), PlaceAt(run, e.x.at)), 0)
    ELSE IF IsAbsent(e.kids[1]) THEN PushValue(StoreAt(run, PlaceAt(run, e.x.at), <<>>), 0)
    ELSE LET value == Evaluate(run, e.kids[1])
         IN PushValue(StoreAt(PopValues(value, 1), PlaceAt(run, e.x.at), TopValue(value)), 0)

Stored(run, v) == PushValue(StoreAt(PopValues(run, 1), PlaceOf(run, v), TopValue(run)), 0)

StoredElement(run, v) ==
    LET a == TopValues(run, 2)
    IN PushValue(StoreAt(PopValues(run, 2), Element(PlaceOf(run, v), a[1]), a[2]), 0)

BinaryOf(run, op) ==
    PushValue(PopValues(run, 2), Operate(op, TopValues(run, 2)[1], TopValues(run, 2)[2]))

Branch(run, e) == Evaluate(PopValues(run, 1), IF TopValue(run) # 0 THEN e.kids[2] ELSE e.kids[3])

\* After the body of a loop: on with it, unless it was left.
Again(run, rest) ==
    IF run.exit = "break" THEN [run EXCEPT !.exit = ""]
    ELSE IF run.exit = "return" THEN run
    ELSE Evaluate(PopValues([run EXCEPT !.exit = ""], 1), rest)

WhileTested(run, e) ==
    IF TopValue(run) = 0 THEN run ELSE Again(Evaluate(PopValues(run, 1), e.kids[2]), e)

\* The lowering repeats while the condition is not 0.
EvaluateRepeat(run, e) == Again(Evaluate(run, e.kids[1]), While(e.kids[2], e.kids[1]))

TimesCounted(run, e) ==
    IF TopValue(run) <= 0 THEN run
    ELSE Again(Evaluate(PopValues(run, 1), e.kids[2]), Times(Num(TopValue(run) - 1), e.kids[2]))

\* A call of a function of the program has its own locals.
EnterCall(run, f, args) ==
    LET below == run.depth + 1
        Bound(r, i) == StoreAt(r, <<"local", below, i>>, args[i])
    IN FoldLeft(Bound, [run EXCEPT !.depth = below], [i \in DOMAIN args |-> i])

\* However the body is left, what is asserted last is evaluated.
AssertLast(run, e) == PopValues(Evaluate([run EXCEPT !.exit = ""], e), 1)

Leave(run) == [run EXCEPT !.depth = @ - 1]

CallDeclared(run, f, args, kids) == Leave(AssertLast(Evaluate(EnterCall(run, f, args), kids[1]), kids[2]))

CallFunction(run, f, args) ==
    IF f.external THEN Extern(run, f.name, args) ELSE CallDeclared(run, f, args, run.funs[f.name])

EvaluateArg(run, f, args, i) ==
    IF f.params[i].ref THEN EvaluatePlace(run, args[i]) ELSE Evaluate(run, args[i])

EvaluateCall(run, e) ==
    LET evaluated == FoldLeft(LAMBDA r, i : EvaluateArg(r, e.x, e.kids, i), run, [i \in DOMAIN e.kids |-> i])
    IN CallFunction(PopValues(evaluated, Len(e.kids)), e.x, TopValues(evaluated, Len(e.kids)))

Evaluate(run, e) ==
    CASE e.kind = "none" -> PushValue(run, 0)
      [] e.kind \in {"num", "lit"} -> PushValue(run, e.x)
      [] e.kind = "ident" -> PushValue(run, ValueAt(run, PlaceOf(run, e.x)))
      [] e.kind = "index" -> LET place == EvaluatePlace(run, e)
                             IN PushValue(PopValues(place, 1), ValueAt(run, TopValue(place)))
      [] e.kind = "binary" -> BinaryOf(EvaluateAll(run, e.kids), e.x)
      [] e.kind = "block" -> EvaluateBlock(run, e.kids)
      [] e.kind = "if" -> Branch(Evaluate(run, e.kids[1]), e)
      [] e.kind = "while" -> WhileTested(Evaluate(run, e.kids[1]), e)
      [] e.kind = "repeat" -> EvaluateRepeat(run, e)
      [] e.kind = "times" -> TimesCounted(Evaluate(run, e.kids[1]), e)
      [] e.kind = "var" -> EvaluateVar(run, e)
      [] e.kind = "assign" -> Stored(EvaluateAll(run, e.kids), e.x)
      [] e.kind = "aassign" -> StoredElement(EvaluateAll(run, e.kids), e.x)
      [] e.kind = "call" -> EvaluateCall(run, e)
      [] e.kind \in {"break", "continue"} -> PushValue([run EXCEPT !.exit = e.kind], 0)
      [] e.kind = "return" -> [Evaluate(run, e.kids[1]) EXCEPT !.exit = "return"]

\* The declarations of the root in turn, then the entry function.
Meaning(root, entry, bits) ==
    LET declared == SelectSeq(root.kids, LAMBDA e : e.kind = "fun")
        funs == [name \in {declared[i].x.name : i \in DOMAIN declared} |->
                    declared[SelectInSeq(declared, LAMBDA d : d.x.name = name)].kids]
        start == [mem |-> <<>>, depth |-> 0, vals |-> <<>>, bits |-> bits, out |-> <<>>, exit |-> "", funs |-> funs]
        globals == SelectSeq(root.kids, LAMBDA e : e.kind # "fun")
    IN CallFunction(EvaluateAll(start, globals), entry, <<>>).out
=============================================================================
