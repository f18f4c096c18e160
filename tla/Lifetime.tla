------------------------------ MODULE Lifetime ------------------------------
(***************************************************************************)
(* Ownership made explicit in the tree: the passes of the final semantic   *)
(* pipeline (src/qumir/semantics/return_normalization/pass.cpp,            *)
(* src/qumir/semantics/lifetime/pass.cpp).                                 *)
(*                                                                         *)
(* The state of TLifetimeRewriter is                                       *)
(*   scopes      Scopes_: the managed locals of the blocks around, in the  *)
(*               order of declaration                                      *)
(*   globals     GlobalLocals_                                             *)
(*   loops       LoopBoundaries_                                           *)
(*   boundary    FunctionBoundary_, NoFunction outside                     *)
(*   locals, slots   the next free variable, for synthetic names           *)
(*   failed      an error was returned                                     *)
(* plus a stack of the nodes rewritten so far: rewriting a node pushes the *)
(* node that takes its place (bounds, args and prefix collect those of one *)
(* declaration or call).  A local is a declaration with what its           *)
(* destructor needs besides (aux, NoNode if nothing).                      *)
(***************************************************************************)
EXTENDS Ast

NoFunction == -1

Pushed(st, e) == [st EXCEPT !.out = Append(@, e)]
Popped(st, n) == [st EXCEPT !.out = SubSeq(@, 1, Len(@) - n)]
Top(st) == Last(st.out)
TopN(st, n) == SubSeq(st.out, Len(st.out) - n + 1, Len(st.out))

IsArray(t) == t \in {"strings", "ints"}
-----------------------------------------------------------------------------
(* Return normalization.                                                   *)

NormalizeFunction(fun) ==
    LET stmts == fun.kids[1].kids
        body(s) == [fun EXCEPT !.kids[1].kids = s]
    IN IF AlwaysReturns(fun.kids[1]) THEN fun
       ELSE IF fun.x.ret = "void" THEN body(Append(stmts, Return(NoNode)))
       ELSE IF stmts = <<>> THEN fun
       ELSE body(Append(Front(stmts), Return(Last(stmts))))

\* Functions are at the top level only.
NormalizeReturns(root) ==
    [root EXCEPT !.kids = [i \in DOMAIN @ |-> IF @[i].kind = "fun" THEN NormalizeFunction(@[i]) ELSE @[i]]]
-----------------------------------------------------------------------------
(* Who owns the value of an expression.                                    *)

RECURSIVE ClassifyOwnership(_)

ClassifyOwnership(e) ==
    IF e.t # "string" \/ e.kind = "none" THEN "none"
    ELSE CASE e.kind = "lit" -> "literal"
           [] e.kind \in {"ident", "index", "borrow"} -> "borrowed"
           [] e.kind \in {"call", "retain", "own", "move"} -> "owned"
           [] e.kind = "block" -> IF e.kids = <<>> THEN "none" ELSE ClassifyOwnership(Last(e.kids))
           [] OTHER -> "unknown"

\* RequireOwned, of a string whose ownership is known.
Owned(e) ==
    CASE ClassifyOwnership(e) = "literal" -> OwnLiteral(e)
      [] ClassifyOwnership(e) = "borrowed" -> Retain(Borrow(e))
      [] ClassifyOwnership(e) = "owned" -> Move(e)

HasOwner(e) == ClassifyOwnership(e) \in {"literal", "borrowed", "owned"}

Failed(st) == [st EXCEPT !.failed = TRUE]
-----------------------------------------------------------------------------
(* Names, cleanups and scopes.                                             *)

\* A variable made by the pass: of the function, or a global.
NextName(st, t) ==
    Synthetic(IF st.boundary = NoFunction THEN Slot(st.slots + 1) ELSE Local(st.locals + 1), t)

Named(st) ==
    IF st.boundary = NoFunction THEN [st EXCEPT !.slots = @ + 1] ELSE [st EXCEPT !.locals = @ + 1]

MakeDestroy(local) == Destroy(Ident(local.decl), local.aux)

DestroyAll(locals) == [i \in DOMAIN locals |-> MakeDestroy(Reverse(locals)[i])]

\* Mutant of MakeCleanups: the innermost scope only.
InnermostCleanups(st, first) ==
    IF Len(st.scopes) > first THEN DestroyAll(Last(st.scopes)) ELSE <<>>

\* The locals of the scopes above the first ones, last declared first.
MakeCleanups(st, first) == DestroyAll(FlattenSeq(SubSeq(st.scopes, first + 1, Len(st.scopes))))

Register(st, decl, aux) ==
    IF st.boundary = NoFunction THEN [st EXCEPT !.globals = Append(@, [decl |-> decl, aux |-> aux])]
    ELSE [st EXCEPT !.scopes[Len(st.scopes)] = Append(@, [decl |-> decl, aux |-> aux])]

RECURSIVE AlwaysExits(_)

AlwaysExits(e) ==
    \/ e.kind = "exit"
    \/ e.kind = "block" /\ \E i \in DOMAIN e.kids : AlwaysExits(e.kids[i])
    \/ e.kind = "if" /\ ~IsAbsent(e.kids[3]) /\ AlwaysExits(e.kids[2]) /\ AlwaysExits(e.kids[3])
-----------------------------------------------------------------------------
(* Expressions and structured exits.                                       *)

RECURSIVE RewriteExpr(_, _, _)

\* After an error nothing more is rewritten.
RewriteAll(st, exprs) ==
    FoldLeft(LAMBDA s, e : IF s.failed THEN s ELSE RewriteExpr(s, e, TRUE), st, exprs)

\* The node with its children replaced by those on the stack.
Rebuilt(st, e) ==
    Pushed(Popped(st, Len(e.kids)), [e EXCEPT !.kids = TopN(st, Len(e.kids))])

\* The value is computed and owned before the cleanups run.
ReturnOwned(st, value, result) ==
    Pushed(Named(st), Block("void", << Var(result, Owned(value)),
                                       CleanupExit("return", Move(Ident(result)),
                                                   MakeCleanups(st, st.boundary)) >>))

ReturnPlain(st, value) == Pushed(st, CleanupExit("return", value, MakeCleanups(st, st.boundary)))

ReturnTop(st) ==
    IF Top(st).t # "string" THEN ReturnPlain(Popped(st, 1), Top(st))
    ELSE IF HasOwner(Top(st)) THEN ReturnOwned(Popped(st, 1), Top(st), NextName(st, "string"))
    ELSE Failed(st)

RewriteReturn(st, e) ==
    IF st.boundary = NoFunction THEN Failed(Pushed(st, e))
    ELSE ReturnTop(RewriteExpr(st, e.kids[1], TRUE))

\* Mutant of RewriteLoopExit: everything back to the start of the function is cleaned up.
LoopExitCleansAll(st, e) == Pushed(st, CleanupExit(e.kind, NoNode, MakeCleanups(st, st.boundary)))

RewriteLoopExit(st, e) ==
    IF st.loops = <<>> THEN Failed(Pushed(st, e))
    ELSE Pushed(st, CleanupExit(e.kind, NoNode, MakeCleanups(st, Last(st.loops))))

\* The operands first, then the body, with a boundary of its own.
EnterLoop(st) == [st EXCEPT !.loops = Append(@, Len(st.scopes))]
LeaveLoop(st) == [st EXCEPT !.loops = Front(@)]

RewriteLoop(st, e) ==
    LET operands == IF e.kind = "repeat" THEN Tail(e.kids) ELSE Front(e.kids)
        body == IF e.kind = "repeat" THEN Head(e.kids) ELSE Last(e.kids)
        done == LeaveLoop(RewriteExpr(EnterLoop(RewriteAll(st, operands)), body, FALSE))
        Rotated(s) == [s EXCEPT !.out = SubSeq(@, 1, Len(@) - 2) \o <<Last(@), @[Len(@) - 1]>>]
    IN Rebuilt(IF e.kind = "repeat" THEN Rotated(done) ELSE done, e)

\* The value on the stack is installed in the target.
ReplaceBy(st, target) ==
    IF HasOwner(Top(st)) THEN Pushed(Popped(st, 1), Replace(target, Owned(Top(st)))) ELSE Failed(st)

RewriteAssign(st, e) ==
    LET done == RewriteAll(st, e.kids)
    IN IF e.x.t = "string" THEN ReplaceBy(done, Ident(e.x)) ELSE Rebuilt(done, e)

RewriteArrayAssign(st, e) ==
    LET done == RewriteAll(st, e.kids)
        Under(s) == [s EXCEPT !.out = Append(SubSeq(@, 1, Len(@) - 2), Last(@))]
    IN IF e.x.t = "strings" THEN ReplaceBy(Under(done), Index(e.x, TopN(done, 2)[1])) ELSE Rebuilt(done, e)
-----------------------------------------------------------------------------
(* Calls.  A string argument that nobody owns after the call gets storage  *)
(* of its own, destroyed after the call; the result is kept meanwhile.     *)

Lends(f, i, arg) ==
    \/ f.params[i].ref \/ f.params[i].t # "string"
    \/ ClassifyOwnership(arg) = "borrowed"
    \/ ClassifyOwnership(arg) = "literal" /\ f.external /\ ~f.materialize
    \/ ~HasOwner(arg)

Lent(f, i, arg) ==
    IF ~f.params[i].ref /\ f.params[i].t = "string" /\ ClassifyOwnership(arg) = "borrowed" /\ arg.kind # "borrow"
    THEN Borrow(arg) ELSE arg

\* One argument after the other: its temporary, if it needs one, and what is passed.
LendArgument(st, f, i, arg, temporary) ==
    IF Lends(f, i, arg) THEN [st EXCEPT !.args = Append(@, Lent(f, i, arg))]
    ELSE [Named(st) EXCEPT !.args = Append(@, Borrow(Ident(temporary))),
                           !.prefix = Append(@, Var(temporary, Owned(arg)))]

LendArguments(st, f, args) ==
    FoldLeft(LAMBDA s, i : LendArgument(s, f, i, args[i], NextName(s, "string")),
             [st EXCEPT !.args = <<>>, !.prefix = <<>>], [i \in DOMAIN args |-> i])

DestroyTemporaries(prefix) ==
    [i \in DOMAIN prefix |-> Destroy(Ident(Reverse(prefix)[i].x), NoNode)]

Wrapped(prefix, call, result) ==
    IF call.t = "void" THEN Block(call.t, prefix \o <<call>> \o DestroyTemporaries(prefix))
    ELSE Block(call.t, prefix \o <<Var(result, call)>> \o DestroyTemporaries(prefix)
                       \o <<IF call.t = "string" THEN Move(Ident(result)) ELSE Ident(result)>>)

CallWith(st, e) ==
    LET call == [e EXCEPT !.kids = st.args]
    IN IF st.prefix = <<>> THEN Pushed(st, call)
       ELSE IF call.t = "void" THEN Pushed(st, Wrapped(st.prefix, call, NoNode))
       ELSE Pushed(Named(st), Wrapped(st.prefix, call, NextName(st, call.t)))

LendTop(st, e) == CallWith(LendArguments(Popped(st, Len(e.kids)), e.x, TopN(st, Len(e.kids))), e)

RewriteCall(st, e) == LendTop(RewriteAll(st, e.kids), e)
-----------------------------------------------------------------------------
(* Blocks.  The statements of a block are collected on the stack.          *)

IsReusableArrayBound(e) == e.kind \in {"num", "ident"}

\* A synthetic variable and its value, which at the top level is assigned.
KeepAs(st, name, value) ==
    IF st.boundary # NoFunction THEN <<Var(name, value)>> ELSE <<Var(name, NoNode), Assign(name, value)>>

PushAll(st, nodes) == [st EXCEPT !.out = @ \o nodes]

\* A bound that cannot be computed twice is kept; the bound pushed is the one to use.
RewriteBound(st, t) ==
    LET bound == Top(st)
        name == NextName(st, "int")
    IN IF t # "strings" \/ IsReusableArrayBound(bound) THEN [Popped(st, 1) EXCEPT !.bounds = Append(@, bound)]
       ELSE [Named(PushAll(Popped(st, 1), KeepAs(st, name, bound))) EXCEPT !.bounds = Append(@, Ident(name))]

RewriteBounds(st, e) ==
    FoldLeft(LAMBDA s, i : RewriteBound(RewriteExpr(s, e.kids[i], TRUE), e.x.t),
             [st EXCEPT !.bounds = <<>>], <<2, 3>>)

ArrayAllocationSize(lower, upper) ==
    Binary("*", Binary("*", Num(1), Binary("+", Binary("-", upper, lower), Num(1))), Num(1))

DeclareArray(st, e) ==
    LET size == NextName(st, "int")
        declared == Pushed(st, ArrayVar(e.x, st.bounds[1], st.bounds[2]))
    IN IF e.x.t = "strings"
       THEN Register(Named(PushAll(declared, KeepAs(st, size, ArrayAllocationSize(st.bounds[1], st.bounds[2])))),
                     e.x, Ident(size))
       ELSE Register(declared, e.x, NoNode)

\* A string starts as null and is then replaced by its initial value.
RewriteStringVar(st, e) ==
    IF e.kids[1].kind = "null" THEN Register(Pushed(st, e), e.x, NoNode)
    ELSE IF IsAbsent(e.kids[1]) THEN Register(Pushed(st, Var(e.x, NullString)), e.x, NoNode)
    ELSE Register(ReplaceBy(RewriteExpr(Pushed(st, Var(e.x, NullString)), e.kids[1], TRUE), Ident(e.x)),
                  e.x, NoNode)

\* An owned value that is not used is destroyed at once.
DestroyUnused(st) ==
    CASE ClassifyOwnership(Top(st)) = "unknown" -> Failed(st)
      [] ClassifyOwnership(Top(st)) = "owned" -> Pushed(Popped(st, 1), Destroy(Move(Top(st)), NoNode))
      [] OTHER -> st

RewriteStatement(st, e, used) ==
    IF e.kind = "var" /\ e.x.synthetic THEN Rebuilt(RewriteAll(st, e.kids), e)
    ELSE IF e.kind = "var" /\ IsArray(e.x.t) THEN DeclareArray(RewriteBounds(st, e), e)
    ELSE IF e.kind = "var" /\ e.x.t = "string" THEN RewriteStringVar(st, e)
    ELSE IF used THEN RewriteExpr(st, e, TRUE)
    ELSE DestroyUnused(RewriteExpr(st, e, FALSE))

EnterBlock(st) == [st EXCEPT !.scopes = Append(@, <<>>)]

CloseBlock(st, e, n) ==
    LET stmts == SubSeq(st.out, n + 1, Len(st.out))
        cleanups == IF st.boundary # NoFunction /\ ~AlwaysExits(Block(e.t, stmts))
                    THEN MakeCleanups(st, Len(st.scopes) - 1) ELSE <<>>
    IN [st EXCEPT !.out = Append(SubSeq(@, 1, n), [e EXCEPT !.kids = stmts \o cleanups]),
                  !.scopes = Front(@)]

RewriteBlock(st, e, used) ==
    CloseBlock(FoldLeft(LAMBDA s, i : IF s.failed THEN s
                                      ELSE RewriteStatement(s, e.kids[i], used /\ i = Len(e.kids)),
                        EnterBlock(st), [i \in DOMAIN e.kids |-> i]),
               e, Len(st.out))

\* What the body falls through with, if anything, is used; what is asserted last is not.
EnterFunction(st) == [st EXCEPT !.boundary = Len(st.scopes), !.locals = st.reserved]
LeaveFunction(st, outside) == [st EXCEPT !.boundary = outside]

RewriteFunction(st, e) ==
    Rebuilt(LeaveFunction(RewriteExpr(RewriteExpr(EnterFunction(st), e.kids[1], e.x.ret # "void"),
                                      e.kids[2], FALSE), st.boundary), e)

RewriteExpr(st, e, used) ==
    CASE e.kind = "none" -> Pushed(st, e)
      [] e.kind = "block" -> RewriteBlock(st, e, used)
      [] e.kind = "fun" -> RewriteFunction(st, e)
      [] e.kind = "return" -> RewriteReturn(st, e)
      [] e.kind \in {"break", "continue"} -> RewriteLoopExit(st, e)
      [] e.kind \in {"while", "repeat", "for", "times"} -> RewriteLoop(st, e)
      [] e.kind = "assign" -> RewriteAssign(st, e)
      [] e.kind = "aassign" -> RewriteArrayAssign(st, e)
      [] e.kind = "call" -> RewriteCall(st, e)
      [] OTHER -> Rebuilt(RewriteAll(st, e.kids), e)
-----------------------------------------------------------------------------
\* The variables of the program are the locals 1 .. reserved of each function
\* and the slots 1 .. slots.
Rewriter(reserved, slots) ==
    [scopes |-> <<>>, globals |-> <<>>, loops |-> <<>>, boundary |-> NoFunction, reserved |-> reserved,
     locals |-> reserved, slots |-> slots, failed |-> FALSE, bounds |-> <<>>, args |-> <<>>, prefix |-> <<>>, out |-> <<>>]

\* The globals are destroyed by one more statement of the root.
CleanGlobals(st) ==
    IF st.globals = <<>> THEN st
    ELSE [st EXCEPT !.out[1].kids = Append(@, GlobalCleanup(DestroyAll(st.globals)))]

\* A tree with lifetime nodes has been rewritten before.
LifetimePass(root, reserved, slots) ==
    IF ContainsLifetimeNode(root) THEN Pushed(Rewriter(reserved, slots), root)
    ELSE CleanGlobals(RewriteExpr(Rewriter(reserved, slots), root, FALSE))
-----------------------------------------------------------------------------
(***************************************************************************)
(* What the lowering demands of a tree with explicit ownership             *)
(* (src/qumir/semantics/lifetime/validator.cpp).  Variables are resolved   *)
(* in the model, so synthetic names cannot fail to be.                     *)
(***************************************************************************)

\* GetLifetimeTraits: strings are counted, arrays have one owner.
NeedsDestroy(t) == t \in {"string", "strings", "ints"}
CanCopy(t) == t \notin {"strings", "ints"}
RefCounted(t) == t = "string"

RECURSIVE ManagedValueKind(_)

ManagedValueKind(e) ==
    IF IsAbsent(e) \/ ~NeedsDestroy(e.t) THEN "none"
    ELSE CASE e.kind = "lit" -> "literal"
           [] e.kind \in {"retain", "own", "move", "call"} -> "owned"
           [] e.kind \in {"borrow", "ident", "index"} -> "borrowed"
           [] e.kind = "block" -> IF e.kids = <<>> THEN "none" ELSE ManagedValueKind(Last(e.kids))
           [] OTHER -> "unknown"

IsOwnedStorage(e) == e.kind = "ident" /\ ~e.x.param

IsOwned(e) == ManagedValueKind(e) = "owned"

RECURSIVE ValidNode(_, _)

AllValid(nodes) == \A i \in DOMAIN nodes : ValidNode(nodes[i], FALSE)

ValidBlock(e, consumed) ==
    \A i \in DOMAIN e.kids : ValidNode(e.kids[i], consumed /\ i = Len(e.kids))

\* An array is never initialized from a variable, a string never from a raw literal.
ValidVar(e) ==
    /\ ~(NeedsDestroy(e.t) /\ e.kids[1].kind = "lit")
    /\ ~(~CanCopy(e.t) /\ ManagedValueKind(e.kids[1]) = "borrowed")
    /\ ValidNode(e.kids[1], NeedsDestroy(e.t))
    /\ AllValid(Tail(e.kids))

ValidDestroy(e) ==
    /\ NeedsDestroy(e.kids[1].t)
    /\ IsOwned(e.kids[1]) \/ IsOwnedStorage(e.kids[1])
    /\ ValidNode(e.kids[1], TRUE) /\ ValidNode(e.kids[2], FALSE)

ValidExit(e) ==
    /\ NeedsDestroy(e.kids[1].t) => IsOwned(e.kids[1])
    /\ ValidNode(e.kids[1], TRUE)
    /\ AllValid(Tail(e.kids))

\* A value made owned by a node of its own must have a consumer.
ValidNode(e, consumed) ==
    /\ e.kind \in {"retain", "own", "move"} /\ IsOwned(e) => consumed
    /\ CASE e.kind = "none" -> TRUE
         [] e.kind = "block" -> ValidBlock(e, consumed)
         [] e.kind = "fun" -> ValidNode(e.kids[1], FALSE)
         [] e.kind = "return" -> ValidNode(e.kids[1], TRUE)
         [] e.kind = "var" -> ValidVar(e)
         [] e.kind = "retain" -> /\ RefCounted(e.kids[1].t)
                                 /\ ManagedValueKind(e.kids[1]) = "borrowed"
                                 /\ ValidNode(e.kids[1], FALSE)
         [] e.kind = "own" -> e.kids[1].kind = "lit" /\ ValidNode(e.kids[1], FALSE)
         [] e.kind = "move" -> /\ IsOwned(e.kids[1]) \/ IsOwnedStorage(e.kids[1])
                               /\ ValidNode(e.kids[1], TRUE)
         [] e.kind = "borrow" -> ManagedValueKind(e.kids[1]) = "borrowed" /\ ValidNode(e.kids[1], FALSE)
         [] e.kind = "destroy" -> ValidDestroy(e)
         [] e.kind = "replace" -> /\ NeedsDestroy(e.kids[1].t) /\ IsOwned(e.kids[2])
                                  /\ ValidNode(e.kids[1], FALSE) /\ ValidNode(e.kids[2], TRUE)
         [] e.kind = "exit" -> ValidExit(e)
         [] OTHER -> AllValid(e.kids)
=============================================================================
