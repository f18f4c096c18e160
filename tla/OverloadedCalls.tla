--------------------------- MODULE OverloadedCalls ---------------------------
(***************************************************************************)
(* Type annotation of names and calls: overload resolution, generic        *)
(* instances and implicit conversions                                      *)
(* (src/qumir/semantics/type_annotation/type_annotation.cpp, coercions.cpp *)
(* and coercions.h).                                                       *)
(*                                                                         *)
(* Annotation rewrites the tree: a step returns the place of the node that *)
(* takes the old one's part.  Literals are numbers that fit every integer  *)
(* type; a literal's name says whether it is written as an integer.        *)
(***************************************************************************)
EXTENDS NameResolver

Literal == {<<"int">>, <<"float">>}
IntTypes == {"i32", "i64", "u32"}
IsInt(t) == Head(t) \in IntTypes
IsFloat(t) == Head(t) = "f64"

ParamType(cx, id, i) == cx.heap[cx.heap[id].params[i]].t
TypesOf(cx, ids) == [i \in DOMAIN ids |-> cx.heap[ids[i]].t]
-----------------------------------------------------------------------------
\* Conversions.

\* Arrays count as equal whatever their elements are.
EqualTypes(a, b) == Head(a) = Head(b)
WideningIntOK(from, to) ==
    IsInt(from) /\ IsInt(to) /\ (from = to \/ (Head(from) \in {"i32", "u32"} /\ Head(to) = "i64"))
CanImplicit(from, to) ==
    \/ EqualTypes(from, to)
    \/ WideningIntOK(from, to)
    \/ IsInt(from) /\ IsFloat(to)
    \/ IsFloat(from) /\ IsInt(to)
    \/ (IsInt(from) \/ IsFloat(from)) /\ Head(to) = "bool"

Returning(cx, id) == [cx EXCEPT !.it = id]
Retyped(cx, id, type) == Returning([cx EXCEPT !.heap[id].t = type], id)

\* A literal takes the type; anything else is wrapped in a cast.
InsertImplicitCastIfNeeded(cx, id, to) ==
    LET node == cx.heap[id]
    IN  CASE EqualTypes(node.t, to) \/ ~ CanImplicit(node.t, to) -> Returning(cx, id)
          [] ~ EqualTypes(node.t, to) /\ CanImplicit(node.t, to) /\ node.kind = "num" /\ Head(to) # "bool" ->
               Make(cx, [node EXCEPT !.t = to, !.name = IF IsFloat(to) THEN <<"float">> ELSE <<"int">>])
          [] OTHER -> Make(cx, [Tree("cast", <<>>, to, <<id>>) EXCEPT !.at = node.at])

IsIntegerLiteral(node) == node.kind = "num" /\ IsInt(node.t)
IntegerLiteralCanUseType(node, to) == IsIntegerLiteral(node) /\ (IsFloat(to) \/ IsInt(to))
RetypeIntegerLiteralIfFits(cx, id, to) ==
    IF IntegerLiteralCanUseType(cx.heap[id], to) THEN Retyped(cx, id, to) ELSE Returning(cx, id)
-----------------------------------------------------------------------------
\* The cost of passing an argument, compared as a tuple.

NoCost == <<0, 0, 0, 0, 0>>
Plus(a, b) == [i \in 1..5 |-> a[i] + b[i]]
Less(a, b) == \E i \in 1..5 : a[i] < b[i] /\ \A j \in 1..i - 1 : a[j] = b[j]

Conversion(n) == <<0, 0, n, 0, 0>>
GenericParamCost(topLevel) == <<1, IF topLevel THEN 1 ELSE 0, 0, 0, 1>>
StructuralGenericCost(fixed) == <<1, 0, 0, -fixed, 1>>

\* What a generic parameter stands for in a type, <<>> when the types do not fit.
IsGeneric(type, generics) == type # <<>> /\ Last(type) \in generics
Matched(param, arg) ==
    IF Len(arg) >= Len(param) /\ SubSeq(arg, 1, Len(param) - 1) = Front(param) THEN SubSeq(arg, Len(param), Len(arg)) ELSE <<>>

\* At most one cost; none when the argument cannot be passed.
ArgCost(from, to, generics) ==
    CASE IsGeneric(to, generics) /\ Len(to) = 1 -> {GenericParamCost(TRUE)}
      [] IsGeneric(to, generics) /\ Len(to) > 1 -> IF Matched(to, from) = <<>> THEN {} ELSE {StructuralGenericCost(Len(to) - 1)}
      [] ~ IsGeneric(to, generics) /\ from = to -> {NoCost}
      [] ~ IsGeneric(to, generics) /\ from # to /\ IsInt(from) /\ IsInt(to) -> IF WideningIntOK(from, to) THEN {Conversion(1)} ELSE {}
      [] ~ IsGeneric(to, generics) /\ IsInt(from) /\ IsFloat(to) -> {Conversion(2)}
      [] OTHER -> {}

TotalCost(cx, id, args) ==
    FoldLeft(LAMBDA total, i : {Plus(a, b) : a \in total, b \in ArgCost(cx.heap[args[i]].t, ParamType(cx, id, i), ToSet(cx.heap[id].generics))},
             {NoCost}, [i \in DOMAIN args |-> i])
-----------------------------------------------------------------------------
\* Generic parameters: what the arguments bind them to.

IsGenericTypeParamRef(type, generics) == IsGeneric(type, generics) /\ Len(type) = 1

\* The step of one argument: what is bound stays bound, but a literal adapts to it.
Bind(cx, inferred, name, concrete, arg, retype) ==
    CASE name \notin DOMAIN inferred.bindings -> [inferred EXCEPT !.bindings = (name :> concrete) @@ @]
      [] name \in DOMAIN inferred.bindings /\ inferred.bindings[name] = concrete -> inferred
      [] OTHER -> IF IntegerLiteralCanUseType(cx.heap[arg], inferred.bindings[name])
                  THEN IF retype THEN [inferred EXCEPT !.cx = RetypeIntegerLiteralIfFits(inferred.cx, arg, inferred.bindings[name])] ELSE inferred
                  ELSE [inferred EXCEPT !.ok = FALSE]
UnifyGenericType(inferred, param, arg, generics, retype) ==
    LET concrete == Matched(param, inferred.cx.heap[arg].t)
    IN  IF ~ inferred.ok \/ ~ IsGeneric(param, generics) \/ concrete = <<>> THEN inferred
        ELSE Bind(inferred.cx, inferred, Last(param), concrete, arg, retype)

\* Structured parameters first, then what is no literal, then literals.
Rounds(cx, id, args, generics) ==
    LET bare == SelectSeq([i \in DOMAIN args |-> i], LAMBDA i : IsGenericTypeParamRef(ParamType(cx, id, i), generics))
    IN  SelectSeq([i \in DOMAIN args |-> i], LAMBDA i : ~ IsGenericTypeParamRef(ParamType(cx, id, i), generics))
            \o SelectSeq(bare, LAMBDA i : ~ IsIntegerLiteral(cx.heap[args[i]]))
            \o SelectSeq(bare, LAMBDA i : IsIntegerLiteral(cx.heap[args[i]]))

InferGenericBindings(cx, id, args, retype) ==
    FoldLeft(LAMBDA inferred, i : UnifyGenericType(inferred, ParamType(cx, id, i), args[i], ToSet(cx.heap[id].generics), retype),
             [cx |-> cx, bindings |-> <<>>, ok |-> TRUE], Rounds(cx, id, args, ToSet(cx.heap[id].generics)))
AllGenericBindingsPresent(cx, id, bindings) == ToSet(cx.heap[id].generics) \subseteq DOMAIN bindings

SubstituteGenericType(type, bindings) ==
    IF type # <<>> /\ Last(type) \in DOMAIN bindings THEN Front(type) \o bindings[Last(type)] ELSE type

\* A copy has no scopes yet.
RECURSIVE CloneAndSubstituteExpr(_, _, _)
CloneAll(cx, ids, bindings) ==
    FoldLeft(LAMBDA acc, id : LET c == CloneAndSubstituteExpr(acc.cx, id, bindings) IN [cx |-> c, ids |-> Append(acc.ids, c.it)],
             [cx |-> cx, ids |-> <<>>], ids)
CloneNode(node, kids, bindings) ==
    Make(kids.cx, [node EXCEPT !.t = SubstituteGenericType(@, bindings), !.scope = 0, !.kids = kids.ids])
CloneAndSubstituteExpr(cx, id, bindings) == CloneNode(cx.heap[id], CloneAll(cx, cx.heap[id].kids, bindings), bindings)

MangleGenericInstance(name, ret, types) == Signature("__generic", name, ret, types)
-----------------------------------------------------------------------------
\* Annotation.

RECURSIVE DoAnnotate(_, _, _)

\* Each child gives way to what its annotation returns.
AnnotateKid(cx, id, i, scope) ==
    LET done == DoAnnotate(cx, cx.heap[id].kids[i], scope)
    IN  IF Failed(done) THEN done ELSE [done EXCEPT !.heap[id].kids[i] = done.it]
AnnotateKids(cx, id, from, scope) ==
    FoldLeft(LAMBDA c, i : Then(c, LAMBDA d : AnnotateKid(d, id, i, scope)), cx,
             SelectSeq([i \in DOMAIN cx.heap[id].kids |-> i], LAMBDA i : i >= from))

\* The value of a child is converted to a type; why it cannot be.
ConvertKid(cx, id, i, to, why) ==
    LET kid == cx.heap[id].kids[i]
        done == InsertImplicitCastIfNeeded(cx, kid, to)
    IN  IF ~ CanImplicit(cx.heap[kid].t, to) THEN FailsWith(cx, why, id)
        ELSE [done EXCEPT !.heap[id].kids[i] = done.it]

\* Generic functions are blueprints: they leave the tree.
IsGenericDecl(cx, id) == cx.heap[id].kind = "fun" /\ cx.heap[id].generics # <<>>
DropBlueprints(cx, id) == [cx EXCEPT !.heap[id].kids = SelectSeq(@, LAMBDA kid : ~ IsGenericDecl(cx, kid))]
TypedAsLast(cx, id) ==
    Retyped(cx, id, IF cx.heap[id].kids = <<>> THEN <<"void">> ELSE cx.heap[Last(cx.heap[id].kids)].t)
AnnotateBlock(cx, id) ==
    Then(AnnotateKids(cx, id, 1, cx.heap[id].scope), LAMBDA c : TypedAsLast(DropBlueprints(c, id), id))

AnnotateIdent(cx, id, scope) ==
    LET symbol == Lookup(cx, cx.heap[id].name, scope)
    IN  IF symbol = 0 THEN FailsWith(cx, "undeclared", id) ELSE Retyped(cx, id, cx.heap[NodeOf(cx, symbol)].t)

AnnotateAssign(cx, id, scope) ==
    Then(AnnotateKids(cx, id, 1, scope),
         LAMBDA c : Then(ConvertKid(c, id, 1, c.heap[NodeOf(c, Lookup(c, c.heap[id].name, scope))].t, "convert"),
                         LAMBDA d : Retyped(d, id, <<"void">>)))

AnnotateVar(cx, id, scope) ==
    IF cx.heap[id].kids = <<>> THEN Returning(cx, id)
    ELSE Then(AnnotateKids(cx, id, 1, scope),
              LAMBDA c : Then(ConvertKid(c, id, 1, c.heap[id].t, "convert"), LAMBDA d : Returning(d, id)))

\* The last value of a body is what the function returns; an instance may have none.
ReturnValue(cx, body, ret, id) ==
    CASE ret = <<"void">> \/ (cx.heap[body].t = <<"void">> /\ cx.heap[id].name[1] = "__generic") -> cx
      [] ret # <<"void">> /\ cx.heap[body].t = <<"void">> /\ cx.heap[id].name[1] # "__generic" -> FailsWith(cx, "no value", id)
      [] OTHER -> Then(ConvertKid(cx, body, Len(cx.heap[body].kids), ret, "convert"), LAMBDA c : Retyped(c, body, ret))
AnnotateBody(cx, id, scope) ==
    Then(DoAnnotate(cx, cx.heap[id].kids[1], scope),
         LAMBDA c : Then(ReturnValue(c, c.heap[id].kids[1], c.heap[id].ret, id), LAMBDA d : Returning(d, id)))
AnnotateFunDecl(cx, id, scope) ==
    IF cx.heap[id].generics # <<>> THEN Returning(cx, id) ELSE AnnotateBody(cx, id, scope)

\* One instance for every signature; it can be found before its body is annotated.
InstanceNode(cx, id, bindings, params) ==
    LET types == TypesOf(params.cx, params.ids)
        ret == SubstituteGenericType(cx.heap[id].ret, bindings)
    IN  [cx.heap[id] EXCEPT !.name = MangleGenericInstance(@, ret, types), !.generics = <<>>, !.params = params.ids,
                            !.ret = ret, !.scope = 0, !.origin = ""]
PublishInstance(body, node) ==
    Then(Make(body, [node EXCEPT !.kids = <<body.it>>]),
         LAMBDA c : Then(ResolveInstantiatedFunDecl(c, c.it), LAMBDA d : AnnotateBody(d, c.it, Root)))
FindOrPublish(cx, id, bindings, node, params) ==
    IF Lookup(cx, node.name, Root) # 0 THEN Returning(cx, NodeOf(cx, Lookup(cx, node.name, Root)))
    ELSE PublishInstance(CloneAndSubstituteExpr(params.cx, cx.heap[id].kids[1], bindings), node)
InstantiateWith(cx, id, bindings, params) == FindOrPublish(cx, id, bindings, InstanceNode(cx, id, bindings, params), params)
InstantiateGenericFunction(cx, id, args, at) ==
    LET inferred == InferGenericBindings(cx, id, args, TRUE)
    IN  IF ~ inferred.ok \/ ~ AllGenericBindingsPresent(cx, id, inferred.bindings) THEN FailsWith(cx, "bindings", at)
        ELSE InstantiateWith(inferred.cx, id, inferred.bindings, CloneAll(inferred.cx, cx.heap[id].params, inferred.bindings))

\* The callee becomes the name of the function that was found.
Retarget(cx, id, fun) ==
    LET callee == Make(cx, [cx.heap[cx.heap[id].kids[1]] EXCEPT !.name = cx.heap[fun].name, !.t = <<"fun">>])
    IN  Returning([callee EXCEPT !.heap[id].kids[1] = callee.it], fun)
ConvertArgs(cx, id, fun) ==
    FoldLeft(LAMBDA c, i : Then(c, LAMBDA d : ConvertKid(d, id, i + 1, ParamType(d, fun, i), "convert")),
             cx, [i \in DOMAIN cx.heap[fun].params |-> i])
Args(cx, id) == Tail(cx.heap[id].kids)

\* The cheapest candidates.
Viable(cx, id, overloads) ==
    {s \in ToSet(overloads) :
        LET fun == NodeOf(cx, s)
        IN  /\ IsFun(cx, fun) /\ Len(cx.heap[fun].params) = Len(Args(cx, id))
            /\ TotalCost(cx, fun, Args(cx, id)) # {}
            /\ InferGenericBindings(cx, fun, Args(cx, id), FALSE).ok}
CostOf(cx, id, s) == CHOOSE cost \in TotalCost(cx, NodeOf(cx, s), Args(cx, id)) : TRUE
\* Mutant of Cheapest: the first function that can take the arguments.
FirstViable(cx, id, viable) == {s \in viable : \A other \in viable : s <= other}
Cheapest(cx, id, viable) == {s \in viable : ~ \E other \in viable : Less(CostOf(cx, id, other), CostOf(cx, id, s))}

ChosenOverload(cx, id, fun) ==
    Then(IF cx.heap[fun].generics = <<>> THEN Returning(cx, fun) ELSE InstantiateGenericFunction(cx, fun, Args(cx, id), id),
         LAMBDA c : Then(ConvertArgs(c, id, c.it),
                         LAMBDA d : Retyped(Retarget(d, id, c.it), id, d.heap[c.it].ret)))
ChooseAmong(cx, id, best) ==
    CASE best = {} -> FailsWith(cx, "no match", id)
      [] Cardinality(best) > 1 -> FailsWith(cx, "ambiguous", id)
      [] OTHER -> ChosenOverload(cx, id, NodeOf(cx, CHOOSE s \in best : TRUE))
AnnotateOverloadedCall(cx, id, overloads, scope) ==
    Then(AnnotateKids(cx, id, 2, scope), LAMBDA c : ChooseAmong(c, id, Cheapest(c, id, Viable(c, id, overloads))))

\* A single candidate takes what converts to its types; a literal takes them at once.
PassArgs(cx, id, fun) ==
    IF Len(cx.heap[fun].params) # Len(Args(cx, id)) THEN FailsWith(cx, "arity", id)
    ELSE FoldLeft(LAMBDA c, i : Then(c, LAMBDA d : ConvertKid(RetypeIntegerLiteralIfFits(d, d.heap[id].kids[i + 1], ParamType(d, fun, i)),
                                                            id, i + 1, ParamType(d, fun, i), "convert")),
                  cx, [i \in DOMAIN cx.heap[fun].params |-> i])
CallFound(cx, id, fun) ==
    IF ~ IsFun(cx, fun) THEN Retyped(cx, id, cx.heap[fun].t)
    ELSE Then(PassArgs(cx, id, fun), LAMBDA c : Retyped(c, id, c.heap[fun].ret))
CallByName(cx, id, scope) ==
    Then(AnnotateIdent(cx, cx.heap[id].kids[1], scope),
         LAMBDA c : LET fun == NodeOf(c, Lookup(c, c.heap[c.heap[id].kids[1]].name, scope))
                    IN  IF IsFun(c, fun) THEN Then(AnnotateKids(c, id, 2, scope), LAMBDA d : CallFound(d, id, fun)) ELSE CallFound(c, id, fun))
CallInstance(cx, id, fun, scope) ==
    Then(AnnotateKids(cx, id, 2, scope),
         LAMBDA c : IF Len(c.heap[fun].params) # Len(Args(c, id)) THEN FailsWith(c, "arity", id)
                    ELSE Then(InstantiateGenericFunction(c, fun, Args(c, id), id),
                              LAMBDA d : CallByName(Retarget(d, id, d.it), id, scope)))
AnnotateCall(cx, id, scope) ==
    LET overloads == LookupOverloads(cx, cx.heap[cx.heap[id].kids[1]].name, scope)
    IN  CASE Len(overloads) > 1 -> AnnotateOverloadedCall(cx, id, overloads, scope)
          [] Len(overloads) = 1 /\ IsGenericDecl(cx, NodeOf(cx, overloads[1])) -> CallInstance(cx, id, NodeOf(cx, overloads[1]), scope)
          [] OTHER -> CallByName(cx, id, scope)

DoAnnotate(cx, id, scope) ==
    LET kind == cx.heap[id].kind
    IN  CASE kind = "block" -> AnnotateBlock(cx, id)
          [] kind = "fun" -> AnnotateFunDecl(cx, id, scope)
          [] kind = "var" -> AnnotateVar(cx, id, scope)
          [] kind = "assign" -> AnnotateAssign(cx, id, scope)
          [] kind = "ident" -> AnnotateIdent(cx, id, scope)
          [] kind = "call" -> AnnotateCall(cx, id, scope)
          [] kind = "cast" -> Then(AnnotateKids(cx, id, 1, scope), LAMBDA c : Returning(c, id))
          [] kind = "use" -> Retyped(cx, id, <<"void">>)
          [] kind = "num" /\ cx.heap[id].t = <<>> -> Retyped(cx, id, IF cx.heap[id].name = <<"int">> THEN <<"i64">> ELSE <<"f64">>)
          [] OTHER -> Returning(cx, id)

\* The instances join the program, once.
Annotate(cx) ==
    Then(DoAnnotate(cx, cx.root, Root),
         LAMBDA c : [c EXCEPT !.heap[c.root].kids = @ \o c.instances, !.instances = <<>>])
=============================================================================
